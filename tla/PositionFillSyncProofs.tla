----------------------- MODULE PositionFillSyncProofs -----------------------
(***************************************************************************)
(* Proofs about the settling gate, for every set of keys, every settling   *)
(* and waiting time and every HSL scope.                                   *)
(***************************************************************************)
EXTENDS PositionFillSync, FiniteSetTheorems, TLAPS

\* The history variable pendingSince follows the entry's deadline.
DeadlineInv == \A k \in Keys : k \in pending => pendingSince[k] = entry[k].first

\* Revisions in use were handed out, so a later change always gets another one.
RevisionInv == \A k \in Keys : entry[k].revision <= revision /\ receipt[k] <= revision

\* An entry the running fetch's receipt still describes had settled or expired
\* when that fetch began.
ReceiptInv ==
    \A k \in Keys :
        receipt[k] > 0 /\ entry[k].revision = receipt[k]
           => \/ fetchBegan - entry[k].changed >= Settle
              \/ fetchBegan - entry[k].first >= MaxWait

\* A write context is submitted exactly when an attempt passed the transport.
WriteInv ==
    \A w \in Writes :
        /\ write[w].submitted <=> write[w].attempts > 0
        /\ write[w].at \in {"idle", "deferred"} => write[w].attempts = 0
        /\ write[w].recorded = IF write[w].attempts > 0 THEN 1 ELSE 0

\* A key whose change no completed fetch covers is pending, or has had its time; a
\* running fetch that misses the change of a key its receipt still describes began
\* after the key's deadline.
UnfetchedInv ==
    /\ fetchBegan <= now
    /\ \A k \in unfetched : k \in pending \/ now - pendingSince[k] >= MaxWait
    /\ \A k \in missed :
          receipt[k] > 0 /\ entry[k].revision = receipt[k]
             => fetchBegan - entry[k].first >= MaxWait

Inv == TypeOK /\ DeadlineInv /\ RevisionInv /\ ReceiptInv /\ WriteInv /\ UnfetchedInv

-----------------------------------------------------------------------------

\* A snapshot hands out revisions above every revision in use and not above the
\* new counter (the loop of observe).
LEMMA ObserveRevisions ==
    ASSUME TypeOK, NEW p \in [Keys -> Sizes]
    PROVE  /\ Cardinality(ChangedKeys(p)) \in Nat
           /\ \A rev \in Bijection(ChangedKeys(p),
                         (revision + 1)..(revision + Cardinality(ChangedKeys(p)))) :
                 \A k \in ChangedKeys(p) :
                    /\ rev[k] \in Nat
                    /\ rev[k] > revision
                    /\ rev[k] <= revision + Cardinality(ChangedKeys(p))
<1>1. IsFiniteSet(ChangedKeys(p))
  BY ConstantsAssumption, FS_Subset DEF ChangedKeys
<1>2. Cardinality(ChangedKeys(p)) \in Nat
  BY <1>1, FS_CardinalityType
<1>3. revision \in Nat
  BY DEF TypeOK
<1>4. ASSUME NEW S, NEW n \in Nat,
             NEW rev \in Bijection(S, (revision + 1)..(revision + n)), NEW k \in S
      PROVE  rev[k] \in (revision + 1)..(revision + n)
  BY DEF Bijection, Injection
<1> QED
  BY <1>2, <1>3, <1>4

\* Every type-correct state goes to type-correct states.
LEMMA TypeStep == TypeOK /\ [Next]_vars => TypeOK'
<1> SUFFICES ASSUME TypeOK, [Next]_vars
             PROVE  TypeOK'
  OBVIOUS
<1> USE ConstantsAssumption
<1>1. CASE Tick
  BY <1>1 DEF TypeOK, Tick, gate, fetch
<1>2. ASSUME NEW p \in [Keys -> Sizes], Observe(p)
      PROVE  TypeOK'
  <2> DEFINE changed == ChangedKeys(p)
             last == revision + Cardinality(changed)
  <2>1. PICK rev \in Bijection(changed, (revision + 1)..last) :
            entry' = [k \in Keys |-> IF k \in changed THEN ChangedEntry(k, rev[k])
                                                      ELSE entry[k]]
    BY <1>2 DEF Observe
  <2>2. last \in Nat /\ \A k \in changed : rev[k] \in Nat
    <3>1. Cardinality(changed) \in Nat /\ \A k \in changed : rev[k] \in Nat
      BY <2>1, ObserveRevisions
    <3> QED
      BY <3>1 DEF TypeOK
  <2>3. \A k \in changed : ChangedEntry(k, rev[k]) \in Entry
    <3> SUFFICES ASSUME NEW k \in changed
                 PROVE  ChangedEntry(k, rev[k]) \in Entry
      OBVIOUS
    <3>1. k \in Keys
      BY DEF ChangedKeys
    <3>2. now \in Nat /\ entry[k].first \in Nat
      BY <3>1 DEF TypeOK, Entry
    <3> QED
      BY <2>2, <3>2 DEF ChangedEntry, Entry
  <2>4. entry' \in [Keys -> Entry]
    BY <2>1, <2>3 DEF TypeOK
  <2>5. revision' \in Nat /\ positions' \in [Keys -> Sizes] /\ observed' \in BOOLEAN
    BY <1>2, <2>2 DEF Observe
  <2>6. pendingSince' \in [Keys -> Nat]
    BY <1>2 DEF Observe, TypeOK
  <2>7. UNCHANGED <<now, fetching, receipt, fetchBegan, write>>
    BY <1>2 DEF Observe
  <2>8. unfetched' \subseteq Keys /\ missed' \subseteq Keys
    BY <1>2 DEF Observe, ChangedKeys, TypeOK
  <2> QED
    BY <2>4, <2>5, <2>6, <2>7, <2>8 DEF TypeOK
<1>3. CASE BeginFetch
  <2>1. receipt' \in [Keys -> Nat]
    BY <1>3 DEF BeginFetch, TypeOK, Entry
  <2> QED
    BY <1>3, <2>1 DEF BeginFetch, TypeOK, gate
<1>4. CASE FinishFetch
  <2>1. entry' \in [Keys -> Entry]
    BY <1>4 DEF FinishFetch, TypeOK, NoEntry, Entry
  <2> QED
    BY <1>4, <2>1 DEF FinishFetch, EndFetch, TypeOK, NoReceipt
<1>5. CASE DropFetch
  BY <1>5 DEF DropFetch, EndFetch, TypeOK, NoReceipt, gate
<1>6. ASSUME NEW w \in Writes,
             SubmitWrite(w) \/ TransportWrite(w) \/ TransportRead(w) \/ TransportResult(w)
      PROVE  TypeOK'
  <2>1. write[w] \in WriteContext
    BY DEF TypeOK
  <2>2. write' \in [Writes -> WriteContext]
    <3>1. CASE SubmitWrite(w)
      BY <2>1, <3>1 DEF SubmitWrite, TypeOK, WriteContext, WriteStates
    <3>2. CASE TransportWrite(w)
      <4> DEFINE c == write[w]
                 count == IF c.submitted THEN c.recorded ELSE c.recorded + 1
                 sent == [c EXCEPT !.at = "sent", !.submitted = TRUE,
                                   !.attempts = c.attempts + 1, !.recorded = count]
                 refused == [c EXCEPT !.at = IF c.submitted THEN "ambiguous" ELSE "deferred"]
      <4>1. sent \in WriteContext
        <5>1. c.attempts + 1 \in Nat /\ count \in Nat
          BY <2>1 DEF WriteContext
        <5> HIDE DEF count
        <5> QED
          BY <2>1, <5>1 DEF WriteContext, WriteStates
      <4>2. refused \in WriteContext
        BY <2>1 DEF WriteContext, WriteStates
      <4>3. write' = [write EXCEPT ![w] = IF Permits(c.key) THEN sent ELSE refused]
        BY <3>2 DEF TransportWrite
      <4> QED
        BY <4>1, <4>2, <4>3 DEF TypeOK
    <3>3. CASE TransportRead(w)
      BY <2>1, <3>3 DEF TransportRead, TypeOK, WriteContext, WriteStates
    <3>4. CASE TransportResult(w)
      <4>1. PICK result \in {"acked", "ambiguous", "queued"} :
                write' = [write EXCEPT ![w].at = result]
        BY <3>4 DEF TransportResult
      <4>2. result \in WriteStates
        BY DEF WriteStates
      <4> QED
        BY <2>1, <4>1, <4>2 DEF TypeOK, WriteContext
    <3> QED
      BY <1>6, <3>1, <3>2, <3>3, <3>4
  <2>3. UNCHANGED <<now, gate, fetch>>
    BY <1>6 DEF SubmitWrite, TransportWrite, TransportRead, TransportResult
  <2> QED
    BY <2>2, <2>3 DEF TypeOK, gate, fetch
<1>7. CASE UNCHANGED vars
  BY <1>7 DEF TypeOK, vars
<1> QED
  BY <1>1, <1>2, <1>3, <1>4, <1>5, <1>6, <1>7 DEF Next

\* The strengthened invariant is preserved by every step.
LEMMA InvStep == Inv /\ [Next]_vars => Inv'
<1> SUFFICES ASSUME Inv, [Next]_vars
             PROVE  Inv'
  OBVIOUS
<1>0. TypeOK /\ TypeOK'
  BY TypeStep DEF Inv
<1> USE ConstantsAssumption
<1>1. CASE Tick
  <2>1. UNCHANGED <<gate, fetch, write>>
    BY <1>1 DEF Tick
  <2>2. UnfetchedInv'
    <3>1. now' = now + 1 /\ now \in Nat /\ fetchBegan \in Nat /\ MaxWait \in Nat
      BY <1>0, <1>1 DEF Tick, TypeOK
    <3>2. \A k \in Keys : pendingSince[k] \in Nat
      BY <1>0 DEF TypeOK
    <3> QED
      BY <1>0, <2>1, <3>1, <3>2 DEF Inv, UnfetchedInv, gate, fetch, pending, TypeOK
  <2> QED
    BY <1>0, <2>1, <2>2
       DEF Inv, DeadlineInv, RevisionInv, ReceiptInv, WriteInv, gate, fetch, pending
<1>2. ASSUME NEW p \in [Keys -> Sizes], Observe(p)
      PROVE  Inv'
  <2> DEFINE changed == ChangedKeys(p)
             last == revision + Cardinality(changed)
  <2>1. PICK rev \in Bijection(changed, (revision + 1)..last) :
            entry' = [k \in Keys |-> IF k \in changed THEN ChangedEntry(k, rev[k])
                                                      ELSE entry[k]]
    BY <1>2 DEF Observe
  <2>2. \A k \in changed : rev[k] \in Nat /\ rev[k] > revision /\ rev[k] <= last
    BY <1>0, <2>1, ObserveRevisions
  <2>3. last \in Nat /\ last >= revision
    <3>1. Cardinality(changed) \in Nat
      BY <1>0, ObserveRevisions
    <3> QED
      BY <1>0, <3>1 DEF TypeOK
  <2>4. UNCHANGED <<now, fetching, receipt, fetchBegan, write>> /\ revision' = last
    BY <1>2 DEF Observe
  <2> SUFFICES ASSUME NEW k \in Keys
               PROVE  /\ k \in pending' => pendingSince'[k] = entry'[k].first
                      /\ entry'[k].revision <= revision' /\ receipt'[k] <= revision'
                      /\ receipt'[k] > 0 /\ entry'[k].revision = receipt'[k]
                           => \/ fetchBegan' - entry'[k].changed >= Settle
                              \/ fetchBegan' - entry'[k].first >= MaxWait
                      /\ k \in unfetched' => \/ k \in pending'
                                            \/ now' - pendingSince'[k] >= MaxWait
                      /\ k \in missed' =>
                           (receipt'[k] > 0 /\ entry'[k].revision = receipt'[k]
                              => fetchBegan' - entry'[k].first >= MaxWait)
    BY <1>0, <2>4 DEF Inv, DeadlineInv, RevisionInv, ReceiptInv, WriteInv, UnfetchedInv, TypeOK
  <2>5. receipt[k] \in Nat /\ receipt[k] <= revision /\ revision \in Nat
    BY <1>0 DEF Inv, RevisionInv, TypeOK
  <2>6. entry[k] \in Entry /\ entry[k].revision <= revision
    BY <1>0 DEF Inv, RevisionInv, TypeOK
  <2>7. CASE k \in changed
    <3>1. entry'[k] = ChangedEntry(k, rev[k])
      BY <2>1, <2>7
    <3>2. k \in pending => pendingSince'[k] = entry[k].first
      BY <1>2 DEF Observe, Inv, DeadlineInv
    <3>3. k \notin pending => pendingSince'[k] = now
      BY <1>2, <2>7 DEF Observe
    <3>4. entry'[k].first = (IF k \in pending THEN entry[k].first ELSE now)
          /\ entry'[k].revision = rev[k]
      BY <3>1 DEF ChangedEntry
    <3>5. receipt'[k] = receipt[k]
      BY <2>4
    <3>6. k \in pending' /\ entry'[k].revision # receipt'[k]
      BY <2>2, <2>5, <2>7, <3>4, <3>5 DEF pending
    <3> QED
      BY <2>2, <2>3, <2>4, <2>5, <2>7, <3>2, <3>3, <3>4, <3>5, <3>6
  <2>8. CASE k \notin changed
    <3>1. entry'[k] = entry[k]
      BY <2>1, <2>8
    <3>2. pendingSince'[k] = pendingSince[k]
      BY <1>0, <1>2, <2>8 DEF Observe, TypeOK
    <3>3. (k \in unfetched' => k \in unfetched) /\ (k \in missed' => k \in missed)
      BY <1>2, <2>8 DEF Observe
    <3>4. k \in pending' <=> k \in pending
      BY <3>1 DEF pending
    <3> QED
      BY <2>3, <2>4, <2>5, <2>6, <3>1, <3>2, <3>3, <3>4
         DEF Inv, DeadlineInv, ReceiptInv, UnfetchedInv, Entry
  <2> QED
    BY <2>7, <2>8
<1>3. CASE BeginFetch
  <2>1. \A k \in Keys : receipt'[k] = IF k \in pending /\ Settled(k) THEN entry[k].revision ELSE 0
    BY <1>3 DEF BeginFetch
  <2>2. fetchBegan' = now /\ UNCHANGED <<now, gate, write>>
    BY <1>3 DEF BeginFetch
  <2>3. RevisionInv'
    BY <1>0, <2>1, <2>2 DEF Inv, RevisionInv, gate, TypeOK
  <2>4. ReceiptInv'
    <3> SUFFICES ASSUME NEW k \in Keys, receipt'[k] > 0
                 PROVE  \/ fetchBegan' - entry'[k].changed >= Settle
                        \/ fetchBegan' - entry'[k].first >= MaxWait
      BY DEF ReceiptInv
    <3>1. Settled(k)
      BY <2>1
    <3> QED
      BY <2>2, <3>1 DEF Settled, Expired, gate
  <2>5. UnfetchedInv'
    <3>1. ASSUME NEW k \in missed', receipt'[k] > 0
          PROVE  fetchBegan' - entry'[k].first >= MaxWait
      <4>1. missed' = unfetched \ CoveredNow /\ unfetched \subseteq Keys
        BY <1>0, <1>3 DEF BeginFetch, TypeOK
      <4>2. k \in Keys /\ k \notin CoveredNow
        BY <4>1
      <4>3. k \in pending /\ Settled(k)
        BY <2>1, <3>1, <4>2
      <4>4. now - entry[k].first >= MaxWait
        BY <4>2, <4>3 DEF CoveredNow, Settled, Expired
      <4> QED
        BY <2>2, <4>4 DEF gate
    <3>2. fetchBegan' <= now'
      BY <1>0, <2>2 DEF TypeOK
    <3> QED
      BY <2>2, <3>1, <3>2 DEF Inv, UnfetchedInv, gate, pending
  <2> QED
    BY <1>0, <2>2, <2>3, <2>4, <2>5 DEF Inv, DeadlineInv, WriteInv, gate, pending
<1>4. CASE FinishFetch
  <2>1. UNCHANGED <<revision, write, pendingSince>> /\ receipt' = NoReceipt
    BY <1>4 DEF FinishFetch, EndFetch
  <2>2. \A k \in Keys : entry'[k] = NoEntry \/ entry'[k] = entry[k]
    BY <1>4 DEF FinishFetch
  <2>3. UnfetchedInv'
    <3>1. fetchBegan' = 0 /\ now' = now /\ missed' = {} /\ unfetched' = unfetched \cap missed
      BY <1>4 DEF FinishFetch, EndFetch
    <3>2. ASSUME NEW k \in unfetched'
          PROVE  k \in pending' \/ now' - pendingSince'[k] >= MaxWait
      <4>1. k \in unfetched /\ k \in missed /\ k \in Keys
        BY <1>0, <3>1 DEF TypeOK
      <4>2. CASE Released(k)
        <5>1. fetchBegan - entry[k].first >= MaxWait /\ pendingSince[k] = entry[k].first
          BY <4>1, <4>2 DEF Inv, UnfetchedInv, DeadlineInv, Released
        <5>2. fetchBegan <= now /\ now \in Nat /\ fetchBegan \in Nat /\ pendingSince[k] \in Nat
          BY <1>0, <4>1 DEF Inv, UnfetchedInv, TypeOK
        <5> QED
          BY <2>1, <3>1, <5>1, <5>2
      <4>3. CASE ~ Released(k)
        <5>1. entry'[k] = entry[k]
          BY <1>4, <4>1, <4>3 DEF FinishFetch
        <5>2. k \in pending' <=> k \in pending
          BY <4>1, <5>1 DEF pending
        <5> QED
          BY <2>1, <3>1, <4>1, <5>2 DEF Inv, UnfetchedInv
      <4> QED
        BY <4>2, <4>3
    <3> QED
      BY <1>0, <3>1, <3>2 DEF UnfetchedInv, TypeOK
  <2> QED
    BY <1>0, <2>1, <2>2, <2>3
       DEF Inv, DeadlineInv, RevisionInv, ReceiptInv, WriteInv, pending, NoEntry, NoReceipt, TypeOK
<1>5. CASE DropFetch
  <2>1. UNCHANGED <<gate, write>> /\ receipt' = NoReceipt
    BY <1>5 DEF DropFetch, EndFetch
  <2>2. UnfetchedInv'
    <3>1. fetchBegan' = 0 /\ now' = now /\ missed' = {}
      BY <1>5 DEF DropFetch, EndFetch
    <3> QED
      BY <1>0, <2>1, <3>1 DEF Inv, UnfetchedInv, TypeOK, gate, pending
  <2> QED
    BY <1>0, <2>1, <2>2
       DEF Inv, DeadlineInv, RevisionInv, ReceiptInv, WriteInv, pending, NoReceipt, gate, TypeOK
<1>6. ASSUME NEW w \in Writes,
             SubmitWrite(w) \/ TransportWrite(w) \/ TransportRead(w) \/ TransportResult(w)
      PROVE  Inv'
  <2>1. write[w] \in WriteContext /\ write \in [Writes -> WriteContext]
    BY <1>0 DEF TypeOK
  <2>2. /\ write[w].submitted <=> write[w].attempts > 0
        /\ write[w].at \in {"idle", "deferred"} => write[w].attempts = 0
        /\ write[w].recorded = IF write[w].attempts > 0 THEN 1 ELSE 0
    BY DEF Inv, WriteInv
  <2>3. /\ write'[w].submitted <=> write'[w].attempts > 0
        /\ write'[w].at \in {"idle", "deferred"} => write'[w].attempts = 0
        /\ write'[w].recorded = IF write'[w].attempts > 0 THEN 1 ELSE 0
    <3>1. CASE SubmitWrite(w)
      BY <2>1, <2>2, <3>1 DEF SubmitWrite, WriteContext
    <3>2. CASE TransportWrite(w)
      BY <2>1, <2>2, <3>2 DEF TransportWrite, WriteContext
    <3>3. CASE TransportRead(w)
      BY <2>1, <2>2, <3>3 DEF TransportRead, WriteContext
    <3>4. CASE TransportResult(w)
      BY <2>1, <2>2, <3>4 DEF TransportResult, WriteContext
    <3> QED
      BY <1>6, <3>1, <3>2, <3>3, <3>4
  <2>4. \A v \in Writes \ {w} : write'[v] = write[v]
    BY <1>6, <2>1 DEF SubmitWrite, TransportWrite, TransportRead, TransportResult
  <2>5. UNCHANGED <<now, gate, fetch>>
    BY <1>6 DEF SubmitWrite, TransportWrite, TransportRead, TransportResult
  <2>6. WriteInv'
    BY <2>3, <2>4 DEF Inv, WriteInv
  <2> QED
    BY <1>0, <2>5, <2>6
       DEF Inv, DeadlineInv, RevisionInv, ReceiptInv, UnfetchedInv, gate, fetch, pending
<1>7. CASE UNCHANGED vars
  BY <1>0, <1>7
     DEF vars, Inv, DeadlineInv, RevisionInv, ReceiptInv, WriteInv, UnfetchedInv, pending
<1> QED
  BY <1>1, <1>2, <1>3, <1>4, <1>5, <1>6, <1>7 DEF Next

\* The gate starts in the invariant.
LEMMA InvInit == Init => Inv
<1> SUFFICES ASSUME Init PROVE Inv
  OBVIOUS
<1>0. \A w \in Writes : /\ write[w] \in WriteContext
                         /\ write[w].at = "idle" /\ write[w].submitted = FALSE
                         /\ write[w].recorded = 0 /\ write[w].attempts = 0
  <2>1. PICK key \in [Writes -> Keys] :
            write = [w \in Writes |-> [at |-> "idle", key |-> key[w], submitted |-> FALSE,
                                       recorded |-> 0, attempts |-> 0]]
    BY DEF Init
  <2> QED
    BY <2>1 DEF WriteContext, WriteStates
<1>1. TypeOK
  <2>1. write \in [Writes -> WriteContext]
    BY <1>0 DEF Init
  <2>2. entry \in [Keys -> Entry]
    BY DEF Init, NoEntry, Entry
  <2>3. now \in 0..MaxTime /\ revision \in Nat /\ fetchBegan \in Nat
    BY ConstantsAssumption DEF Init
  <2>4. positions \in [Keys -> Sizes] /\ receipt \in [Keys -> Nat] /\ pendingSince \in [Keys -> Nat]
    BY ConstantsAssumption DEF Init, NoReceipt
  <2>5. observed \in BOOLEAN /\ fetching \in BOOLEAN
    BY DEF Init
  <2> QED
    BY <2>1, <2>2, <2>3, <2>4, <2>5 DEF TypeOK, Init
<1>2. DeadlineInv /\ RevisionInv /\ ReceiptInv
  BY DEF Init, DeadlineInv, RevisionInv, ReceiptInv, pending, NoEntry, NoReceipt
<1>3. WriteInv
  BY <1>0 DEF WriteInv
<1>4. UnfetchedInv
  BY DEF Init, UnfetchedInv
<1> QED
  BY <1>1, <1>2, <1>3, <1>4 DEF Inv

\* The inductive invariant behind every theorem below: what the gate, the running fetch
\* (begin_fetch's receipt) and the writes know of one another.
THEOREM Invariance == Spec => []Inv
<1> QED
  BY InvInit, InvStep, PTL DEF Spec

-----------------------------------------------------------------------------

\* Type correctness of the gate, its fetch and its writes.
THEOREM TypeCorrect == Spec => []TypeOK
<1>1. Inv => TypeOK
  BY DEF Inv
<1> QED
  BY Invariance, <1>1, PTL

\* However often positions change and fetches fail, a key blocks writes for less
\* than MAX_WAIT_SECONDS after it became pending (position_fill_sync.observe keeps
\* the first observation time).
THEOREM DeadlineNeverRenewed == Spec => []BlockedIsBounded
<1>1. Inv => BlockedIsBounded
  <2> SUFFICES ASSUME Inv, NEW k \in Keys, Blocked(k)
               PROVE  now - pendingSince[k] < MaxWait
    BY DEF BlockedIsBounded
  <2>1. now \in Nat /\ entry[k].first \in Nat /\ MaxWait \in Nat
    BY ConstantsAssumption DEF Inv, TypeOK, Entry
  <2>2. pendingSince[k] = entry[k].first /\ ~ (now - entry[k].first >= MaxWait)
    BY DEF Inv, DeadlineInv, Blocked, Expired
  <2> QED
    BY <2>1, <2>2
<1> QED
  BY Invariance, <1>1, PTL

\* A write reported as deferred never reached the exchange, and provenance is
\* recorded once for each write that did (check_transport_admission).
THEOREM ProvenanceIsExact == Spec => []SubmissionProvenance
<1>1. Inv => SubmissionProvenance
  BY DEF Inv, WriteInv, SubmissionProvenance
<1> QED
  BY Invariance, <1>1, PTL

\* A fill fetch releases a key only if the key's last change had settled, or its
\* deadline had passed, when the fetch began (finish_fetch compares revisions).
THEOREM OnlySettledKeysReleased == Spec => ReleaseIsSettled
<1>1. Inv /\ [Next]_vars
        => [\A k \in Keys :
              (k \in pending /\ k \notin pending')
                 => \/ fetchBegan - entry[k].changed >= Settle
                    \/ fetchBegan - entry[k].first >= MaxWait]_vars
  <2> SUFFICES ASSUME Inv, Next, NEW k \in Keys, k \in pending, k \notin pending'
               PROVE  \/ fetchBegan - entry[k].changed >= Settle
                      \/ fetchBegan - entry[k].first >= MaxWait
    OBVIOUS
  <2>1. entry'[k].revision # entry[k].revision /\ ~ (entry'[k].revision > 0)
    BY DEF pending
  <2>2. CASE FinishFetch
    <3>1. Released(k)
      BY <2>1, <2>2 DEF FinishFetch
    <3> QED
      BY <3>1 DEF Inv, ReceiptInv, Released
  <2>3. ASSUME NEW p \in [Keys -> Sizes], Observe(p)
        PROVE  FALSE
    <3> DEFINE changed == ChangedKeys(p)
               last == revision + Cardinality(changed)
    <3>1. PICK rev \in Bijection(changed, (revision + 1)..last) :
              entry' = [j \in Keys |-> IF j \in changed THEN ChangedEntry(j, rev[j])
                                                        ELSE entry[j]]
      BY <2>3 DEF Observe
    <3>2. TypeOK
      BY DEF Inv
    <3>3. k \in changed => rev[k] > revision /\ rev[k] \in Nat
      BY <3>1, <3>2, ObserveRevisions
    <3>4. k \in changed => entry'[k].revision = rev[k]
      BY <3>1 DEF ChangedEntry
    <3>5. k \notin changed => entry'[k] = entry[k]
      BY <3>1
    <3>6. revision \in Nat
      BY <3>2 DEF TypeOK
    <3> QED
      BY <2>1, <3>3, <3>4, <3>5, <3>6
  <2>4. CASE Tick
    BY <2>1, <2>4 DEF Tick, gate
  <2>5. CASE BeginFetch \/ DropFetch
    BY <2>1, <2>5 DEF BeginFetch, DropFetch, gate
  <2>6. ASSUME NEW w \in Writes,
               SubmitWrite(w) \/ TransportWrite(w) \/ TransportRead(w) \/ TransportResult(w)
        PROVE  FALSE
    BY <2>1, <2>6 DEF SubmitWrite, TransportWrite, TransportRead, TransportResult, gate
  <2> QED
    BY <2>2, <2>3, <2>4, <2>5, <2>6 DEF Next
<1> QED
  BY Invariance, <1>1, PTL DEF Spec, ReleaseIsSettled

\* A write gets past the gate only on positions whose last change has been fetched with
\* its fills, or that have waited MAX_WAIT_SECONDS: whatever is observed while fetches
\* run and writes wait in the client (begin_fetch, finish_fetch and
\* check_transport_admission together).
THEOREM NothingSentUnfetched == Spec => SentOnFetchedFills
<1>1. Inv /\ [Next]_vars
        => [\A w \in Writes :
              write'[w].attempts # write[w].attempts
                 => \A k \in Scope(write[w].key) \cap unfetched :
                       now - pendingSince[k] >= MaxWait]_vars
  <2> SUFFICES ASSUME Inv, Next, NEW w \in Writes, write'[w].attempts # write[w].attempts,
                      NEW k \in Scope(write[w].key) \cap unfetched
               PROVE  now - pendingSince[k] >= MaxWait
    OBVIOUS
  <2>1. write \in [Writes -> WriteContext]
    BY DEF Inv, TypeOK
  <2>2. ASSUME NEW v \in Writes, SubmitWrite(v) \/ TransportRead(v) \/ TransportResult(v)
        PROVE  FALSE
    <3>1. write'[w].attempts = write[w].attempts
      BY <2>1, <2>2 DEF SubmitWrite, TransportRead, TransportResult, WriteContext
    <3> QED
      BY <3>1
  <2>3. ASSUME NEW v \in Writes, TransportWrite(v)
        PROVE  Permits(write[w].key)
    <3>1. v = w
      BY <2>1, <2>3 DEF TransportWrite
    <3> QED
      BY <2>1, <2>3, <3>1 DEF TransportWrite, WriteContext
  <2>4. ASSUME Tick \/ BeginFetch \/ FinishFetch \/ DropFetch
        PROVE  FALSE
    BY <2>4 DEF Tick, BeginFetch, FinishFetch, DropFetch
  <2>5. ASSUME NEW p \in [Keys -> Sizes], Observe(p)
        PROVE  FALSE
    BY <2>5 DEF Observe
  <2>6. Permits(write[w].key)
    BY <2>2, <2>3, <2>4, <2>5 DEF Next
  <2>7. k \in pending => Expired(k)
    BY <2>6 DEF Permits, PermitKeys, Blocked
  <2>8. k \in pending \/ now - pendingSince[k] >= MaxWait
    BY DEF Inv, UnfetchedInv
  <2>9. k \in pending => pendingSince[k] = entry[k].first
    BY DEF Inv, DeadlineInv, pending
  <2> QED
    BY <2>7, <2>8, <2>9 DEF Expired
<1> QED
  BY Invariance, <1>1, PTL DEF Spec, SentOnFetchedFills

=============================================================================
