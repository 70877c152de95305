-------------------------- MODULE PositionFillSync --------------------------
(***************************************************************************)
(* The settling gate between position observations, fill fetches and       *)
(* connector writes (src/src/live/position_fill_sync.py).                  *)
(*                                                                         *)
(* A position snapshot that changes the size or the price of a key         *)
(* <<symbol, position_side>> makes the key pending.  While a key is        *)
(* pending and its deadline has not passed, no write of its scope may      *)
(* reach the exchange: the fills that explain the change may not have been *)
(* fetched yet.  A fill fetch releases the keys whose capture it began     *)
(* after they settled, unless they changed again while it was running.     *)
(*                                                                         *)
(* Three asyncio activities interleave at every await: position snapshots, *)
(* the single-flight fill refresh, and writes that wait in the connector's *)
(* rate limiter between their admission and their transport.               *)
(***************************************************************************)
EXTENDS Integers, FiniteSets, Functions

CONSTANTS
    Symbols,       \* traded symbols
    Psides,        \* position sides
    Sizes,         \* values of a (size, price) pair of a position
    Flat,          \* the pair (0.0, 0.0): what a missing key reads as
    Settle,        \* SETTLE_SECONDS
    MaxWait,       \* MAX_WAIT_SECONDS
    HslMode,       \* hsl_signal_mode of the revised engine; "coin" also stands for legacy
    HslPsides,     \* position sides with hsl enabled (for "unified": the one account policy)
    Writes,        \* connector writes (one WriteContext each)
    MaxTime,       \* bound: ticks of the monotonic clock
    MaxRevision,   \* bound: revisions handed out
    MaxAttempts    \* bound: transport attempts of one write (ccxt retries)

Keys == Symbols \X Psides

ASSUME ConstantsAssumption ==
    /\ IsFiniteSet(Keys)
    /\ Flat \in Sizes
    /\ Settle \in Nat /\ MaxWait \in Nat
    /\ HslMode \in {"coin", "pside", "unified"}
    /\ MaxTime \in Nat /\ MaxRevision \in Nat /\ MaxAttempts \in Nat

VARIABLES
    now,           \* PositionFillSync.clock
    observed,      \* positions is not None
    positions,     \* the last observed positions
    entry,         \* pending: key -> Pending; revision 0 stands for "not in the dict"
    revision,      \* the revision counter
    fetching,      \* a refresh_evidence operation is awaiting the exchange
    receipt,       \* its receipt: key -> revision; 0 stands for "not in the receipt"
    write,         \* write -> the WriteContext and where its coroutine is
    fetchBegan,    \* history: when the running fetch began
    pendingSince,  \* history: when the key last entered pending
    unfetched,     \* history: keys whose last change no completed fetch covers yet
    missed         \* history: those of them the running fetch will not cover

vars == <<now, observed, positions, entry, revision, fetching, receipt, write,
          fetchBegan, pendingSince, unfetched, missed>>

gate == <<observed, positions, entry, revision, pendingSince, unfetched>>
fetch == <<fetching, receipt, fetchBegan, missed>>

NoEntry == [first |-> 0, changed |-> 0, revision |-> 0]
NoReceipt == [k \in Keys |-> 0]

Entry == [first : Nat, changed : Nat, revision : Nat]

(***************************************************************************)
(* "idle": not handed to the connector; "queued": admitted, waiting in the *)
(* rate limiter; "sent": an attempt is at the exchange; "acked",           *)
(* "ambiguous", "deferred": returned to the executor.                      *)
(***************************************************************************)
WriteStates == {"idle", "queued", "sent", "acked", "ambiguous", "deferred"}
WriteContext == [at : WriteStates, key : Keys, submitted : BOOLEAN,
                 recorded : Nat, attempts : Nat]

TypeOK ==
    /\ now \in 0..MaxTime
    /\ observed \in BOOLEAN
    /\ positions \in [Keys -> Sizes]
    /\ entry \in [Keys -> Entry]
    /\ revision \in Nat
    /\ fetching \in BOOLEAN
    /\ receipt \in [Keys -> Nat]
    /\ write \in [Writes -> WriteContext]
    /\ fetchBegan \in Nat
    /\ pendingSince \in [Keys -> Nat]
    /\ unfetched \subseteq Keys
    /\ missed \subseteq Keys

-----------------------------------------------------------------------------

pending == {k \in Keys : entry[k].revision > 0}

Expired(k) == k \in pending /\ now - entry[k].first >= MaxWait

Blocked(k) == k \in pending /\ ~ Expired(k)

\* begin_fetch and fetch_ready share this condition on a pending key.
Settled(k) == Expired(k) \/ now - entry[k].changed >= Settle

FetchReady == pending = {} \/ \E k \in pending : Settled(k)

\* The keys whose positions decide a write on k: its own, and those of an aggregate
\* HSL scope that contains it.
Scope(k) ==
    {k} \cup {j \in Keys : \/ HslMode = "unified" /\ HslPsides # {}
                           \/ HslMode = "pside" /\ k[2] \in HslPsides /\ j[2] = k[2]}

\* Those a write on k must wait for: its own, and the pending ones of its scope.
PermitKeys(k) == {k} \cup (Scope(k) \cap pending)

Permits(k) == \A j \in PermitKeys(k) : ~ Blocked(j)

-----------------------------------------------------------------------------

Init ==
    /\ now = 0
    /\ observed = FALSE
    /\ positions = [k \in Keys |-> Flat]
    /\ entry = [k \in Keys |-> NoEntry]
    /\ revision = 0
    /\ fetching = FALSE
    /\ receipt = NoReceipt
    /\ \E key \in [Writes -> Keys] :
          write = [w \in Writes |-> [at |-> "idle", key |-> key[w], submitted |-> FALSE,
                                     recorded |-> 0, attempts |-> 0]]
    /\ fetchBegan = 0
    /\ pendingSince = [k \in Keys |-> 0]
    /\ unfetched = {}
    /\ missed = {}

Tick ==
    /\ now < MaxTime
    /\ now' = now + 1
    /\ UNCHANGED <<gate, fetch, write>>

\* Mutant: every change restarts the deadline.
ChangedEntry_renewed(k, rev) == [first |-> now, changed |-> now, revision |-> rev]

\* Mutant: a new entry is backdated by the settling time.
ChangedEntry_backdated(k, rev) ==
    [first |-> IF k \in pending THEN entry[k].first ELSE now - Settle,
     changed |-> now,
     revision |-> rev]

\* The entry of a key whose position differs from the last observation.  The
\* first observation time is kept while the key stays pending.
ChangedEntry(k, rev) ==
    [first |-> IF k \in pending THEN entry[k].first ELSE now,
     changed |-> now,
     revision |-> rev]

ChangedKeys(p) == {k \in Keys : observed /\ positions[k] # p[k]}

\* The loop over the keys hands out consecutive revisions in the order of a
\* Python set, which is any order.
Observe(p) ==
    LET changed == ChangedKeys(p)
        last == revision + Cardinality(changed)
    IN  /\ last <= MaxRevision
        /\ \E rev \in Bijection(changed, (revision + 1)..last) :
              entry' = [k \in Keys |-> IF k \in changed THEN ChangedEntry(k, rev[k])
                                                        ELSE entry[k]]
        /\ revision' = last
        /\ positions' = p
        /\ observed' = TRUE
        /\ pendingSince' = [k \in Keys |-> IF k \in changed \ pending THEN now
                                                                      ELSE pendingSince[k]]
        /\ unfetched' = unfetched \cup changed
        /\ missed' = IF fetching THEN missed \cup changed ELSE missed
        /\ UNCHANGED <<now, fetching, receipt, fetchBegan, write>>

\* The keys whose change a fetch that begins now will show in the fills.
CoveredNow == {k \in pending : now - entry[k].changed >= Settle}

\* Mutant: the receipt describes every pending key, settled or not.
BeginFetch_everyKey ==
    /\ ~ fetching
    /\ FetchReady
    /\ fetching' = TRUE
    /\ receipt' = [k \in Keys |-> IF k \in pending THEN entry[k].revision ELSE 0]
    /\ fetchBegan' = now
    /\ missed' = unfetched \ CoveredNow
    /\ UNCHANGED <<now, gate, write>>

\* refresh_evidence: Settling is raised unless some key is ready; otherwise the
\* receipt is taken and the coroutine awaits the exchange.
BeginFetch ==
    /\ ~ fetching
    /\ FetchReady
    /\ fetching' = TRUE
    /\ receipt' = [k \in Keys |-> IF k \in pending /\ Settled(k) THEN entry[k].revision
                                                                 ELSE 0]
    /\ fetchBegan' = now
    /\ missed' = unfetched \ CoveredNow
    /\ UNCHANGED <<now, gate, write>>

EndFetch ==
    /\ fetching' = FALSE
    /\ receipt' = NoReceipt
    /\ fetchBegan' = 0
    /\ missed' = {}

\* Mutant: the revision in the receipt is not compared.
Released_anyRevision(k) == receipt[k] > 0 /\ k \in pending

\* finish_fetch deletes exactly the entries the receipt still describes.
Released(k) == receipt[k] > 0 /\ k \in pending /\ entry[k].revision = receipt[k]

\* The operation returned and it confirms the tail: finish_fetch(receipt).
FinishFetch ==
    /\ fetching
    /\ entry' = [k \in Keys |-> IF Released(k) THEN NoEntry ELSE entry[k]]
    /\ unfetched' = unfetched \cap missed
    /\ EndFetch
    /\ UNCHANGED <<now, observed, positions, revision, write, pendingSince>>

\* The operation raised, returned False (FetchSkipped) or does not confirm the
\* tail: the receipt is dropped.
DropFetch ==
    /\ fetching
    /\ EndFetch
    /\ UNCHANGED <<now, gate, write>>

-----------------------------------------------------------------------------

\* connector_write: the gate is asked before the connector context is entered.
SubmitWrite(w) ==
    /\ write[w].at = "idle"
    /\ write' = [write EXCEPT ![w].at = IF Permits(write[w].key) THEN "queued"
                                                                 ELSE "deferred"]
    /\ UNCHANGED <<now, gate, fetch>>

\* Mutant: a refused retry is reported like a write that was never sent.
TransportWrite_retryDeferred(w) ==
    LET c == write[w]
    IN  /\ c.at = "queued"
        /\ c.attempts < MaxAttempts
        /\ write' = [write EXCEPT ![w] =
              IF Permits(c.key)
              THEN [c EXCEPT !.at = "sent", !.submitted = TRUE,
                             !.attempts = c.attempts + 1,
                             !.recorded = IF c.submitted THEN c.recorded ELSE c.recorded + 1]
              ELSE [c EXCEPT !.at = "deferred"]]
        /\ UNCHANGED <<now, gate, fetch>>

\* check_transport_admission(is_write = TRUE): the first attempt that passes marks
\* the context submitted and runs the queued provenance callbacks once.
TransportWrite(w) ==
    LET c == write[w]
    IN  /\ c.at = "queued"
        /\ c.attempts < MaxAttempts
        /\ write' = [write EXCEPT ![w] =
              IF Permits(c.key)
              THEN [c EXCEPT !.at = "sent", !.submitted = TRUE,
                             !.attempts = c.attempts + 1,
                             !.recorded = IF c.submitted THEN c.recorded ELSE c.recorded + 1]
              ELSE [c EXCEPT !.at = IF c.submitted THEN "ambiguous" ELSE "deferred"]]
        /\ UNCHANGED <<now, gate, fetch>>

\* check_transport_admission(is_write = FALSE): a GET issued inside the write's
\* context is admitted or deferred like the write, and submits nothing.
TransportRead(w) ==
    LET c == write[w]
    IN  /\ c.at = "queued"
        /\ write' = [write EXCEPT ![w].at =
              IF Permits(c.key) THEN "queued"
              ELSE IF c.submitted THEN "ambiguous" ELSE "deferred"]
        /\ UNCHANGED <<now, gate, fetch>>

\* The attempt is answered, fails for good, or is queued again by the client's retry.
TransportResult(w) ==
    /\ write[w].at = "sent"
    /\ \E result \in {"acked", "ambiguous", "queued"} :
          /\ result = "queued" => write[w].attempts < MaxAttempts
          /\ write' = [write EXCEPT ![w].at = result]
    /\ UNCHANGED <<now, gate, fetch>>

Next ==
    \/ Tick
    \/ \E p \in [Keys -> Sizes] : Observe(p)
    \/ BeginFetch
    \/ FinishFetch
    \/ DropFetch
    \/ \E w \in Writes : SubmitWrite(w)
    \/ \E w \in Writes : TransportWrite(w)
    \/ \E w \in Writes : TransportRead(w)
    \/ \E w \in Writes : TransportResult(w)

Spec == Init /\ [][Next]_vars

-----------------------------------------------------------------------------

\* A key that stays pending is blocked for less than MAX_WAIT_SECONDS counted from
\* the moment it became pending, however often its position changes meanwhile and
\* however many fetches fail: "A failed/missing fill can never renew the deadline".
BlockedIsBounded ==
    \A k \in Keys : Blocked(k) => now - pendingSince[k] < MaxWait

\* A key is released only by a fetch that began after the key's last change had
\* settled, or after its deadline: a change observed while the fetch was awaiting
\* the exchange keeps the key pending.
ReleaseIsSettled ==
    [][\A k \in Keys :
          (k \in pending /\ k \notin pending')
             => \/ fetchBegan - entry[k].changed >= Settle
                \/ fetchBegan - entry[k].first >= MaxWait]_vars

\* An attempt enters the transport only if the fills behind the last change of every
\* position in the write's scope have been fetched (by a completed fetch that began
\* once the change had settled), or if that key has waited MAX_WAIT_SECONDS: neither a
\* fetch that was running when the position changed, nor a write admitted before the
\* change and queued since, gets past the gate.
SentOnFetchedFills ==
    [][\A w \in Writes :
          write'[w].attempts # write[w].attempts
             => \A k \in Scope(write[w].key) \cap unfetched :
                   now - pendingSince[k] >= MaxWait]_vars

\* A write the executor hears of as "deferred" (never sent) has no attempt at the
\* exchange, and provenance was recorded exactly once for every write that has one.
SubmissionProvenance ==
    \A w \in Writes :
        /\ write[w].at = "deferred" => write[w].attempts = 0
        /\ write[w].recorded = IF write[w].attempts > 0 THEN 1 ELSE 0

=============================================================================
