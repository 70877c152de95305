----------------------------- MODULE FillHistory -----------------------------
(***************************************************************************)
(* The cached history of the account's fills and what it vouches for.      *)
(*                                                                         *)
(* FillEventsManager keeps the fills in memory and in one file per day;    *)
(* metadata beside the files says since when the history is proved         *)
(* (covered_start_ms, history_scope), which ranges are not (known_gaps)    *)
(* and when the tail was last read (last_refresh_ms).  An incremental      *)
(* refresh asks only for the tail, so a fill the cache misses behind it is *)
(* never asked for again while the metadata vouches for it.                *)
(*                                                                         *)
(* The exchange is external.  A fill is its timestamp; one may be missing  *)
(* from the answers for up to Lag ticks.  Refreshes are single flight      *)
(* (_pnls_refresh_lock); the clock, new fills, failures of the fetch and   *)
(* of the disk, and a crash interleave with their steps.                   *)
(*                                                                         *)
(* The cache can vouch for a fill it lacks (VouchedIsHeld fails).  The     *)
(* history variable exposed says how that comes about, and NothingSkipped  *)
(* that it comes about in no other way.                                    *)
(***************************************************************************)
EXTENDS Integers, FiniteSets, FiniteSetsExt

CONSTANTS
    MaxTime, MaxFills, MaxDisturbances, \* bounds of the instance
    Starts,            \* starts a consumer may require; 0 is all history (None)
    DayLength,         \* ticks a day file holds
    Overlap,           \* fills an incremental refresh reads again (20)
    RecentOverlap,     \* ticks it reads again (fills_recent_overlap_minutes)
    Lag,               \* ticks the exchange may hold back a fill
    Hyperliquid,       \* the exchange is Hyperliquid
    MaxSave            \* ticks from an answer to the metadata write

ASSUME HistoryAssumption ==
    /\ MaxTime \in Nat \ {0} /\ MaxFills \in Nat /\ DayLength \in Nat \ {0}
    /\ Overlap \in Nat \ {0} /\ RecentOverlap \in Nat /\ Lag \in Nat
    /\ MaxSave \in Nat /\ MaxDisturbances \in Nat /\ Hyperliquid \in BOOLEAN
    /\ Starts \subseteq 0..MaxTime

\* What RecentOverlap is for: fills the exchange holds back, and a clock read MaxSave
\* ticks after the answer.
ASSUME OverlapAssumption ==
    Lag + MaxSave <= RecentOverlap + 1 /\ MaxSave <= RecentOverlap

VARIABLES
    now,
    ledger,   \* exchange: the fills of the account
    need,     \* the start the enabled consumers require
    events,   \* FillEventsManager._events
    files,    \* the day files
    meta,     \* FillEventCache._metadata
    metaFile, \* metadata.json
    job,      \* the refresh in flight
    exposed,  \* history: fills the manager lost track of, and how (see below)
    left      \* environment: failures, crashes and new requirements still to come

vars == <<now, ledger, need, events, files, meta, metaFile, job, exposed, left>>

Times == 1..MaxTime

Open == MaxTime + 2   \* end_ms = None

Metadata == [covered : 0..MaxTime,   \* covered_start_ms, 0 is unproved
             scope : {"unknown", "window", "all"},
             gaps : SUBSET Times,    \* the ticks inside known_gaps
             last : 0..MaxTime,      \* last_refresh_ms
             rows : BOOLEAN]         \* oldest_event_ts or newest_event_ts is set

NoMetadata == [covered |-> 0, scope |-> "unknown", gaps |-> {}, last |-> 0, rows |-> FALSE]

\* A refresh: what it is for, the range asked for, the fills answered, the days still to
\* be written and the time of the answer.
Jobs == [task : {"none", "repair", "gap", "tail", "latest", "targeted", "window", "full"},
         step : {"fetch", "save", "commit", "cover"},
         from : 0..MaxTime, until : 1..Open,
         got : SUBSET Times, days : SUBSET (0..MaxTime), at : 0..MaxTime]

Idle == [task |-> "none", step |-> "fetch", from |-> 0, until |-> Open, got |-> {},
         days |-> {}, at |-> 0]

TypeOK ==
    /\ now \in Times
    /\ ledger \subseteq Times
    /\ need \in Starts
    /\ events \subseteq ledger /\ files \subseteq ledger
    /\ meta \in Metadata /\ metaFile \in Metadata
    /\ job \in Jobs /\ job.got \subseteq ledger
    /\ exposed \subseteq ledger
    /\ left \in 0..MaxDisturbances

Init ==
    /\ now = 1
    /\ ledger = {}
    /\ need \in Starts
    /\ events = {} /\ files = {}
    /\ meta = NoMetadata /\ metaFile = NoMetadata
    /\ job = Idle
    /\ exposed = {}
    /\ left = MaxDisturbances

-----------------------------------------------------------------------------
(* What the cache claims, and where an incremental refresh starts.          *)

\* _blocking_known_gaps
Blocking(m, start) == {t \in m.gaps : t >= start}

\* get_coverage_status
Ready(m, evs, start) ==
    /\ Blocking(m, start) = {}
    /\ evs = {} => ~ m.rows
    /\ m.scope = "all" \/ (start > 0 /\ m.covered > 0 /\ m.covered <= start)

\* The Overlap-th last event, or the oldest one; 0 when there is none.
Anchor(evs) ==
    IF evs = {} THEN 0
    ELSE Min({f \in evs : Cardinality({g \in evs : g >= f}) <= Overlap})

\* Mutant: the tail is read from the last refresh on, without an overlap.
LatestStart_noOverlap(m, evs) ==
    IF m.last = 0 THEN Anchor(evs)
    ELSE IF Hyperliquid /\ evs # {} THEN Min({Anchor(evs), m.last})
    ELSE Max({Anchor(evs), m.last})

\* refresh_latest with last_refresh_overlap_ms: the later of the two starts, for
\* Hyperliquid the earlier one.
LatestStart(m, evs) ==
    LET recent == Max({m.last - RecentOverlap, 0})
    IN  IF m.last = 0 THEN Anchor(evs)
        ELSE IF Hyperliquid /\ evs # {} THEN Min({Anchor(evs), recent})
        ELSE Max({Anchor(evs), recent})

-----------------------------------------------------------------------------
(* FillEventsManager.refresh.                                               *)

Disturbed == left > 0 /\ left' = left - 1

Ask(task, from, until) ==
    job' = [Idle EXCEPT !.task = task, !.from = from, !.until = until]

\* The lowest run of unproved ticks, which _merge_intervals puts first.
AskGap(m) ==
    LET first == Min(Blocking(m, need))
        end == Min({t \in first..MaxTime : t + 1 \notin m.gaps}) + 1
    IN  Ask("gap", first, end)

\* refresh_for_lookback once no range is left to retry.
AskRest(m, evs) ==
    IF Ready(m, evs, need) THEN job' = Idle ELSE Ask("window", need, Open)

\* The incremental refresh, from the tail or from since_ms: a trailing recovery's start,
\* a flatten confirmation's or the start of the revised engine's history window.
AskTail(m, evs) ==
    \/ Ask("latest", LatestStart(m, evs), Open)
    \/ \E since \in 0..now : Ask("targeted", since, Open)

DayOf(f) == f \div DayLength

\* What a refresh does not ask for and the cache does not have: the targeted ones begin
\* wherever they need to, and the tail read of refresh_for_lookback heeds the number of
\* fills even for Hyperliquid.  Each moves last_refresh_ms.
PassedOver ==
    IF job.task = "targeted" \/ (Hyperliquid /\ job.task = "tail")
    THEN {f \in ledger \ events : f < job.from} ELSE {}

\* Where the next start follows the newest fills, the missing ones among S are not asked
\* for again once newer ones are held, in memory or on disk.
Outrun(S) == IF Hyperliquid THEN {} ELSE S

\* Fills the exchange shows after newer ones.
Stranded(late, got) == Outrun({f \in late : \E g \in files \cup got : g > f})

\* The answer, without some of the fills of the last Lag ticks.
FetchAnswered ==
    /\ job.task # "none" /\ job.step = "fetch"
    /\ \E late \in SUBSET {f \in ledger \ events : f > now - Lag} :
        LET got == {f \in ledger \ late : f >= job.from /\ f <= job.until}
        IN  /\ job' = [job EXCEPT !.got = got, !.days = {DayOf(f) : f \in got}, !.at = now,
                                  !.step = IF got = {} THEN "commit" ELSE "save"]
            /\ exposed' = exposed \cup PassedOver \cup Stranded(late, got)
    /\ UNCHANGED <<now, ledger, need, events, files, meta, metaFile, left>>

\* Mutant: the end of the range counts as unproved.
WithGap_inclusive(m, from, until) == [m EXCEPT !.gaps = @ \cup (from..until)]

\* add_known_gap
WithGap(m, from, until) == [m EXCEPT !.gaps = @ \cup (from..(until - 1))]

\* The fetch raises.  A failed range with an end is an unproved one, unless only PnL was
\* asked for (degraded_pnl_aux_range), and that may not reach the disk either.
FetchFails ==
    /\ Disturbed
    /\ job.task # "none" /\ job.step = "fetch"
    /\ \/ /\ job.until # Open
          /\ meta' = WithGap(meta, job.from, job.until)
          /\ metaFile' \in {metaFile, meta'}
       \/ /\ job.until = Open \/ job.task = "repair"
          /\ UNCHANGED <<meta, metaFile>>
    /\ job' = Idle
    /\ UNCHANGED <<now, ledger, need, events, files, exposed>>

\* Mutant: a day file holds the fetched fills only.
DayFile_fetchedOnly(d) == {f \in job.got : DayOf(f) = d}

\* _events_for_days of the merged fills
DayFile(d) == {f \in events \cup job.got : DayOf(f) = d}

\* What an interrupted refresh left in a day file, and its next rewrite loses.
Lost(d) == Outrun({f \in files : DayOf(f) = d} \ DayFile(d))

\* save_days, one atomic replacement after the other.
SaveDay(d) ==
    /\ job.step = "save"
    /\ d \in job.days
    /\ files' = {f \in files : DayOf(f) # d} \cup DayFile(d)
    /\ job' = [job EXCEPT !.days = @ \ {d},
                          !.step = IF job.days = {d} THEN "commit" ELSE "save"]
    /\ exposed' = exposed \cup Lost(d)
    /\ UNCHANGED <<now, ledger, need, events, meta, metaFile, left>>

\* What an interrupted refresh fetched and did not write, while newer fills of it may be
\* in other files.
Unwritten == IF job.step = "save" THEN Outrun(job.got \ files) ELSE {}

\* The disk is full, or the refresh is cancelled between two files.
SaveFails ==
    /\ Disturbed
    /\ job.step = "save"
    /\ job' = Idle
    /\ exposed' = exposed \cup Unwritten
    /\ UNCHANGED <<now, ledger, need, events, files, meta, metaFile>>

\* Mutant: a successful retry leaves the gap on record.
Refreshed_gapKept(m, evs) ==
    [m EXCEPT !.rows = evs # {} \/ (job.until # Open /\ m.rows),
              !.last = IF job.until = Open THEN now ELSE @]

\* update_metadata_from_events, mark_refreshed and clear_gap.  Only a refresh without
\* an end moves last_refresh_ms, and only such a one resets the bounds of an empty cache.
Refreshed(m, evs) ==
    [m EXCEPT !.rows = evs # {} \/ (job.until # Open /\ m.rows),
              !.last = IF job.until = Open THEN now ELSE @,
              !.gaps = IF job.until = Open THEN @ ELSE @ \ (job.from..(job.until - 1))]

\* The rest of the operation a refresh belongs to: refresh_for_lookback retries the next
\* range, then reads the tail, then, if need be, the whole window; a repair is followed
\* by the incremental refresh.
Continue(m, evs) ==
    CASE job.task = "gap" ->
            IF Blocking(m, need) # {} THEN AskGap(m) ELSE Ask("tail", Anchor(evs), Open)
      [] job.task = "tail" -> AskRest(m, evs)
      [] job.task = "repair" -> AskTail(m, evs)
      [] job.task \in {"window", "full"} -> job' = [job EXCEPT !.step = "cover"]
      [] OTHER -> job' = Idle

\* set_history_scope("window") at the end of refresh_for_lookback.
Scoped(m, evs) ==
    IF job.task = "tail" /\ Ready(m, evs, need) THEN [m EXCEPT !.scope = "window"] ELSE m

\* The merged fills become the manager's, then the metadata is written.
Commit ==
    /\ job.step = "commit"
    /\ events' = events \cup job.got
    /\ LET m == Refreshed(meta, events')
       IN  \/ /\ meta' = Scoped(m, events')
              /\ metaFile' = meta'
              /\ Continue(m, events')
              /\ UNCHANGED left
           \/ /\ Disturbed           \* the disk is full
              /\ meta' = m
              /\ UNCHANGED metaFile
              /\ job' = Idle
    /\ exposed' = exposed \ events'
    /\ UNCHANGED <<now, ledger, need, files>>

\* mark_covered_start and set_history_scope once the whole window was read.
Cover ==
    /\ job.step = "cover"
    /\ meta' = IF job.task = "full"
               THEN [meta EXCEPT !.scope = "all"]
               ELSE [meta EXCEPT !.covered = IF @ = 0 \/ job.from < @ THEN job.from ELSE @,
                                 !.last = now, !.scope = "window"]
    /\ \/ metaFile' = meta' /\ UNCHANGED left
       \/ UNCHANGED metaFile /\ Disturbed
    /\ job' = Idle
    /\ UNCHANGED <<now, ledger, need, events, files, exposed>>

-----------------------------------------------------------------------------
(* _update_pnls_locked: which refresh the state of the cache calls for.     *)

\* The required history is proved: refetch around a fill with degraded PnL first, or
\* read the tail.
UpdateProved ==
    /\ job = Idle
    /\ Ready(meta, events, need)
    /\ \/ AskTail(meta, events)
       \/ \E f \in events :
            /\ f >= need
            /\ Ask("repair", Max({f - 1, need, 1}), Min({f + 1, now + 1}))
    /\ UNCHANGED <<now, ledger, need, events, files, meta, metaFile, exposed, left>>

\* It is not: read all history, or prove the window.
UpdateUnproved ==
    /\ job = Idle
    /\ ~ Ready(meta, events, need)
    /\ \/ need = 0 /\ Ask("full", 0, Open)
       \/ need > 0 /\ Blocking(meta, need) # {} /\ AskGap(meta)
       \/ need > 0 /\ Blocking(meta, need) = {} /\ Ask("window", need, Open)
    /\ UNCHANGED <<now, ledger, need, events, files, meta, metaFile, exposed, left>>

\* init_pnls after a crash: the files are loaded and the row bounds follow them.  Files
\* without metadata get it from the doctor, with nothing proved.
Restart ==
    /\ Disturbed
    /\ events' = files
    /\ meta' = [metaFile EXCEPT !.rows = @ \/ files # {}]
    /\ metaFile' = meta'
    /\ job' = Idle
    /\ exposed' = exposed \cup Unwritten
    /\ UNCHANGED <<now, ledger, need, files>>

-----------------------------------------------------------------------------
(* The exchange, the clock and the consumers.                               *)

Fill ==
    /\ now \notin ledger
    /\ Cardinality(ledger) < MaxFills
    /\ ledger' = ledger \cup {now}
    /\ UNCHANGED <<now, need, events, files, meta, metaFile, job, exposed, left>>

Tick ==
    /\ now < MaxTime
    /\ job.step # "fetch" => now < job.at + MaxSave
    /\ now' = now + 1
    /\ UNCHANGED <<ledger, need, events, files, meta, metaFile, job, exposed, left>>

\* _required_fill_history_start_ms: the requirement follows positions and configuration.
Require ==
    /\ Disturbed
    /\ job = Idle
    /\ need' \in Starts \ {need}
    /\ UNCHANGED <<now, ledger, events, files, meta, metaFile, job, exposed>>

\* Nothing disturbs the refreshes any more.
CalmDown ==
    /\ left > 0
    /\ left' = 0
    /\ UNCHANGED <<now, ledger, need, events, files, meta, metaFile, job, exposed>>

-----------------------------------------------------------------------------

Refresh ==
    \/ FetchAnswered
    \/ \E d \in job.days : SaveDay(d)
    \/ Commit
    \/ Cover

Update == UpdateProved \/ UpdateUnproved

Next ==
    \/ Refresh \/ Update
    \/ FetchFails \/ SaveFails \/ Restart
    \/ Fill \/ Tick \/ Require \/ CalmDown

Spec == Init /\ [][Next]_vars

\* Requests are answered, a refresh goes on, and the loop keeps asking for fills.
FairSpec == Spec /\ WF_vars(Refresh) /\ WF_vars(Update)

-----------------------------------------------------------------------------

\* All that get_coverage_status vouches for and the next incremental refresh will not ask
\* for.
Vouched ==
    IF Ready(meta, events, need)
    THEN {f \in ledger : f >= need /\ f < LatestStart(meta, events)}
    ELSE {}

\* As documented of last_refresh_ms and of interrupted flushes: the next incremental
\* refresh covers whatever the cache does not hold.
VouchedIsHeld == Vouched \subseteq events

\* A fill is missing behind the tail only if a refresh that began past it moved
\* last_refresh_ms, an interrupted save or the next rewrite of its day file left it out,
\* or the exchange showed it after a newer one.  Nothing else makes such a hole: no
\* failed request, gap retry, repair, lagging answer, full disk at the metadata, crash or
\* change of the requirement.
NothingSkipped == Vouched \ events \subseteq exposed

\* The manager implements the ledger its consumers rely on: it holds ever more of the
\* account's fills, over a crash too, and vouches only for what it holds, the exposed
\* fills apart.
Ledger == INSTANCE FillLedger WITH Fills <- Times, made <- ledger, kept <- events,
                                   final <- Vouched \ exposed

KeepsLedger == Ledger!Spec

\* Once nothing fails any more, a required window is proved and stays so.
WindowProved == left = 0 ~> (need = 0 \/ []Ready(meta, events, need))

=============================================================================
