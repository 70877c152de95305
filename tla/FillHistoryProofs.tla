-------------------------- MODULE FillHistoryProofs --------------------------
(***************************************************************************)
(* What the cached fill history guarantees in every behaviour: it holds     *)
(* every fill it vouches for and will not ask for again, apart from those   *)
(* it lost track of in one of the named ways, and so implements FillLedger. *)
(*                                                                         *)
(* NothingSkipped alone is not inductive.  It speaks of the required start  *)
(* and of memory only; the next step may require another start, clear a     *)
(* gap, or lose memory.  TailHeld therefore speaks of every fill that the   *)
(* metadata vouches for, in memory or on disk, and FilesWhole says the same *)
(* of the files a crash falls back on.  They are kept because of what each  *)
(* refresh asks for (RefreshAsked: no range begins past what is held and    *)
(* vouched for), because an answer is whole up to a time that last_refresh  *)
(* minus the overlap never passes (AnswerWhole), and because metadata is    *)
(* written after the fills it speaks of (AnswerStored, MetadataFollows).    *)
(* On Hyperliquid the next start never follows the fills held alone, so     *)
(* there is less to keep of them, but it needs a time of the last refresh   *)
(* wherever something is vouched for (Dated).                               *)
(***************************************************************************)
EXTENDS FillHistory, FiniteSetTheorems, WellFoundedInduction, TLAPS

-----------------------------------------------------------------------------
(* Minima, and where an incremental refresh starts.                         *)

\* The order of the naturals as a relation.
Below == {p \in Nat \X Nat : p[1] < p[2]}

LEMMA BelowWellFounded == IsWellFoundedOn(Below, Nat)
    BY NatLessThanWellFounded DEF OpToRel, Below

\* A non-empty set of naturals has the minimum Min names.
LEMMA MinOfNaturals ==
    ASSUME NEW S, S \subseteq Nat, S # {}
    PROVE  Min(S) \in S /\ \A y \in S : Min(S) <= y
<1>1. PICK x \in S : \A y \in S : ~ (<<y, x>> \in Below)
    BY WFMin, BelowWellFounded
<1>2. \A y \in S : x <= y
    <2> TAKE y \in S
    <2>1. x \in Nat /\ y \in Nat
        OBVIOUS
    <2>2. y < x => <<y, x>> \in Below
        BY <2>1 DEF Below
    <2> QED
        BY <1>1, <2>1, <2>2
<1> QED
    BY <1>2 DEF Min

\* With a fill held, an incremental refresh starts at a held fill.
LEMMA AnchorHeld ==
    ASSUME NEW evs, evs \subseteq Times, evs # {}
    PROVE  Anchor(evs) \in evs
<1>0. \A e \in evs : e \in Nat /\ 1 <= e /\ e <= MaxTime
    BY HistoryAssumption DEF Times
<1> DEFINE L == {f \in evs : Cardinality({g \in evs : g >= f}) <= Overlap}
<1>1. PICK b \in evs : \A f \in evs : f <= b
    <2> DEFINE S == {x \in Nat : \E f \in evs : x + f = MaxTime}
    <2>1. S \subseteq Nat
        OBVIOUS
    <2>2. S # {}
        <3>1. PICK f \in evs : TRUE
            OBVIOUS
        <3>2. f \in Int /\ 1 <= f /\ f <= MaxTime
            BY <3>1, HistoryAssumption DEF Times
        <3>3. MaxTime - f \in Nat /\ MaxTime - f + f = MaxTime
            BY <3>2, HistoryAssumption
        <3> QED
            BY <3>3
    <2> HIDE DEF S
    <2>3. Min(S) \in S /\ \A y \in S : Min(S) <= y
        BY <2>1, <2>2, MinOfNaturals
    <2>4. PICK b \in evs : Min(S) + b = MaxTime
        BY <2>3 DEF S
    <2>5. \A f \in evs : MaxTime - f \in S
        BY HistoryAssumption DEF Times, S
    <2>6. Min(S) \in Nat
        BY <2>1, <2>3
    <2> QED
        BY <1>0, <2>3, <2>4, <2>5, <2>6, HistoryAssumption
<1>2. {g \in evs : g >= b} = {b}
    BY <1>0, <1>1
<1>3. b \in L
    <2>1. Cardinality({b}) = 1
        BY FS_Singleton
    <2>2. 1 <= Overlap
        BY HistoryAssumption
    <2> QED
        BY <1>2, <2>1, <2>2
<1>4. L \subseteq Nat /\ L \subseteq evs
    BY <1>0
<1> HIDE DEF L
<1>5. Min(L) \in L
    BY <1>3, <1>4, MinOfNaturals
<1> QED
    BY <1>4, <1>5 DEF Anchor, L

\* The tail of the history was read from t on at the latest.
Behind(m, evs, t) ==
    \/ ~ Hyperliquid /\ \E e \in evs : e >= t
    \/ t <= m.last - RecentOverlap

\* The start by the number of fills is behind the tail.
LEMMA AnchorBehind ==
    ASSUME NEW m, NEW evs, evs \subseteq Times, NEW n \in Nat, \A e \in evs : e <= n
    PROVE  /\ Anchor(evs) \in 0..MaxTime
           /\ Anchor(evs) <= n
           /\ Hyperliquid \/ Anchor(evs) = 0 \/ Behind(m, evs, Anchor(evs))
<1>1. CASE evs = {}
    BY <1>1, HistoryAssumption DEF Anchor
<1>2. CASE evs # {}
    <2>1. Anchor(evs) \in evs
        BY <1>2, AnchorHeld
    <2>0. Anchor(evs) \in Times
        BY <2>1
    <2>2. Anchor(evs) \in 0..MaxTime /\ Anchor(evs) >= Anchor(evs)
        BY <2>0, HistoryAssumption DEF Times
    <2>3. Anchor(evs) <= n
        BY <2>1
    <2>4. Hyperliquid \/ Behind(m, evs, Anchor(evs))
        BY <2>1, <2>2, HistoryAssumption DEF Behind
    <2> QED
        BY <2>2, <2>3, <2>4
<1> QED
    BY <1>1, <1>2

\* The maximum of two integers, and the minimum of two naturals.
LEMMA MaxOfTwo ==
    ASSUME NEW a \in Int, NEW b \in Int
    PROVE  Max({a, b}) = IF a >= b THEN a ELSE b
<1> DEFINE x == Max({a, b})
<1>1. \E y \in {a, b} : \A z \in {a, b} : y >= z
    <2>1. CASE a >= b
        BY <2>1
    <2>2. CASE b >= a
        BY <2>2
    <2> QED
        BY <2>1, <2>2
<1>2. x \in {a, b} /\ \A z \in {a, b} : x >= z
    BY <1>1 DEF Max
<1> HIDE DEF x
<1>3. x = IF a >= b THEN a ELSE b
    BY <1>2
<1> QED
    BY <1>3 DEF x

LEMMA MinOfTwo ==
    ASSUME NEW a \in Nat, NEW b \in Nat
    PROVE  Min({a, b}) = IF a <= b THEN a ELSE b
<1> DEFINE x == Min({a, b})
<1>1. x \in {a, b} /\ \A z \in {a, b} : x <= z
    <2>1. {a, b} \subseteq Nat /\ {a, b} # {}
        OBVIOUS
    <2> QED
        BY <2>1, MinOfNaturals
<1> HIDE DEF x
<1>2. x = IF a <= b THEN a ELSE b
    BY <1>1
<1> QED
    BY <1>2 DEF x

\* The start of refresh_latest is behind the tail, for Hyperliquid once there was a
\* refresh.
LEMMA LatestStartBehind ==
    ASSUME NEW m, m \in Metadata, NEW evs, evs \subseteq Times,
           NEW n \in Nat, \A e \in evs : e <= n, m.last <= n
    PROVE  /\ LatestStart(m, evs) \in 0..MaxTime
           /\ LatestStart(m, evs) <= n
           /\ \/ Hyperliquid /\ m.last = 0
              \/ LatestStart(m, evs) = 0
              \/ Behind(m, evs, LatestStart(m, evs))
<1>1. /\ Anchor(evs) \in 0..MaxTime
      /\ Anchor(evs) <= n
      /\ Hyperliquid \/ Anchor(evs) = 0 \/ Behind(m, evs, Anchor(evs))
    BY AnchorBehind
<1>2. CASE m.last = 0
    BY <1>1, <1>2 DEF LatestStart
<1>3. CASE m.last # 0
    <2> DEFINE a == Anchor(evs)
               b == m.last - RecentOverlap
               c == Max({b, 0})
               s == LatestStart(m, evs)
    <2>1. a \in Nat /\ b \in Int /\ b <= MaxTime /\ b <= n
        BY <1>1, HistoryAssumption DEF Metadata
    <2>2. c = IF b >= 0 THEN b ELSE 0
        BY <2>1, MaxOfTwo
    <2>3. a = 0 \/ evs # {}
        BY DEF Anchor
    <2>4. s = IF Hyperliquid /\ evs # {} THEN Min({a, c}) ELSE Max({a, c})
        BY <1>3 DEF LatestStart
    <2> HIDE DEF c, s
    <2>5. c \in Nat /\ c <= MaxTime /\ c <= n
        BY <2>1, <2>2, HistoryAssumption
    <2>6. s = IF Hyperliquid /\ evs # {} THEN (IF a <= c THEN a ELSE c)
              ELSE (IF a >= c THEN a ELSE c)
        BY <2>1, <2>4, <2>5, MaxOfTwo, MinOfTwo
    <2>7. s \in Nat /\ s <= MaxTime /\ s <= n
        BY <1>1, <2>1, <2>5, <2>6, HistoryAssumption
    <2>8. s = a \/ s <= c
        BY <2>1, <2>5, <2>6
    <2>9. s <= c => s = 0 \/ Behind(m, evs, s)
        BY <2>1, <2>2, <2>7 DEF Behind
    <2>10. Hyperliquid => s <= c
        BY <2>1, <2>3, <2>5, <2>6
    <2> HIDE DEF a
    <2>11. s = 0 \/ Behind(m, evs, s)
        BY <1>1, <2>8, <2>9, <2>10 DEF a
    <2> QED
        BY <2>7, <2>11, HistoryAssumption DEF s
<1> QED
    BY <1>2, <1>3

-----------------------------------------------------------------------------
(* What a refresh asks for.                                                 *)

\* A refresh leaves nothing unread that the history could vouch for: a range with an end
\* lies behind the tail, the whole window was not proved before, and an incremental one
\* starts behind the tail.
Asked(j, m, evs, start, time) ==
    /\ j.task = "none" => j = Idle
    /\ j.step = "fetch" => j.got = {}
    /\ j.until # Open <=> j.task \in {"gap", "repair"}
    /\ j.until # Open => 1 <= j.from /\ j.from < j.until /\ \E e \in evs : e >= j.until - 1
    /\ j.task = "window" =>
          0 < j.from /\ m.scope # "all" /\ (m.covered = 0 \/ m.covered > j.from)
    /\ j.task \in {"gap", "tail"} => 0 < start
    /\ j.task = "full" => j.from = 0
    /\ j.task # "window" => j.from <= time
    /\ j.task = "tail" => Blocking(m, start) = {}
    /\ j.task = "repair" => m.last > 0
    /\ j.task = "latest" \/ (~ Hyperliquid /\ j.task = "tail") =>
          j.from = 0 \/ Behind(m, evs, j.from)

\* The job Ask makes.
LEMMA AskedFor ==
    ASSUME NEW task \in {"none", "repair", "gap", "tail", "latest", "targeted", "window",
                         "full"},
           NEW from \in 0..MaxTime, NEW until \in 1..Open, Ask(task, from, until)
    PROVE  /\ job' \in Jobs
           /\ job' = [task |-> task, step |-> "fetch", from |-> from, until |-> until,
                      got |-> {}, days |-> {}, at |-> 0]
<1>1. job' = [task |-> task, step |-> "fetch", from |-> from, until |-> until,
              got |-> {}, days |-> {}, at |-> 0]
    BY DEF Ask, Idle
<1>2. 0 \in 0..MaxTime
    BY HistoryAssumption
<1> QED
    BY <1>1, <1>2 DEF Jobs

\* No refresh is in flight.
LEMMA NothingAsked ==
    ASSUME NEW m, NEW evs, NEW start, NEW time \in Nat
    PROVE  Idle \in Jobs /\ Asked(Idle, m, evs, start, time)
<1>1. 0 \in 0..MaxTime /\ Open \in 1..Open /\ 0 <= time
    BY HistoryAssumption DEF Open
<1> QED
    BY <1>1 DEF Idle, Jobs, Asked

\* The lowest unproved run of ticks ends before the newest held fill.
LEMMA GapAsked ==
    ASSUME NEW m, m \in Metadata, NEW evs, evs \subseteq Times,
           need \in 0..MaxTime, 0 < need, now \in Nat, \A e \in evs : e <= now,
           \A t \in m.gaps : \E e \in evs : e >= t,
           Blocking(m, need) # {}, AskGap(m)
    PROVE  /\ job' \in Jobs /\ job'.step = "fetch"
           /\ Asked(job', m, evs, need, now)
<1> DEFINE first == Min(Blocking(m, need))
           Ends == {t \in first..MaxTime : t + 1 \notin m.gaps}
           last == Min(Ends)
<1>1. Blocking(m, need) \subseteq m.gaps /\ m.gaps \subseteq Times
    BY DEF Blocking, Metadata
<1>2. \A t \in m.gaps : t \in Nat /\ 1 <= t /\ t <= MaxTime
    BY <1>1, HistoryAssumption DEF Times
<1>3. Blocking(m, need) \subseteq Nat
    BY <1>1, <1>2
<1>4. first \in m.gaps
    BY <1>1, <1>3, MinOfNaturals
<1>5. first \in Nat /\ 1 <= first /\ first <= MaxTime
    BY <1>2, <1>4
<1> HIDE DEF first
<1>6. Ends \subseteq Nat /\ Ends # {}
    <2>1. MaxTime + 1 \notin m.gaps
        BY <1>2, HistoryAssumption
    <2>2. MaxTime \in Ends
        BY <1>5, <2>1, HistoryAssumption
    <2>3. Ends \subseteq Nat
        BY <1>5
    <2> QED
        BY <2>2, <2>3
<1>7. last \in Ends /\ \A t \in Ends : last <= t
    <2> HIDE DEF Ends
    <2> QED
        BY <1>6, MinOfNaturals
<1>8. last \in Nat /\ first <= last /\ last <= MaxTime
    BY <1>5, <1>7, HistoryAssumption
<1>9. last \in m.gaps
    <2> HIDE DEF last
    <2>1. CASE last = first
        BY <1>4, <2>1
    <2>2. CASE last # first
        <3>1. last - 1 \in first..MaxTime /\ (last - 1) + 1 = last /\ ~ (last <= last - 1)
            BY <1>5, <1>8, <2>2, HistoryAssumption
        <3>2. last - 1 \notin Ends
            BY <1>7, <3>1
        <3> QED
            BY <3>1, <3>2
    <2> QED
        BY <2>1, <2>2
<1>10. Ask("gap", first, last + 1)
    BY DEF AskGap, first
<1> HIDE DEF last, Ends
<1>11. /\ job' \in Jobs
       /\ job' = [task |-> "gap", step |-> "fetch", from |-> first, until |-> last + 1,
                  got |-> {}, days |-> {}, at |-> 0]
    <2>1. first \in 0..MaxTime /\ last + 1 \in 1..Open
        BY <1>5, <1>8, HistoryAssumption DEF Open
    <2> QED
        BY <1>10, <2>1, AskedFor
<1>12. PICK e \in evs : e >= last
    BY <1>9
<1>13. first <= now
    BY <1>5, <1>8, <1>12, HistoryAssumption DEF Times
<1>14. last + 1 # Open /\ 1 <= first /\ first < last + 1 /\ last + 1 - 1 = last
    BY <1>5, <1>8, HistoryAssumption DEF Open
<1>15. /\ job'.task = "gap" /\ job'.step = "fetch" /\ job'.from = first
       /\ job'.until = last + 1 /\ job'.got = {}
    BY <1>11
<1>16. e >= job'.until - 1
    BY <1>8, <1>12, <1>15
<1> QED
    BY <1>11, <1>13, <1>14, <1>15, <1>16 DEF Asked

\* For a refresh of the open range from a start that is behind the tail.
LEMMA TailAsked ==
    ASSUME NEW m, m \in Metadata, NEW evs, evs \subseteq Times,
           now \in Times, \A e \in evs : e <= now, m.last <= now
    PROVE  /\ m.last > 0 /\ AskTail(m, evs) =>
                /\ job' \in Jobs /\ job'.step = "fetch"
                /\ Asked(job', m, evs, need, now)
           /\ 0 < need /\ Blocking(m, need) = {} /\ Ask("tail", Anchor(evs), Open) =>
                /\ job' \in Jobs /\ job'.step = "fetch"
                /\ Asked(job', m, evs, need, now)
<1>1. now \in Nat /\ now <= MaxTime /\ Open \in 1..Open
    BY HistoryAssumption DEF Times, Open
<1>2. ASSUME m.last > 0, Ask("latest", LatestStart(m, evs), Open)
      PROVE  /\ job' \in Jobs /\ job'.step = "fetch"
             /\ Asked(job', m, evs, need, now)
    <2>1. /\ LatestStart(m, evs) \in 0..MaxTime
          /\ LatestStart(m, evs) <= now
          /\ \/ Hyperliquid /\ m.last = 0
             \/ LatestStart(m, evs) = 0
             \/ Behind(m, evs, LatestStart(m, evs))
        BY <1>1, LatestStartBehind
    <2>2. /\ job' \in Jobs
          /\ job' = [task |-> "latest", step |-> "fetch", from |-> LatestStart(m, evs),
                     until |-> Open, got |-> {}, days |-> {}, at |-> 0]
        BY <1>1, <1>2, <2>1, AskedFor
    <2>3. m.last # 0
        BY <1>2
    <2> QED
        BY <2>1, <2>2, <2>3 DEF Asked
<1>3. ASSUME NEW since \in 0..now, Ask("targeted", since, Open)
      PROVE  /\ job' \in Jobs /\ job'.step = "fetch"
             /\ Asked(job', m, evs, need, now)
    <2>1. since \in 0..MaxTime /\ since <= now
        BY <1>1, HistoryAssumption
    <2>2. /\ job' \in Jobs
          /\ job' = [task |-> "targeted", step |-> "fetch", from |-> since,
                     until |-> Open, got |-> {}, days |-> {}, at |-> 0]
        BY <1>1, <1>3, <2>1, AskedFor
    <2> QED
        BY <2>1, <2>2 DEF Asked
<1>4. ASSUME 0 < need, Blocking(m, need) = {}, Ask("tail", Anchor(evs), Open)
      PROVE  /\ job' \in Jobs /\ job'.step = "fetch"
             /\ Asked(job', m, evs, need, now)
    <2>1. /\ Anchor(evs) \in 0..MaxTime
          /\ Anchor(evs) <= now
          /\ Hyperliquid \/ Anchor(evs) = 0 \/ Behind(m, evs, Anchor(evs))
        BY <1>1, AnchorBehind
    <2>2. /\ job' \in Jobs
          /\ job' = [task |-> "tail", step |-> "fetch", from |-> Anchor(evs),
                     until |-> Open, got |-> {}, days |-> {}, at |-> 0]
        BY <1>1, <1>4, <2>1, AskedFor
    <2> QED
        BY <1>4, <2>1, <2>2 DEF Asked
<1> QED
    BY <1>2, <1>3, <1>4 DEF AskTail

\* The whole window is read only where its start was not proved.
LEMMA WindowAsked ==
    ASSUME NEW m, m \in Metadata, NEW evs, need \in 0..MaxTime, 0 < need, now \in Nat,
           m.rows => evs # {}, Blocking(m, need) = {}, ~ Ready(m, evs, need),
           Ask("window", need, Open)
    PROVE  /\ job' \in Jobs /\ job'.step = "fetch"
           /\ Asked(job', m, evs, need, now)
<1>1. m.scope # "all" /\ (m.covered = 0 \/ m.covered > need)
    <2>1. m.covered \in Nat /\ need \in Nat
        BY HistoryAssumption DEF Metadata
    <2> QED
        BY <2>1 DEF Ready
<1>2. Open \in 1..Open
    BY HistoryAssumption DEF Open
<1>3. /\ job' \in Jobs
      /\ job' = [task |-> "window", step |-> "fetch", from |-> need,
                 until |-> Open, got |-> {}, days |-> {}, at |-> 0]
    BY <1>2, AskedFor
<1> QED
    BY <1>1, <1>3 DEF Asked

\* All history is read from the start.
LEMMA FullAsked ==
    ASSUME NEW m, NEW evs, now \in Nat, Ask("full", 0, Open)
    PROVE  /\ job' \in Jobs /\ job'.step = "fetch"
           /\ Asked(job', m, evs, need, now)
<1>1. 0 \in 0..MaxTime /\ Open \in 1..Open /\ 0 <= now
    BY HistoryAssumption DEF Open
<1>2. /\ job' \in Jobs
      /\ job' = [task |-> "full", step |-> "fetch", from |-> 0,
                 until |-> Open, got |-> {}, days |-> {}, at |-> 0]
    BY <1>1, AskedFor
<1> QED
    BY <1>1, <1>2 DEF Asked

\* A repair asks around a held fill.
LEMMA RepairAsked ==
    ASSUME NEW m, NEW evs, evs \subseteq Times, need \in 0..MaxTime, now \in Times,
           m.last > 0, NEW f \in evs, f >= need, f <= now,
           Ask("repair", Max({f - 1, need, 1}), Min({f + 1, now + 1}))
    PROVE  /\ job' \in Jobs /\ job'.step = "fetch"
           /\ Asked(job', m, evs, need, now)
<1>0. f \in Times
    OBVIOUS
<1>1. f \in Nat /\ 1 <= f /\ f <= MaxTime /\ now \in Nat /\ need \in Nat
    BY <1>0, HistoryAssumption DEF Times
<1> DEFINE x == Max({f - 1, need, 1})
           y == Min({f + 1, now + 1})
<1>2. x \in {f - 1, need, 1} /\ \A z \in {f - 1, need, 1} : x >= z
    <2>1. \E v \in {f - 1, need, 1} : \A z \in {f - 1, need, 1} : v >= z
        <3>1. CASE need >= f - 1 /\ need >= 1
            BY <1>1, <3>1
        <3>2. CASE f - 1 >= need /\ f - 1 >= 1
            BY <1>1, <3>2
        <3>3. CASE 1 >= need /\ 1 >= f - 1
            BY <1>1, <3>3
        <3> QED
            BY <1>1, <3>1, <3>2, <3>3
    <2> QED
        BY <2>1 DEF Max
<1>3. y = f + 1
    <2>1. y \in {f + 1, now + 1} /\ \A z \in {f + 1, now + 1} : y <= z
        <3>1. {f + 1, now + 1} \subseteq Nat /\ {f + 1, now + 1} # {}
            BY <1>1
        <3> QED
            BY <3>1, MinOfNaturals
    <2> HIDE DEF y
    <2> QED
        BY <1>1, <2>1
<1>4. Ask("repair", x, y)
    OBVIOUS
<1> HIDE DEF x, y
<1>5. x \in Nat /\ 1 <= x /\ x <= f
    BY <1>1, <1>2
<1>6. x \in 0..MaxTime /\ y \in 1..Open /\ y # Open /\ x < y /\ y - 1 = f /\ x <= now
    BY <1>1, <1>3, <1>5, HistoryAssumption DEF Open
<1>7. /\ job' \in Jobs
      /\ job' = [task |-> "repair", step |-> "fetch", from |-> x, until |-> y,
                 got |-> {}, days |-> {}, at |-> 0]
    BY <1>4, <1>6, AskedFor
<1>8. f >= y - 1
    BY <1>1, <1>6
<1> QED
    BY <1>5, <1>6, <1>7, <1>8 DEF Asked
-----------------------------------------------------------------------------
(* The inductive invariant.                                                 *)

\* What metadata claims of the fill f.
Vouches(m, f) ==
    /\ m.scope = "all" \/ (m.covered > 0 /\ m.covered <= f)
    /\ f \notin m.gaps

\* What the metadata claims now, or will after a crash.
Claimed == {f \in ledger \ exposed : Vouches(meta, f) \/ Vouches(metaFile, f)}

\* Memory is never ahead of the files, and nothing is ahead of the clock.
InThePast ==
    /\ events \subseteq files
    /\ \A f \in ledger : f <= now
    /\ metaFile.last <= meta.last /\ meta.last <= now

\* The metadata on disk proves no earlier start; gaps end before the newest held fill.
MetadataFollows ==
    /\ metaFile.scope = "all" => meta.scope = "all"
    /\ metaFile.covered > 0 => 0 < meta.covered /\ meta.covered <= metaFile.covered
    /\ meta.rows \/ metaFile.rows => events # {}
    /\ \A t \in meta.gaps \cup metaFile.gaps : \E e \in events : e >= t

RefreshAsked == Asked(job, meta, events, need, now)

\* In the range asked for.
Within(f) == job.from <= f /\ f <= job.until

\* An answer is young, and whole up to the lag and up to the newest fill held; nothing
\* vouched for lies before it.
AnswerWhole ==
    job.step # "fetch" =>
        /\ job.at <= now /\ now <= job.at + MaxSave
        /\ \A f \in files \cup job.got : f <= job.at
        /\ \A f \in ledger : Within(f) /\ f < job.at /\ f <= job.at - Lag => f \in job.got
        /\ \A f \in job.got : Within(f)
        /\ ~ Hyperliquid => \A f \in ledger \ exposed :
              Within(f) /\ (\E g \in files \cup job.got : g > f) => f \in events \cup job.got
        /\ ~ Hyperliquid \/ job.until = Open =>
              \A f \in Claimed : f < job.from => f \in events

\* Where the answer is at each step.
AnswerStored ==
    /\ job.step = "save" => \A f \in job.got : DayOf(f) \in job.days \/ f \in files
    /\ job.step = "commit" => job.got \subseteq files
    /\ job.step = "cover" => job.got \subseteq events /\ job.task \in {"window", "full"}
    /\ job.step \in {"save", "commit"} => meta.last <= job.at

\* What is vouched for and lies behind the tail is held.
TailHeld == \A f \in Claimed : Behind(meta, events, f + 1) => f \in events

\* The same of the files, on which a crash falls back.
FilesWhole ==
    ~ Hyperliquid => \A f \in Claimed :
        (\E e \in files : e > f) => f \in files \/ (job.step = "save" /\ f \in job.got)

\* Where something is vouched for, the time of the last refresh is known.
Dated ==
    /\ meta.scope = "all" \/ meta.covered > 0 => meta.last > 0
    /\ metaFile.scope = "all" \/ metaFile.covered > 0 => metaFile.last > 0
    /\ job.step = "cover" => meta.last > 0

IInv ==
    /\ TypeOK
    /\ InThePast
    /\ Dated
    /\ MetadataFollows
    /\ RefreshAsked
    /\ AnswerWhole
    /\ AnswerStored
    /\ TailHeld
    /\ FilesWhole

-----------------------------------------------------------------------------
(* The steps.                                                               *)

\* The integers of the state, and what holds of the constants.
LEMMA Numbers ==
    ASSUME TypeOK
    PROVE  /\ now \in Nat /\ need \in Nat
           /\ \A f \in ledger : f \in Nat /\ 1 <= f /\ f <= MaxTime
           /\ meta.last \in Nat /\ meta.covered \in Nat
           /\ metaFile.last \in Nat /\ metaFile.covered \in Nat
           /\ job.from \in Nat /\ job.until \in Nat /\ job.at \in Nat
           /\ job.got \subseteq ledger /\ events \subseteq ledger /\ files \subseteq ledger
           /\ MaxTime \in Nat /\ MaxSave \in Nat /\ RecentOverlap \in Nat /\ Lag \in Nat
           /\ Lag + MaxSave <= RecentOverlap + 1 /\ MaxSave <= RecentOverlap
           /\ need \in 0..MaxTime /\ now <= MaxTime
<1>1. now \in Nat /\ now <= MaxTime
    BY HistoryAssumption DEF TypeOK, Times
<1>2. need \in 0..MaxTime /\ need \in Nat
    BY HistoryAssumption DEF TypeOK
<1>3. \A f \in ledger : f \in Nat /\ 1 <= f /\ f <= MaxTime
    BY HistoryAssumption DEF TypeOK, Times
<1>4. /\ meta.last \in Nat /\ meta.covered \in Nat
      /\ metaFile.last \in Nat /\ metaFile.covered \in Nat
    BY HistoryAssumption DEF TypeOK, Metadata
<1>5. job.from \in Nat /\ job.until \in Nat /\ job.at \in Nat
    BY HistoryAssumption DEF TypeOK, Jobs, Open
<1> QED
    BY <1>1, <1>2, <1>3, <1>4, <1>5, HistoryAssumption, OverlapAssumption DEF TypeOK

\* A refresh that waits for its answer, or none, says nothing of an answer.
LEMMA NoAnswer ==
    ASSUME job'.step = "fetch"
    PROVE  AnswerWhole' /\ AnswerStored'
    BY DEF AnswerWhole, AnswerStored

\* A new fill is ahead of every tail, and of what a running refresh was asked for.
LEMMA FillStep ==
    ASSUME IInv, Fill
    PROVE  IInv'
<1>1. /\ ledger' = ledger \cup {now}
      /\ UNCHANGED <<now, need, events, files, meta, metaFile, job, exposed, left>>
    BY DEF Fill
<1>2. TypeOK'
    BY <1>1 DEF IInv, TypeOK
<1>3. InThePast'
    BY <1>1, Numbers DEF IInv, InThePast
<1>4. MetadataFollows' /\ RefreshAsked' /\ AnswerStored' /\ Dated'
    BY <1>1 DEF IInv, MetadataFollows, RefreshAsked, AnswerStored, Dated
<1>5. \A f \in Claimed' : f \in Claimed \/ f = now
    BY <1>1 DEF Claimed
<1>6. \A e \in files \cup events \cup job.got : e <= now
    BY Numbers DEF IInv, InThePast
<1>7. now < job.from => now \notin Claimed'
    <2>0. SUFFICES ASSUME now < job.from PROVE now \notin Claimed'
        OBVIOUS
    <2>1. job.task = "window"
        BY <2>0, Numbers DEF IInv, RefreshAsked, Asked
    <2>2. ~ Vouches(meta, now) /\ ~ Vouches(metaFile, now)
        BY <2>0, <2>1, Numbers DEF IInv, RefreshAsked, Asked, MetadataFollows, Vouches
    <2> QED
        BY <1>1, <2>2 DEF Claimed
<1>8. AnswerWhole'
    <2> SUFFICES ASSUME job.step # "fetch" PROVE AnswerWhole'
        BY <1>1 DEF AnswerWhole
    <2>1. /\ job.at <= now /\ now <= job.at + MaxSave
          /\ \A f \in files \cup job.got : f <= job.at
          /\ \A f \in job.got : Within(f)
        BY DEF IInv, AnswerWhole
    <2>2. \A f \in ledger' : Within(f) /\ f < job.at /\ f <= job.at - Lag => f \in job.got
        BY <1>1, <2>1, Numbers DEF IInv, AnswerWhole
    <2>3. ~ Hyperliquid => \A f \in ledger' \ exposed :
              Within(f) /\ (\E g \in files \cup job.got : g > f) => f \in events \cup job.got
        BY <1>1, <1>6, Numbers DEF IInv, AnswerWhole
    <2>4. ~ Hyperliquid \/ job.until = Open =>
              \A f \in Claimed' : f < job.from => f \in events
        BY <1>5, <1>7 DEF IInv, AnswerWhole
    <2> QED
        BY <1>1, <2>1, <2>2, <2>3, <2>4 DEF AnswerWhole, Within
<1>9. TailHeld'
    <2>1. ~ Behind(meta, events, now + 1)
        BY <1>6, Numbers DEF IInv, InThePast, Behind
    <2> QED
        BY <1>1, <1>5, <2>1 DEF IInv, TailHeld
<1>10. FilesWhole'
    BY <1>1, <1>5, <1>6, Numbers DEF IInv, FilesWhole
<1> QED
    BY <1>2, <1>3, <1>4, <1>8, <1>9, <1>10 DEF IInv

\* The clock goes on; a refresh past its answer has MaxSave ticks.
LEMMA TickStep ==
    ASSUME IInv, Tick
    PROVE  IInv'
<1>1. /\ now < MaxTime /\ now' = now + 1
      /\ job.step # "fetch" => now < job.at + MaxSave
      /\ UNCHANGED <<ledger, need, events, files, meta, metaFile, job, exposed, left>>
    BY DEF Tick
<1>2. Claimed' = Claimed
    BY <1>1 DEF Claimed
<1>3. TypeOK'
    BY <1>1, Numbers DEF IInv, TypeOK, Times
<1>4. InThePast'
    BY <1>1, Numbers DEF IInv, InThePast
<1>5. RefreshAsked'
    BY <1>1, Numbers DEF IInv, RefreshAsked, Asked
<1>6. AnswerWhole'
    BY <1>1, <1>2, Numbers DEF IInv, AnswerWhole, Within
<1>7. MetadataFollows' /\ AnswerStored' /\ TailHeld' /\ FilesWhole' /\ Dated'
    BY <1>1, <1>2 DEF IInv, MetadataFollows, AnswerStored, TailHeld, FilesWhole, Dated
<1> QED
    BY <1>3, <1>4, <1>5, <1>6, <1>7 DEF IInv

\* The steps that change no fill, no file and no metadata.
LEMMA CalmStep ==
    ASSUME IInv, CalmDown \/ Require \/ UNCHANGED vars
    PROVE  IInv'
<1>1. /\ UNCHANGED <<now, ledger, events, files, meta, metaFile, job, exposed>>
      /\ left' \in {0, left, left - 1} /\ left' >= 0
      /\ need' = need \/ (need' \in Starts /\ job = Idle)
    BY HistoryAssumption DEF CalmDown, Require, Disturbed, vars, IInv, TypeOK
<1>2. Claimed' = Claimed
    BY <1>1 DEF Claimed
<1>3. TypeOK'
    BY <1>1, HistoryAssumption DEF IInv, TypeOK
<1>4. RefreshAsked'
    BY <1>1, Numbers, NothingAsked DEF IInv, RefreshAsked
<1>5. /\ InThePast' /\ MetadataFollows' /\ AnswerStored' /\ Dated'
      /\ TailHeld' /\ FilesWhole'
    BY <1>1, <1>2 DEF IInv, InThePast, MetadataFollows, AnswerStored, Dated,
                      TailHeld, FilesWhole
<1>6. AnswerWhole'
    BY <1>1, <1>2 DEF IInv, AnswerWhole, Within
<1> QED
    BY <1>3, <1>4, <1>5, <1>6 DEF IInv

\* A new refresh.
LEMMA UpdateStep ==
    ASSUME IInv, Update
    PROVE  IInv'
<1>1. UNCHANGED <<now, ledger, need, events, files, meta, metaFile, exposed, left>>
    BY DEF Update, UpdateProved, UpdateUnproved
<1>2. /\ meta \in Metadata /\ events \subseteq Times /\ now \in Times /\ now \in Nat
      /\ need \in 0..MaxTime /\ \A e \in events : e <= now
      /\ \A t \in meta.gaps : \E e \in events : e >= t
      /\ meta.last <= now
      /\ meta.rows => events # {}
    BY Numbers DEF IInv, TypeOK, InThePast, MetadataFollows
<1>3. job = Idle
    BY DEF Update, UpdateProved, UpdateUnproved
<1>4. job' \in Jobs /\ job'.step = "fetch" /\ Asked(job', meta, events, need, now)
    <2>0. Ready(meta, events, need) => meta.last > 0
        BY DEF Ready, IInv, Dated
    <2>1. CASE Ready(meta, events, need) /\ AskTail(meta, events)
        BY <1>2, <2>0, <2>1, TailAsked
    <2>2. CASE /\ Ready(meta, events, need)
               /\ \E f \in events :
                  /\ f >= need
                  /\ Ask("repair", Max({f - 1, need, 1}), Min({f + 1, now + 1}))
        BY <1>2, <2>0, <2>2, RepairAsked
    <2>3. CASE Ask("full", 0, Open)
        BY <1>2, <2>3, FullAsked
    <2>4. CASE need > 0 /\ Blocking(meta, need) # {} /\ AskGap(meta)
        BY <1>2, <2>4, GapAsked
    <2>5. CASE /\ need > 0 /\ ~ Ready(meta, events, need) /\ Blocking(meta, need) = {}
               /\ Ask("window", need, Open)
        BY <1>2, <2>5, WindowAsked
    <2> QED
        BY <2>1, <2>2, <2>3, <2>4, <2>5 DEF Update, UpdateProved, UpdateUnproved
<1>5. AnswerWhole' /\ AnswerStored'
    BY <1>4, NoAnswer
<1>6. RefreshAsked'
    BY <1>1, <1>4 DEF RefreshAsked
<1>7. job.step = "fetch" /\ Claimed' = Claimed
    BY <1>1, <1>3 DEF Idle, Claimed
<1>8. job'.got \subseteq ledger
    BY <1>4, <1>6 DEF RefreshAsked, Asked
<1>9. TypeOK'
    BY <1>1, <1>4, <1>8 DEF IInv, TypeOK
<1>10. InThePast' /\ MetadataFollows' /\ TailHeld' /\ FilesWhole' /\ Dated'
    BY <1>1, <1>4, <1>7 DEF IInv, InThePast, MetadataFollows, TailHeld, FilesWhole, Dated
<1> QED
    BY <1>5, <1>6, <1>9, <1>10 DEF IInv
\* The day of a fill.
LEMMA DayType ==
    ASSUME NEW f \in Times
    PROVE  DayOf(f) \in 0..MaxTime
<1>1. /\ f \in Nat /\ 1 <= f /\ f <= MaxTime
      /\ MaxTime \in Nat /\ DayLength \in Nat /\ DayLength >= 1
    BY HistoryAssumption DEF Times
<1> DEFINE q == f \div DayLength
<1>2. q \in Int /\ DayLength * q <= f /\ f < DayLength * (q + 1)
    BY <1>1
<1> HIDE DEF q
<1>3. q >= 0
    BY <1>1, <1>2
<1>4. q <= DayLength * q
    BY <1>1, <1>2, <1>3
<1>5. q <= MaxTime
    BY <1>1, <1>2, <1>4
<1> QED
    BY <1>2, <1>3, <1>5, HistoryAssumption DEF DayOf, q

\* What the next start outruns.
LEMMA OutrunIs ==
    ASSUME NEW S
    PROVE  Outrun(S) \subseteq S /\ (~ Hyperliquid => Outrun(S) = S)
    BY DEF Outrun

\* The answer to a fetch.
LEMMA AnswerStep ==
    ASSUME IInv, FetchAnswered
    PROVE  IInv'
<1>1. PICK late \in SUBSET {f \in ledger \ events : f > now - Lag} :
        LET got == {f \in ledger \ late : f >= job.from /\ f <= job.until}
        IN  /\ job' = [job EXCEPT !.got = got, !.days = {DayOf(f) : f \in got}, !.at = now,
                                  !.step = IF got = {} THEN "commit" ELSE "save"]
            /\ exposed' = exposed \cup PassedOver \cup Stranded(late, got)
    BY DEF FetchAnswered
<1> DEFINE got == {f \in ledger \ late : f >= job.from /\ f <= job.until}
           days == {DayOf(f) : f \in got}
           gone == PassedOver \cup Stranded(late, got)
<1>2. /\ job.task # "none" /\ job.step = "fetch"
      /\ exposed' = exposed \cup gone
      /\ UNCHANGED <<now, ledger, need, events, files, meta, metaFile, left>>
    BY <1>1 DEF FetchAnswered
<1>3. /\ got \subseteq ledger /\ days \subseteq 0..MaxTime
      /\ late \subseteq ledger /\ gone \subseteq ledger
    <2>1. \A f \in got : DayOf(f) \in 0..MaxTime
        BY DayType DEF IInv, TypeOK
    <2>2. late \subseteq ledger
        OBVIOUS
    <2>3. PassedOver \subseteq ledger
        BY DEF PassedOver
    <2>4. Stranded(late, got) \subseteq late
        BY OutrunIs DEF Stranded
    <2> QED
        BY <2>1, <2>2, <2>3, <2>4
<1>4. /\ job'.task = job.task /\ job'.from = job.from /\ job'.until = job.until
      /\ job'.got = got /\ job'.days = days /\ job'.at = now
      /\ job'.step = IF got = {} THEN "commit" ELSE "save"
      /\ job' \in Jobs
    <2>1. job \in Jobs /\ now \in 0..MaxTime /\ got \in SUBSET Times
        BY <1>3, Numbers DEF IInv, TypeOK
    <2>2. job' = [job EXCEPT !.got = got, !.days = days, !.at = now,
                             !.step = IF got = {} THEN "commit" ELSE "save"]
        BY <1>1
    <2> HIDE DEF got, days
    <2> QED
        BY <1>3, <2>1, <2>2 DEF Jobs
<1>5. \A f \in ledger : Within(f) /\ f <= now - Lag => f \in got
    BY Numbers DEF IInv, Within
<1>6. \A f \in got : Within(f)
    BY Numbers DEF IInv, Within
<1>7. ASSUME ~ Hyperliquid, NEW f \in ledger \ gone, Within(f),
              \E g \in files \cup got : g > f
       PROVE  f \in got
    <2>1. f \notin late
        BY <1>7, OutrunIs DEF Stranded
    <2> QED
        BY <1>7, <2>1, Numbers DEF IInv, Within
<1> HIDE DEF got, days, gone
<1>8. TypeOK'
    BY <1>2, <1>3, <1>4 DEF IInv, TypeOK
<1>9. InThePast' /\ MetadataFollows' /\ Dated'
    BY <1>2, <1>4 DEF IInv, InThePast, MetadataFollows, Dated
<1>10. RefreshAsked'
    <2>1. job' # Idle /\ job'.step # "fetch" /\ job'.task # "none"
        BY <1>2, <1>4 DEF Idle
    <2> QED
        BY <1>2, <1>4, <2>1 DEF IInv, RefreshAsked, Asked
<1>11. Claimed' = Claimed \ gone
    BY <1>2 DEF Claimed
<1>12. TailHeld'
    BY <1>2, <1>11 DEF IInv, TailHeld
<1>13. FilesWhole'
    BY <1>2, <1>4, <1>11 DEF IInv, FilesWhole
<1>14. ASSUME NEW f \in Claimed', f < job.from, ~ Hyperliquid \/ job.until = Open
       PROVE  f \in events
    <2>1. f \in Claimed /\ f \notin PassedOver /\ f \in ledger /\ f \in Nat
        BY <1>11, Numbers DEF Claimed, IInv, gone
    <2>2. CASE job.task = "targeted"
        BY <1>14, <2>1, <2>2 DEF PassedOver
    <2>3. CASE job.task = "window"
        <3>1. ~ Vouches(meta, f) /\ ~ Vouches(metaFile, f)
            BY <1>14, <2>1, <2>3, Numbers
            DEF IInv, RefreshAsked, Asked, MetadataFollows, Vouches
        <3> QED
            BY <2>1, <3>1 DEF Claimed
    <2>4. CASE job.task = "full"
        BY <1>14, <2>1, <2>4, Numbers DEF IInv, RefreshAsked, Asked
    <2>5. CASE Hyperliquid /\ job.task = "tail"
        BY <1>14, <2>1, <2>5 DEF PassedOver
    <2>6. job.task \in {"gap", "repair"} => ~ Hyperliquid
        BY <1>14 DEF IInv, RefreshAsked, Asked
    <2>7. CASE job.task \in {"gap", "repair", "tail", "latest"}
               /\ ~ (Hyperliquid /\ job.task = "tail")
        <3>1. Behind(meta, events, f + 1)
            <4>1. PICK t \in {job.from, job.until - 1} : f + 1 <= t /\ Behind(meta, events, t)
                <5>1. CASE job.task \in {"gap", "repair"}
                    <6>1. job.from < job.until /\ \E e \in events : e >= job.until - 1
                        BY <5>1 DEF IInv, RefreshAsked, Asked
                    <6>2. f + 1 <= job.until - 1
                        BY <1>14, <2>1, <6>1, Numbers DEF IInv
                    <6> QED
                        BY <2>6, <5>1, <6>1, <6>2 DEF Behind
                <5>2. CASE job.task \in {"tail", "latest"}
                    <6>1. job.from = 0 \/ Behind(meta, events, job.from)
                        BY <2>7, <5>2 DEF IInv, RefreshAsked, Asked
                    <6>2. f + 1 <= job.from /\ job.from # 0
                        BY <1>14, <2>1, Numbers DEF IInv
                    <6> QED
                        BY <6>1, <6>2
                <5> QED
                    BY <2>7, <5>1, <5>2
            <4>2. t \in Int /\ \A e \in events : e \in Int
                BY Numbers DEF IInv
            <4> QED
                BY <2>1, <4>1, <4>2, Numbers DEF IInv, Behind
        <3> QED
            BY <2>1, <3>1 DEF IInv, TailHeld
    <2>8. job.task \in {"none", "repair", "gap", "tail", "latest", "targeted", "window",
                        "full"}
        BY DEF IInv, TypeOK, Jobs
    <2> QED
        BY <1>2, <2>2, <2>3, <2>4, <2>7, <2>8, <2>5
<1>15. AnswerWhole'
    <2>1. \A f \in files \cup got : f <= now
        BY <1>3, Numbers DEF IInv, InThePast
    <2>2. now <= now /\ now <= now + MaxSave
        BY Numbers DEF IInv
    <2>3. ~ Hyperliquid => \A f \in ledger' \ exposed' :
              Within(f) /\ (\E g \in files \cup got : g > f) => f \in got
        BY <1>2, <1>7
    <2>4. \A f : Within(f)' = Within(f)
        BY <1>4 DEF Within
    <2> QED
        BY <1>2, <1>4, <1>5, <1>6, <1>14, <2>1, <2>2, <2>3, <2>4 DEF AnswerWhole
<1>16. AnswerStored'
    <2>1. \A f \in got : DayOf(f) \in days
        BY DEF days
    <2>2. got = {} => got \subseteq files
        OBVIOUS
    <2>3. meta'.last <= job'.at
        BY <1>2, <1>4 DEF IInv, InThePast
    <2> QED
        BY <1>4, <2>1, <2>2, <2>3 DEF AnswerStored
<1> QED
    BY <1>8, <1>9, <1>10, <1>12, <1>13, <1>15, <1>16 DEF IInv

\* One day file.
LEMMA SaveStep ==
    ASSUME IInv, NEW d \in job.days, SaveDay(d)
    PROVE  IInv'
<1>1. /\ job.step = "save"
      /\ files' = {f \in files : DayOf(f) # d} \cup DayFile(d)
      /\ exposed' = exposed \cup Lost(d)
      /\ UNCHANGED <<now, ledger, need, events, meta, metaFile, left>>
    BY DEF SaveDay
<1>2. /\ job'.task = job.task /\ job'.from = job.from /\ job'.until = job.until
      /\ job'.got = job.got /\ job'.days = job.days \ {d} /\ job'.at = job.at
      /\ job'.step = IF job.days = {d} THEN "commit" ELSE "save"
      /\ job' \in Jobs
    BY DEF SaveDay, IInv, TypeOK, Jobs
<1>3. TypeOK'
    <2>1. Lost(d) \subseteq files
        BY OutrunIs DEF Lost
    <2>2. exposed' \subseteq ledger
        BY <1>1, <2>1 DEF IInv, TypeOK
    <2> QED
        BY <1>1, <1>2, <2>2 DEF IInv, TypeOK, DayFile
<1>4. Claimed' = Claimed \ Lost(d)
    BY <1>1 DEF Claimed
<1>5. \A f : Within(f)' = Within(f)
    BY <1>2 DEF Within
<1>6. \A f \in files' : f \in files \/ f \in job.got
    BY <1>1 DEF DayFile, IInv, InThePast
<1>7. ~ Hyperliquid => \A f \in files \ files' : f \in Lost(d)
    BY <1>1, OutrunIs DEF Lost
<1>8. \A f \in job.got : DayOf(f) = d \/ f \in files => f \in files'
    BY <1>1 DEF DayFile
<1>9. \A f \in events : f \in files'
    BY <1>1 DEF DayFile, IInv, InThePast
<1>10. InThePast' /\ MetadataFollows' /\ Dated'
    BY <1>1, <1>2, <1>9 DEF IInv, InThePast, MetadataFollows, Dated
<1>11. RefreshAsked'
    <2>1. job' # Idle /\ job'.step # "fetch" /\ job'.task = job.task /\ job # Idle
        BY <1>1, <1>2 DEF Idle
    <2> QED
        BY <1>1, <1>2, <2>1 DEF IInv, RefreshAsked, Asked
<1>12. AnswerWhole'
    <2>1. /\ job.at <= now /\ now <= job.at + MaxSave
          /\ \A f \in files' \cup job.got : f <= job.at
          /\ \A f \in ledger : Within(f) /\ f < job.at /\ f <= job.at - Lag => f \in job.got
          /\ \A f \in job.got : Within(f)
        BY <1>1, <1>6 DEF IInv, AnswerWhole
    <2>2. ~ Hyperliquid => \A f \in ledger \ exposed' :
              Within(f) /\ (\E g \in files' \cup job.got : g > f) => f \in events \cup job.got
        BY <1>1, <1>6 DEF IInv, AnswerWhole
    <2>3. ~ Hyperliquid \/ job.until = Open =>
              \A f \in Claimed' : f < job.from => f \in events
        BY <1>1, <1>4 DEF IInv, AnswerWhole
    <2> QED
        BY <1>1, <1>2, <1>5, <2>1, <2>2, <2>3 DEF AnswerWhole
<1>13. AnswerStored'
    <2>1. \A f \in job.got : DayOf(f) \in job.days \ {d} \/ f \in files'
        BY <1>1, <1>8 DEF IInv, AnswerStored
    <2> QED
        BY <1>1, <1>2, <2>1 DEF IInv, AnswerStored
<1>14. TailHeld'
    BY <1>1, <1>4 DEF IInv, TailHeld
<1>15. FilesWhole'
    <2> SUFFICES ASSUME ~ Hyperliquid, NEW f \in Claimed', NEW e \in files', e > f
                 PROVE  f \in files' \/ (job'.step = "save" /\ f \in job'.got)
        BY DEF FilesWhole
    <2>1. f \in Claimed /\ f \notin Lost(d) /\ f \in ledger /\ f \in Nat
        BY <1>4, Numbers DEF Claimed, IInv
    <2>2. f \in files \/ f \in job.got
        <3>1. CASE e \in files
            BY <2>1, <3>1 DEF IInv, FilesWhole
        <3>2. CASE e \in job.got
            <4>1. e \in Nat /\ e <= job.until
                BY <1>1, <3>2, Numbers DEF IInv, AnswerWhole, Within
            <4>2. f < job.from => f \in files
                BY <1>1, <2>1 DEF IInv, AnswerWhole, InThePast
            <4>3. job.from <= f => f \in events \cup job.got
                <5>1. job.from <= f => Within(f)
                    BY <2>1, <4>1, Numbers DEF IInv, Within
                <5>2. f \in ledger \ exposed
                    BY <2>1 DEF Claimed
                <5> QED
                    BY <1>1, <3>2, <5>1, <5>2 DEF IInv, AnswerWhole
            <4>4. f \in events => f \in files
                BY DEF IInv, InThePast
            <4> QED
                BY <2>1, <4>2, <4>3, <4>4, Numbers DEF IInv
        <3> QED
            BY <1>6, <3>1, <3>2
    <2>3. f \in files => f \in files'
        BY <1>7, <2>1
    <2>4. f \in job.got => f \in files' \/ job'.step = "save"
        BY <1>2, <1>8, <1>13 DEF AnswerStored
    <2> QED
        BY <1>2, <2>2, <2>3, <2>4
<1> QED
    BY <1>3, <1>10, <1>11, <1>12, <1>13, <1>14, <1>15 DEF IInv

\* Nothing is asked for after a failure or a crash.
LEMMA Stopped ==
    ASSUME TypeOK, job' = Idle, now' = now
    PROVE  /\ job' \in Jobs /\ job'.got \subseteq ledger /\ job'.step = "fetch"
           /\ RefreshAsked' /\ AnswerWhole' /\ AnswerStored'
<1>1. now' \in Nat
    BY Numbers
<1>2. job' \in Jobs /\ RefreshAsked'
    BY <1>1, NothingAsked DEF RefreshAsked
<1>3. job'.got = {} /\ job'.step = "fetch"
    BY DEF Idle
<1> QED
    BY <1>2, <1>3, NoAnswer

\* A failed fetch, whose range may become a gap in memory, on disk or both.
LEMMA FetchFailsStep ==
    ASSUME IInv, FetchFails
    PROVE  IInv'
<1>1. /\ job.task # "none" /\ job.step = "fetch" /\ job' = Idle
      /\ left > 0 /\ left' = left - 1
      /\ UNCHANGED <<now, ledger, need, events, files, exposed>>
      /\ metaFile' \in {metaFile, meta'}
      /\ \/ meta' = meta
         \/ job.until # Open /\ meta' = WithGap(meta, job.from, job.until)
    BY DEF FetchFails, Disturbed
<1>2. CASE meta' = meta /\ metaFile' = metaFile
    <2>1. Claimed' = Claimed
        BY <1>1, <1>2 DEF Claimed
    <2>2. job' \in Jobs /\ job'.got \subseteq ledger
        BY <1>1, Stopped DEF IInv
    <2>3. TypeOK'
        BY <1>1, <1>2, <2>2, HistoryAssumption DEF IInv, TypeOK
    <2>4. InThePast' /\ MetadataFollows' /\ TailHeld' /\ FilesWhole'
        BY <1>1, <1>2, <2>1 DEF IInv, InThePast, MetadataFollows, TailHeld, FilesWhole
    <2>5. Dated'
        BY <1>1, <1>2 DEF IInv, Dated, Idle
    <2> QED
        BY <1>1, <2>3, <2>4, <2>5, Stopped DEF IInv
<1>3. PICK gap \in SUBSET Times :
        /\ meta' = [meta EXCEPT !.gaps = @ \cup gap]
        /\ \A t \in gap : \E e \in events : e >= t
    <2>1. CASE meta' = meta
        <3>1. meta' = [meta EXCEPT !.gaps = @ \cup {}]
            BY <2>1 DEF IInv, TypeOK, Metadata
        <3>2. {} \in SUBSET Times /\ \A t \in {} : \E e \in events : e >= t
            OBVIOUS
        <3> QED
            BY <3>1, <3>2
    <2>2. CASE job.until # Open /\ meta' = WithGap(meta, job.from, job.until)
        <3>1. /\ 1 <= job.from /\ job.from < job.until
              /\ \E e \in events : e >= job.until - 1
            BY <2>2 DEF IInv, RefreshAsked, Asked
        <3>2. job.until <= MaxTime + 1
            BY <2>2, Numbers DEF IInv, TypeOK, Jobs, Open
        <3>3. job.from..(job.until - 1) \subseteq Times
            BY <3>1, <3>2, Numbers DEF IInv, Times
        <3>4. \A t \in job.from..(job.until - 1) : \E e \in events : e >= t
            BY <3>1, Numbers DEF IInv
        <3> QED
            BY <2>2, <3>3, <3>4 DEF WithGap
    <2> QED
        BY <1>1, <2>1, <2>2
<1>4. /\ meta' \in Metadata /\ metaFile' \in Metadata
      /\ meta'.scope = meta.scope /\ meta'.covered = meta.covered
      /\ meta'.last = meta.last /\ meta'.rows = meta.rows
      /\ meta'.gaps = meta.gaps \cup gap
    BY <1>1, <1>3 DEF IInv, TypeOK, Metadata
<1>5. Claimed' \subseteq Claimed
    BY <1>1, <1>4 DEF Claimed, Vouches
<1>6. /\ RefreshAsked' /\ AnswerWhole' /\ AnswerStored' /\ job' \in Jobs
      /\ job'.got \subseteq ledger
    BY <1>1, Stopped DEF IInv
<1>7. TypeOK'
    BY <1>1, <1>4, <1>6, HistoryAssumption DEF IInv, TypeOK
<1>8. InThePast'
    BY <1>1, <1>4, Numbers DEF IInv, InThePast
<1>9. MetadataFollows'
    <2>1. \A t \in meta'.gaps \cup metaFile'.gaps : \E e \in events : e >= t
        BY <1>1, <1>3, <1>4 DEF IInv, MetadataFollows
    <2>2. /\ metaFile'.scope \in {metaFile.scope, meta.scope}
          /\ metaFile'.covered \in {metaFile.covered, meta.covered}
          /\ metaFile'.rows \in {metaFile.rows, meta.rows}
        BY <1>1, <1>4
    <2>3. metaFile'.scope = "all" => meta.scope = "all"
        BY <2>2 DEF IInv, MetadataFollows
    <2>4. metaFile'.covered > 0 => 0 < meta.covered /\ meta.covered <= metaFile'.covered
        BY <2>2, Numbers DEF IInv, MetadataFollows
    <2>5. meta.rows \/ metaFile'.rows => events # {}
        BY <2>2 DEF IInv, MetadataFollows
    <2> QED
        BY <1>1, <1>4, <2>1, <2>3, <2>4, <2>5 DEF MetadataFollows
<1>10. TailHeld' /\ FilesWhole'
    BY <1>1, <1>4, <1>5 DEF IInv, TailHeld, FilesWhole, Behind
<1>11. Dated'
    <2>1. metaFile' = metaFile \/ metaFile' = meta'
        BY <1>1
    <2> QED
        BY <1>1, <1>4, <2>1 DEF IInv, Dated, Idle
<1> QED
    BY <1>6, <1>7, <1>8, <1>9, <1>10, <1>11 DEF IInv

\* An interrupted save.
LEMMA SaveFailsStep ==
    ASSUME IInv, SaveFails
    PROVE  IInv'
<1>1. /\ job.step = "save" /\ job' = Idle
      /\ left > 0 /\ left' = left - 1
      /\ exposed' = exposed \cup Unwritten
      /\ UNCHANGED <<now, ledger, need, events, files, meta, metaFile>>
    BY DEF SaveFails, Disturbed
<1>2. /\ Unwritten \subseteq ledger
      /\ ~ Hyperliquid => Unwritten = job.got \ files
    BY <1>1, OutrunIs DEF Unwritten, IInv, TypeOK
<1>3. Claimed' = Claimed \ Unwritten
    BY <1>1 DEF Claimed
<1>4. /\ RefreshAsked' /\ AnswerWhole' /\ AnswerStored' /\ job' \in Jobs
      /\ job'.got \subseteq ledger
    BY <1>1, Stopped DEF IInv
<1>5. TypeOK'
    BY <1>1, <1>2, <1>4, HistoryAssumption DEF IInv, TypeOK
<1>6. InThePast' /\ MetadataFollows' /\ TailHeld' /\ Dated'
    BY <1>1, <1>3 DEF IInv, InThePast, MetadataFollows, TailHeld, Dated, Idle
<1>7. FilesWhole'
    BY <1>1, <1>2, <1>3 DEF IInv, FilesWhole
<1> QED
    BY <1>4, <1>5, <1>6, <1>7 DEF IInv

\* A crash: the files and the metadata on disk are all that is left.
LEMMA RestartStep ==
    ASSUME IInv, Restart
    PROVE  IInv'
<1>1. /\ job' = Idle /\ left > 0 /\ left' = left - 1
      /\ events' = files /\ metaFile' = meta'
      /\ meta' = [metaFile EXCEPT !.rows = @ \/ files # {}]
      /\ exposed' = exposed \cup Unwritten
      /\ UNCHANGED <<now, ledger, need, files>>
    BY DEF Restart, Disturbed
<1>2. meta'.rows = (metaFile.rows \/ files # {})
    BY <1>1 DEF IInv, TypeOK, Metadata
<1>3. /\ meta' \in Metadata
      /\ meta'.scope = metaFile.scope /\ meta'.covered = metaFile.covered
      /\ meta'.last = metaFile.last /\ meta'.gaps = metaFile.gaps
    <2> DEFINE r == metaFile.rows \/ files # {}
    <2>1. r \in BOOLEAN
        OBVIOUS
    <2>2. meta' = [metaFile EXCEPT !.rows = r]
        BY <1>1 DEF IInv, TypeOK, Metadata
    <2> HIDE DEF r
    <2> QED
        BY <2>1, <2>2 DEF IInv, TypeOK, Metadata
<1>4. /\ Unwritten \subseteq ledger
      /\ ~ Hyperliquid =>
            \A f \in job.got : job.step = "save" /\ f \notin files => f \in Unwritten
    BY OutrunIs DEF IInv, TypeOK, Unwritten
<1>5. Claimed' \subseteq Claimed \ Unwritten
    BY <1>1, <1>3 DEF Claimed, Vouches
<1>6. /\ RefreshAsked' /\ AnswerWhole' /\ AnswerStored' /\ job' \in Jobs
      /\ job'.got \subseteq ledger
    BY <1>1, Stopped DEF IInv
<1>7. TypeOK'
    BY <1>1, <1>3, <1>4, <1>6, HistoryAssumption DEF IInv, TypeOK
<1>8. InThePast'
    BY <1>1, <1>3, Numbers DEF IInv, InThePast
<1>9. MetadataFollows'
    <2>1. meta'.rows => files # {}
        BY <1>2 DEF IInv, InThePast, MetadataFollows
    <2>2. \A t \in meta'.gaps : \E e \in files : e >= t
        BY <1>3 DEF IInv, InThePast, MetadataFollows
    <2>3. metaFile' = meta' /\ events' = files
        BY <1>1
    <2>4. meta'.covered > 0 => 0 < meta'.covered /\ meta'.covered <= meta'.covered
        BY <1>3, Numbers DEF IInv
    <2> QED
        BY <2>1, <2>2, <2>3, <2>4 DEF MetadataFollows
<1>10. TailHeld'
    <2> SUFFICES ASSUME NEW f \in Claimed', Behind(meta', files, f + 1)
                 PROVE  f \in files
        BY <1>1 DEF TailHeld
    <2>1. f \in Claimed /\ f \notin Unwritten /\ f \in Nat
        BY <1>5, Numbers DEF Claimed, IInv
    <2>2. CASE ~ Hyperliquid /\ \E e \in files : e >= f + 1
        <3>1. \E e \in files : e > f
            BY <2>1, <2>2, Numbers DEF IInv
        <3> QED
            BY <1>4, <2>1, <2>2, <3>1 DEF IInv, FilesWhole
    <2>3. CASE f + 1 <= meta'.last - RecentOverlap
        <3>1. f + 1 <= meta.last - RecentOverlap
            BY <1>3, <2>1, <2>3, Numbers DEF IInv, InThePast
        <3> QED
            BY <2>1, <3>1 DEF IInv, TailHeld, Behind, InThePast
    <2> QED
        BY <2>2, <2>3 DEF Behind
<1>11. FilesWhole'
    BY <1>1, <1>4, <1>5 DEF IInv, FilesWhole
<1>12. Dated'
    BY <1>1, <1>3 DEF IInv, Dated, Idle
<1> QED
    BY <1>6, <1>7, <1>8, <1>9, <1>10, <1>11, <1>12 DEF IInv

\* The whole window, or all history, was read.
LEMMA CoverStep ==
    ASSUME IInv, Cover
    PROVE  IInv'
<1>1. /\ job.step = "cover" /\ job' = Idle
      /\ UNCHANGED <<now, ledger, need, events, files, exposed>>
      /\ metaFile' \in {metaFile, meta'}
      /\ left' \in 0..MaxDisturbances
    BY HistoryAssumption DEF Cover, Disturbed, IInv, TypeOK
<1>2. job.task \in {"window", "full"} /\ job.got \subseteq events /\ job.until = Open
    BY <1>1 DEF IInv, AnswerStored, RefreshAsked, Asked
<1>3. /\ meta' \in Metadata /\ meta'.gaps = meta.gaps /\ meta'.rows = meta.rows
      /\ meta.last <= meta'.last /\ meta'.last <= now
      /\ \/ /\ job.from = 0 /\ meta'.scope = "all" /\ meta'.covered = meta.covered
         \/ /\ 0 < job.from /\ meta.scope # "all" /\ meta'.scope = "window"
            /\ meta'.covered = job.from /\ (meta.covered = 0 \/ job.from < meta.covered)
    <2>1. CASE job.task = "full"
        <3>1. meta' = [meta EXCEPT !.scope = "all"] /\ job.from = 0
            BY <2>1 DEF Cover, IInv, RefreshAsked, Asked
        <3> QED
            BY <3>1, Numbers DEF IInv, TypeOK, InThePast, Metadata
    <2>2. CASE job.task = "window"
        <3>1. /\ 0 < job.from /\ meta.scope # "all"
              /\ meta.covered = 0 \/ job.from < meta.covered
            BY <2>2 DEF IInv, RefreshAsked, Asked
        <3>2. meta' = [meta EXCEPT !.covered = job.from, !.last = now, !.scope = "window"]
            BY <2>2, <3>1 DEF Cover, IInv, TypeOK, Metadata
        <3>3. job.from \in 0..MaxTime /\ now \in 0..MaxTime
            BY Numbers DEF IInv, TypeOK, Jobs
        <3>4. /\ meta' \in Metadata /\ meta'.gaps = meta.gaps /\ meta'.rows = meta.rows
              /\ meta'.last = now /\ meta'.scope = "window" /\ meta'.covered = job.from
            BY <3>2, <3>3 DEF IInv, TypeOK, Metadata
        <3>5. meta.last <= now /\ now <= now
            BY Numbers DEF IInv, InThePast
        <3> QED
            BY <3>1, <3>4, <3>5
    <2> QED
        BY <1>2, <2>1, <2>2
<1>4. /\ job' \in Jobs /\ job'.got \subseteq ledger
      /\ RefreshAsked' /\ AnswerWhole' /\ AnswerStored'
    BY <1>1, Stopped DEF IInv
<1>5. TypeOK'
    BY <1>1, <1>3, <1>4 DEF IInv, TypeOK
<1>6. InThePast'
    <2>1. meta'.last \in Nat /\ metaFile'.last \in {metaFile.last, meta'.last}
        BY <1>1, <1>3, HistoryAssumption DEF Metadata
    <2>2. metaFile'.last <= meta'.last
        BY <1>3, <2>1, Numbers DEF IInv, InThePast
    <2> QED
        BY <1>1, <1>3, <2>2 DEF IInv, InThePast
<1>7. MetadataFollows'
    <2>1. metaFile'.scope = "all" => meta'.scope = "all"
        BY <1>1, <1>3 DEF IInv, MetadataFollows
    <2>2. metaFile'.covered > 0 => 0 < meta'.covered /\ meta'.covered <= metaFile'.covered
        BY <1>1, <1>3, Numbers DEF IInv, MetadataFollows
    <2>3. /\ meta'.rows \/ metaFile'.rows => events # {}
          /\ \A t \in meta'.gaps \cup metaFile'.gaps : \E e \in events : e >= t
        BY <1>1, <1>3 DEF IInv, MetadataFollows
    <2> QED
        BY <1>1, <2>1, <2>2, <2>3 DEF MetadataFollows
<1>8. Dated'
    <2>1. metaFile' = metaFile \/ metaFile' = meta'
        BY <1>1
    <2>2. meta'.last > 0
        BY <1>1, <1>3, Numbers, HistoryAssumption DEF IInv, Dated, Metadata
    <2> QED
        BY <1>1, <2>1, <2>2 DEF IInv, Dated, Idle
<1>9. ASSUME NEW f \in Claimed', f \notin events
      PROVE  /\ job.at <= f \/ job.at - Lag < f
             /\ ~ Hyperliquid => \A g \in files : ~ (g > f)
    <2>1. f \in ledger \ exposed /\ (Vouches(meta', f) \/ Vouches(metaFile, f))
        BY <1>1 DEF Claimed
    <2>2. f < job.from => Vouches(meta, f) \/ Vouches(metaFile, f)
        BY <1>3, <2>1, Numbers DEF IInv, Vouches
    <2>3. f < job.from => FALSE
        BY <1>1, <1>2, <1>9, <2>1, <2>2 DEF IInv, AnswerWhole, Claimed
    <2>4. f <= job.until
        BY <1>2, <2>1, Numbers DEF IInv, Open
    <2>5. Within(f)
        BY <2>1, <2>3, <2>4, Numbers DEF IInv, Within
    <2>6. f \notin job.got
        BY <1>2, <1>9
    <2>7. job.at <= f \/ job.at - Lag < f
        BY <1>1, <2>1, <2>5, <2>6, Numbers DEF IInv, AnswerWhole
    <2> QED
        BY <1>1, <1>9, <2>1, <2>5, <2>6, <2>7 DEF IInv, AnswerWhole
<1>10. TailHeld'
    <2> SUFFICES ASSUME NEW f \in Claimed', Behind(meta', events, f + 1), f \notin events
                 PROVE  FALSE
        BY <1>1 DEF TailHeld
    <2>1. f \in Nat /\ (job.at <= f \/ job.at - Lag < f)
        BY <1>1, <1>9, Numbers DEF Claimed, IInv
    <2>2. ~ (f + 1 <= meta'.last - RecentOverlap)
        <3>1. meta'.last <= job.at + MaxSave /\ meta'.last \in Nat
            BY <1>1, <1>3, Numbers, HistoryAssumption DEF IInv, AnswerWhole, Metadata
        <3> QED
            BY <2>1, <3>1, Numbers DEF IInv
    <2>3. ~ (~ Hyperliquid /\ \E e \in events : e >= f + 1)
        <3>1. \A e \in events : e \in files /\ e \in Nat
            BY Numbers DEF IInv, InThePast
        <3> QED
            BY <1>9, <2>1, <3>1
    <2> QED
        BY <2>2, <2>3 DEF Behind
<1>11. FilesWhole'
    <2> SUFFICES ASSUME ~ Hyperliquid, NEW f \in Claimed', NEW e \in files, e > f
                 PROVE  f \in files
        BY <1>1 DEF FilesWhole
    <2> QED
        BY <1>9 DEF IInv, InThePast
<1> QED
    BY <1>4, <1>5, <1>6, <1>7, <1>10, <1>11, <1>8 DEF IInv

\* The metadata after a refresh.
LEMMA RefreshedIs ==
    ASSUME TypeOK, NEW evs, NEW m, m = Refreshed(meta, evs)
    PROVE  /\ m \in Metadata
           /\ m.scope = meta.scope /\ m.covered = meta.covered
           /\ m.last = IF job.until = Open THEN now ELSE meta.last
           /\ m.gaps = IF job.until = Open THEN meta.gaps
                       ELSE meta.gaps \ (job.from..(job.until - 1))
           /\ m.rows => evs # {} \/ meta.rows
<1> DEFINE r == evs # {} \/ (job.until # Open /\ meta.rows)
           n == IF job.until = Open THEN now ELSE meta.last
           g == IF job.until = Open THEN meta.gaps
                ELSE meta.gaps \ (job.from..(job.until - 1))
<1>1. r \in BOOLEAN /\ n \in 0..MaxTime /\ g \in SUBSET Times
    BY Numbers DEF TypeOK, Metadata
<1>2. m = [meta EXCEPT !.rows = r, !.last = n, !.gaps = g]
    BY DEF Refreshed, TypeOK, Metadata
<1> HIDE DEF n, g
<1>3. /\ m \in Metadata /\ m.scope = meta.scope /\ m.covered = meta.covered
      /\ m.last = n /\ m.gaps = g
    <2> HIDE DEF r
    <2> QED
        BY <1>1, <1>2 DEF TypeOK, Metadata
<1>4. m.rows = r
    <2> HIDE DEF r
    <2> QED
        BY <1>1, <1>2 DEF TypeOK, Metadata
<1> QED
    BY <1>3, <1>4 DEF n, g

\* The refresh that follows another one.
LEMMA Continues ==
    ASSUME IInv, NEW m, NEW evs, m \in Metadata, evs \subseteq ledger, evs # {} \/ ~ m.rows,
           job.step = "commit", m.last <= now, \A t \in m.gaps : \E e \in evs : e >= t,
           m.scope = meta.scope, m.covered = meta.covered,
           job.until = Open => m.gaps = meta.gaps, meta.last <= m.last,
           Continue(m, evs)
    PROVE  /\ job' \in Jobs /\ job'.got \subseteq ledger
           /\ Asked(job', m, evs, need, now)
           /\ \/ job'.step = "fetch"
              \/ job.task \in {"window", "full"} /\ job' = [job EXCEPT !.step = "cover"]
           /\ job.task = "tail" /\ Ready(m, evs, need) => job' = Idle
<1>1. /\ evs \subseteq Times /\ now \in Times /\ now \in Nat /\ need \in 0..MaxTime
      /\ \A e \in evs : e <= now
      /\ m.rows => evs # {}
    BY Numbers DEF IInv, TypeOK, InThePast
<1>2. Idle \in Jobs /\ Asked(Idle, m, evs, need, now) /\ Idle.step = "fetch"
    BY <1>1, NothingAsked DEF Idle
<1>3. ASSUME job'.step = "fetch", Asked(job', m, evs, need, now)
      PROVE  job'.got \subseteq ledger
    BY <1>3 DEF Asked
<1>4. CASE job.task = "gap"
    <2>1. 0 < need
        BY <1>4 DEF IInv, RefreshAsked, Asked
    <2>2. \/ Blocking(m, need) # {} /\ AskGap(m)
          \/ Blocking(m, need) = {} /\ Ask("tail", Anchor(evs), Open)
        BY <1>4 DEF Continue
    <2>3. CASE Blocking(m, need) # {} /\ AskGap(m)
        BY <1>1, <1>3, <1>4, <2>1, <2>3, GapAsked
    <2>4. CASE Blocking(m, need) = {} /\ Ask("tail", Anchor(evs), Open)
        BY <1>1, <1>3, <1>4, <2>1, <2>4, TailAsked
    <2> QED
        BY <2>2, <2>3, <2>4
<1>5. CASE job.task = "tail"
    <2>1. 0 < need /\ Blocking(meta, need) = {} /\ job.until = Open
        BY <1>5 DEF IInv, RefreshAsked, Asked
    <2>2. Blocking(m, need) = {}
        BY <2>1 DEF Blocking
    <2>3. AskRest(m, evs)
        BY <1>5 DEF Continue
    <2>4. CASE Ready(m, evs, need)
        BY <1>2, <1>3, <1>5, <2>3, <2>4 DEF AskRest
    <2>5. CASE ~ Ready(m, evs, need)
        <3>1. Ask("window", need, Open)
            BY <2>3, <2>5 DEF AskRest
        <3> QED
            BY <1>1, <1>3, <1>5, <2>1, <2>2, <2>5, <3>1, WindowAsked
    <2> QED
        BY <2>4, <2>5
<1>6. CASE job.task = "repair"
    <2>1. AskTail(m, evs)
        BY <1>6 DEF Continue
    <2>2. meta.last > 0 /\ m.last \in Nat
        BY <1>6, HistoryAssumption DEF IInv, RefreshAsked, Asked, Metadata
    <2>3. m.last > 0
        BY <2>2, Numbers DEF IInv
    <2> QED
        BY <1>1, <1>3, <1>6, <2>1, <2>3, TailAsked
<1>7. CASE job.task \in {"window", "full"}
    <2>1. job' = [job EXCEPT !.step = "cover"]
        BY <1>7 DEF Continue
    <2>2. /\ job'.task = job.task /\ job'.from = job.from /\ job'.until = job.until
          /\ job'.step = "cover" /\ job'.got = job.got /\ job' \in Jobs
        BY <2>1 DEF IInv, TypeOK, Jobs
    <2>3. Asked(job', m, evs, need, now)
        BY <1>7, <2>2 DEF IInv, RefreshAsked, Asked
    <2> QED
        BY <1>7, <2>1, <2>2, <2>3 DEF IInv, TypeOK
<1>8. CASE job.task \in {"none", "latest", "targeted"}
    <2>1. job' = Idle
        BY <1>8 DEF Continue
    <2> QED
        BY <1>2, <1>3, <1>8, <2>1
<1> QED
    BY <1>4, <1>5, <1>6, <1>7, <1>8 DEF IInv, TypeOK, Jobs

\* The fetched fills become the manager's.
LEMMA CommitStep ==
    ASSUME IInv, Commit
    PROVE  IInv'
<1>1. /\ job.step = "commit" /\ events' = events \cup job.got
      /\ exposed' = exposed \ events'
      /\ UNCHANGED <<now, ledger, need, files>>
    BY DEF Commit
<1> DEFINE m == Refreshed(meta, events')
<1>2. /\ m \in Metadata /\ m.scope = meta.scope /\ m.covered = meta.covered
      /\ m.last = IF job.until = Open THEN now ELSE meta.last
      /\ m.gaps = IF job.until = Open THEN meta.gaps
                  ELSE meta.gaps \ (job.from..(job.until - 1))
      /\ m.rows => events' # {} \/ meta.rows
    BY RefreshedIs DEF IInv
<1>3. \/ /\ meta' = Scoped(m, events') /\ metaFile' = meta' /\ Continue(m, events')
         /\ left' = left
      \/ meta' = m /\ metaFile' = metaFile /\ job' = Idle /\ left > 0 /\ left' = left - 1
    BY DEF Commit, Disturbed
<1> HIDE DEF m
<1>4. /\ events \subseteq events' /\ job.got \subseteq events'
      /\ events' \subseteq files /\ events' \subseteq ledger
    BY <1>1 DEF IInv, TypeOK, InThePast, AnswerStored
<1>5. /\ events' # {} \/ ~ m.rows
      /\ \A t \in m.gaps \cup meta.gaps \cup metaFile.gaps : \E e \in events' : e >= t
      /\ meta.last <= m.last /\ m.last <= now
    <2>1. events' # {} \/ ~ m.rows
        BY <1>2, <1>4 DEF IInv, MetadataFollows
    <2>2. m.gaps \subseteq meta.gaps
        BY <1>2
    <2>3. \A t \in meta.gaps \cup metaFile.gaps : \E e \in events' : e >= t
        BY <1>4 DEF IInv, MetadataFollows
    <2>4. meta.last <= m.last /\ m.last <= now
        BY <1>2, Numbers DEF IInv, InThePast
    <2> QED
        BY <2>1, <2>2, <2>3, <2>4
<1>6. /\ job' \in Jobs /\ job'.got \subseteq ledger
      /\ Asked(job', m, events', need, now)
      /\ \/ job'.step = "fetch"
         \/ job.task \in {"window", "full"} /\ job' = [job EXCEPT !.step = "cover"]
      /\ job.task = "tail" /\ Ready(m, events', need) => job' = Idle
    <2>1. CASE Continue(m, events')
        BY <1>1, <1>2, <1>4, <1>5, <2>1, Continues
    <2>2. CASE job' = Idle
        <3>1. Idle \in Jobs /\ Asked(Idle, m, events', need, now)
            BY NothingAsked, Numbers DEF IInv
        <3> QED
            BY <2>2, <3>1 DEF Idle
    <2> QED
        BY <1>3, <2>1, <2>2
<1>7. /\ meta' \in Metadata /\ meta'.covered = m.covered /\ meta'.last = m.last
      /\ meta'.gaps = m.gaps /\ meta'.rows = m.rows
      /\ meta' = m \/ (meta'.scope = "window" /\ metaFile' = meta' /\ job' = Idle)
    <2>1. CASE meta' = m
        BY <1>2, <2>1
    <2>2. CASE meta' # m
        <3>1. /\ meta' = [m EXCEPT !.scope = "window"] /\ metaFile' = meta'
              /\ job.task = "tail" /\ Ready(m, events', need)
            BY <1>3, <2>2 DEF Scoped
        <3> QED
            BY <1>2, <1>6, <3>1 DEF Metadata
    <2> QED
        BY <2>1, <2>2
<1>8. metaFile' = meta' \/ (metaFile' = metaFile /\ meta' = m)
    BY <1>3
<1>9. TypeOK'
    BY <1>1, <1>3, <1>4, <1>6, <1>7, HistoryAssumption DEF IInv, TypeOK
<1>10. InThePast'
    <2>1. metaFile'.last <= meta'.last
        BY <1>2, <1>5, <1>7, <1>8, Numbers, HistoryAssumption DEF IInv, InThePast, Metadata
    <2> QED
        BY <1>1, <1>4, <1>5, <1>7, <2>1 DEF IInv, InThePast
<1>11. MetadataFollows'
    <2>1. metaFile'.scope = "all" => meta'.scope = "all"
        BY <1>2, <1>8 DEF IInv, MetadataFollows
    <2>2. metaFile'.covered > 0 => 0 < meta'.covered /\ meta'.covered <= metaFile'.covered
        BY <1>2, <1>7, <1>8, Numbers DEF IInv, MetadataFollows
    <2>3. meta'.rows \/ metaFile'.rows => events' # {}
        BY <1>4, <1>5, <1>7, <1>8 DEF IInv, MetadataFollows
    <2>4. \A t \in meta'.gaps \cup metaFile'.gaps : \E e \in events' : e >= t
        BY <1>5, <1>7, <1>8
    <2> QED
        BY <2>1, <2>2, <2>3, <2>4 DEF MetadataFollows
<1>12. RefreshAsked'
    <2>1. Asked(job', meta', events', need, now)
        <3>1. CASE meta' = m
            BY <1>6, <3>1
        <3>2. CASE job' = Idle
            BY <3>2, NothingAsked, Numbers DEF IInv
        <3> QED
            BY <1>7, <3>1, <3>2
    <2> QED
        BY <1>1, <2>1 DEF RefreshAsked
\* The answer is a read of its range up to the lag and to the newest fill held.
<1>13. ASSUME NEW f \in ledger, f \notin events', Within(f)
       PROVE  /\ job.at <= f \/ job.at - Lag < f
              /\ ~ Hyperliquid /\ f \notin exposed => \A g \in files : ~ (g > f)
    <2>1. f \notin events /\ f \notin job.got
        BY <1>4, <1>13
    <2>2. job.at <= f \/ job.at - Lag < f
        BY <1>1, <1>13, <2>1, Numbers DEF IInv, AnswerWhole
    <2> QED
        BY <1>1, <1>13, <2>1, <2>2 DEF IInv, AnswerWhole
<1>14. \A e \in events' \cup files : e \in files /\ e \in Nat
    BY <1>4, Numbers DEF IInv
<1>15. meta.last <= job.at /\ now <= job.at + MaxSave
    BY <1>1, Numbers DEF IInv, AnswerStored, AnswerWhole
<1>16. ASSUME NEW f \in Claimed', f \notin events'
       PROVE  /\ f \in ledger \ exposed /\ f \in Nat
              /\ \/ f \in Claimed
                 \/ job.until # Open /\ job.from <= f /\ f < job.until
    <2>1. f \in ledger \ exposed /\ (Vouches(meta', f) \/ Vouches(metaFile', f))
        BY <1>1, <1>16 DEF Claimed
    <2>2. Vouches(metaFile', f) => Vouches(meta', f) \/ Vouches(metaFile, f)
        BY <1>8
    <2>3. Vouches(meta', f) =>
            \/ Vouches(meta, f)
            \/ job.until # Open /\ job.from <= f /\ f < job.until
        <3>1. f \in Nat
            BY <2>1, Numbers DEF IInv
        <3>2. f \in meta.gaps /\ f \notin meta'.gaps =>
                job.until # Open /\ job.from <= f /\ f < job.until
            BY <1>2, <1>7, <3>1, Numbers DEF IInv
        <3>3. meta'.scope = "all" => meta.scope = "all"
            BY <1>2, <1>7
        <3> QED
            BY <1>2, <1>7, <3>2, <3>3 DEF Vouches
    <2> QED
        BY <2>1, <2>2, <2>3, Numbers DEF IInv, Claimed
<1>17. TailHeld'
    <2> SUFFICES ASSUME NEW f \in Claimed', Behind(meta', events', f + 1), f \notin events'
                 PROVE  FALSE
        BY DEF TailHeld
    <2>1. f \in ledger \ exposed /\ f \in Nat
        BY <1>16
    <2>2. /\ meta'.last \in {now, meta.last}
          /\ job.until # Open => meta'.last = meta.last
        BY <1>2, <1>7
\* Of its range the refresh has whatever lies behind the tail.
    <2>3. Within(f) => FALSE
        <3> SUFFICES ASSUME Within(f) PROVE FALSE
            OBVIOUS
        <3>1. job.at <= f \/ job.at - Lag < f
            BY <1>13, <2>1
        <3>2. ~ (f + 1 <= meta'.last - RecentOverlap)
            BY <1>15, <2>1, <2>2, <3>1, Numbers DEF IInv
        <3>3. ~ Hyperliquid => \A g \in files : ~ (g > f)
            BY <1>13, <2>1
        <3> QED
            BY <1>14, <2>1, <3>2, <3>3 DEF Behind
    <2>4. f \in Claimed
        BY <1>16, <2>3, Numbers DEF IInv, Within
    <2>5. /\ ~ Behind(meta, events, f + 1)
          /\ ~ Hyperliquid \/ job.until = Open => ~ (f < job.from)
        BY <1>1, <1>4, <2>4 DEF IInv, TailHeld, AnswerWhole
    <2>6. job.until # Open
        <3>1. job.until = Open => Within(f)
            BY <2>1, <2>5, Numbers DEF IInv, Within, Open
        <3> QED
            BY <2>3, <3>1
    <2>7. ~ Hyperliquid /\ \E e \in events' : e >= f + 1
        BY <2>2, <2>5, <2>6 DEF Behind
    <2>8. PICK e \in events' : e >= f + 1
        BY <2>7
    <2>9. e \in job.got
        BY <1>1, <2>5, <2>7, <2>8 DEF Behind
    <2>10. e <= job.until /\ e \in Nat
        BY <1>1, <1>14, <2>9 DEF IInv, AnswerWhole, Within
    <2>11. Within(f)
        BY <2>1, <2>5, <2>7, <2>8, <2>10, Numbers DEF IInv, Within
    <2> QED
        BY <2>3, <2>11
<1>18. FilesWhole'
    <2> SUFFICES ASSUME ~ Hyperliquid, NEW f \in Claimed', NEW e \in files, e > f,
                        f \notin files
                 PROVE  FALSE
        BY <1>1 DEF FilesWhole
    <2>0. f \notin events'
        BY <1>4
    <2>1. f \in ledger \ exposed /\ f \in Nat
        BY <1>16, <2>0
    <2>2. f \notin Claimed
        BY <1>1 DEF IInv, FilesWhole
    <2>3. Within(f)
        BY <1>16, <2>0, <2>1, <2>2, Numbers DEF IInv, Within
    <2> QED
        BY <1>13, <2>0, <2>1, <2>3
<1>19. AnswerWhole' /\ AnswerStored'
    <2>1. CASE job'.step = "fetch"
        BY <2>1, NoAnswer
    <2>2. CASE job.task \in {"window", "full"} /\ job' = [job EXCEPT !.step = "cover"]
        <3>1. /\ job'.from = job.from /\ job'.until = job.until /\ job'.got = job.got
              /\ job'.at = job.at /\ job'.step = "cover" /\ job'.task = job.task
            BY <2>2 DEF IInv, TypeOK, Jobs
        <3>2. job.until = Open
            BY <2>2 DEF IInv, RefreshAsked, Asked
        <3>3. \A f \in Claimed' : f < job.from => f \in events'
            BY <1>1, <1>4, <1>16, <3>2 DEF IInv, AnswerWhole
        <3>4. AnswerWhole'
            <4>1. \A f : Within(f)' = Within(f)
                BY <3>1 DEF Within
            <4>2. ~ Hyperliquid => \A f \in ledger \ exposed' :
                      Within(f) /\ (\E g \in files \cup job.got : g > f)
                          => f \in events' \cup job.got
                BY <1>1, <1>4 DEF IInv, AnswerWhole
            <4>3. /\ job.at <= now /\ now <= job.at + MaxSave
                  /\ \A f \in files \cup job.got : f <= job.at
                  /\ \A f \in ledger :
                        Within(f) /\ f < job.at /\ f <= job.at - Lag => f \in job.got
                  /\ \A f \in job.got : Within(f)
                BY <1>1 DEF IInv, AnswerWhole
            <4> QED
                BY <1>1, <3>1, <3>3, <4>1, <4>2, <4>3 DEF AnswerWhole
        <3>5. AnswerStored'
            BY <1>4, <2>2, <3>1 DEF AnswerStored
        <3> QED
            BY <3>4, <3>5
    <2> QED
        BY <1>6, <2>1, <2>2
<1>20. Dated'
    <2>1. meta.last <= meta'.last /\ meta'.last \in Nat
        BY <1>5, <1>7, HistoryAssumption DEF Metadata
    <2>2. meta'.scope = "all" \/ meta'.covered > 0 => meta'.last > 0
        <3>1. /\ meta'.scope = "all" => meta.scope = "all"
              /\ meta'.covered = meta.covered
            BY <1>2, <1>7
        <3> QED
            BY <2>1, <3>1, Numbers DEF IInv, Dated
    <2>3. metaFile'.scope = "all" \/ metaFile'.covered > 0 => metaFile'.last > 0
        BY <1>8, <2>2 DEF IInv, Dated
    <2>4. job'.step = "cover" => meta'.last > 0
        <3> SUFFICES ASSUME job'.step = "cover" PROVE meta'.last > 0
            OBVIOUS
        <3>1. job.until = Open
            BY <1>6 DEF IInv, RefreshAsked, Asked
        <3>2. now > 0
            BY HistoryAssumption DEF IInv, TypeOK, Times
        <3> QED
            BY <1>2, <1>7, <3>1, <3>2
    <2> QED
        BY <2>2, <2>3, <2>4 DEF Dated
<1> QED
    BY <1>9, <1>10, <1>11, <1>12, <1>17, <1>18, <1>19, <1>20 DEF IInv

\* Every step, whoever takes it, keeps the invariant.
LEMMA NextStep ==
    ASSUME IInv, [Next]_vars
    PROVE  IInv'
<1>1. CASE Refresh
    BY <1>1, AnswerStep, SaveStep, CommitStep, CoverStep DEF Refresh
<1>2. CASE Update
    BY <1>2, UpdateStep
<1>3. CASE FetchFails \/ SaveFails \/ Restart
    BY <1>3, FetchFailsStep, SaveFailsStep, RestartStep
<1>4. CASE Fill \/ Tick
    BY <1>4, FillStep, TickStep
<1>5. CASE CalmDown \/ Require \/ UNCHANGED vars
    BY <1>5, CalmStep
<1> QED
    BY <1>1, <1>2, <1>3, <1>4, <1>5 DEF Next

\* The empty cache.
LEMMA InitIInv ==
    ASSUME Init
    PROVE  IInv
<1>1. /\ now = 1 /\ ledger = {} /\ need \in Starts /\ events = {} /\ files = {}
      /\ meta = NoMetadata /\ metaFile = NoMetadata /\ job = Idle /\ exposed = {}
      /\ left = MaxDisturbances
    BY DEF Init
<1>2. /\ 1 \in Times /\ 1 \in Nat /\ 0 <= 1 /\ 0 \in 0..MaxTime
      /\ MaxDisturbances \in 0..MaxDisturbances
    BY HistoryAssumption DEF Times
<1>3. RefreshAsked /\ job \in Jobs /\ job.got = {} /\ job.step = "fetch"
    BY <1>1, <1>2, NothingAsked DEF RefreshAsked, Idle
<1>4. /\ meta \in Metadata /\ meta.covered = 0 /\ meta.scope = "unknown"
      /\ meta.gaps = {} /\ meta.last = 0 /\ meta.rows = FALSE
    BY <1>1, <1>2 DEF NoMetadata, Metadata
<1>5. TypeOK
    BY <1>1, <1>2, <1>3, <1>4 DEF TypeOK
<1>6. InThePast /\ MetadataFollows
    BY <1>1, <1>2, <1>4 DEF InThePast, MetadataFollows
<1>7. AnswerWhole /\ AnswerStored
    BY <1>3 DEF AnswerWhole, AnswerStored
<1>8. TailHeld /\ FilesWhole
    BY <1>1 DEF TailHeld, FilesWhole, Claimed
<1>9. Dated
    BY <1>1, <1>3, <1>4 DEF Dated
<1> QED
    BY <1>3, <1>5, <1>6, <1>7, <1>8, <1>9 DEF IInv

LEMMA Inductive == Spec => []IInv
<1>1. Init => IInv
    BY InitIInv
<1>2. IInv /\ [Next]_vars => IInv'
    BY NextStep
<1> QED
    BY <1>1, <1>2, PTL DEF Spec

-----------------------------------------------------------------------------
(* The theorems.                                                            *)

\* Every answer, save, failure and restart leaves the cache, its files and its metadata
\* well typed: fills of the account only, at times the clock has shown.
THEOREM StateTypes == Spec => []TypeOK
<1>1. IInv => TypeOK
    BY DEF IInv
<1> QED
    BY <1>1, Inductive, PTL

\* What the next incremental refresh will not ask for lies behind the tail.
LEMMA BehindStart ==
    ASSUME IInv, meta.last > 0, NEW f \in ledger, f < LatestStart(meta, events)
    PROVE  Behind(meta, events, f + 1)
<1>1. /\ LatestStart(meta, events) \in 0..MaxTime
      /\ LatestStart(meta, events) = 0 \/ Behind(meta, events, LatestStart(meta, events))
    <2>1. /\ meta \in Metadata /\ events \subseteq Times /\ now \in Nat
          /\ \A e \in events : e <= now
          /\ meta.last <= now
        BY Numbers DEF IInv, TypeOK, InThePast
    <2>2. /\ LatestStart(meta, events) \in 0..MaxTime
          /\ \/ Hyperliquid /\ meta.last = 0
             \/ LatestStart(meta, events) = 0
             \/ Behind(meta, events, LatestStart(meta, events))
        BY <2>1, LatestStartBehind
    <2> QED
        BY <2>2
<1> DEFINE s == LatestStart(meta, events)
<1>2. s \in Nat /\ f \in Nat /\ f + 1 <= s
    BY <1>1, Numbers DEF IInv
<1>3. Behind(meta, events, s)
    BY <1>1, <1>2
<1> HIDE DEF s
<1>4. \A e \in events : e >= s => e >= f + 1
    <2>1. \A e \in events : e \in Nat
        BY Numbers DEF IInv
    <2> QED
        BY <1>2, <2>1
<1>5. s <= meta.last - RecentOverlap => f + 1 <= meta.last - RecentOverlap
    BY <1>2, Numbers DEF IInv
<1> QED
    BY <1>3, <1>4, <1>5 DEF Behind

\* The invariant holds the cache to its promise, the exposed fills apart.
LEMMA HeldBehindStart ==
    ASSUME IInv
    PROVE  NothingSkipped
<1> SUFFICES ASSUME NEW f \in Vouched \ events, f \notin exposed PROVE FALSE
    BY DEF NothingSkipped
<1>1. /\ Ready(meta, events, need) /\ f \in ledger \ exposed
      /\ f >= need /\ f < LatestStart(meta, events)
    BY DEF Vouched
<1>2. Vouches(meta, f)
    BY <1>1, Numbers DEF IInv, Ready, Blocking, Vouches
<1>3. Behind(meta, events, f + 1)
    <2>1. meta.last > 0
        BY <1>1 DEF Ready, IInv, Dated
    <2> QED
        BY <1>1, <2>1, BehindStart
<1> QED
    BY <1>1, <1>2, <1>3 DEF IInv, TailHeld, Claimed

\* get_coverage_status with refresh_latest: a fill that the cache vouches for, lacks and
\* will not ask for was passed over by a refresh that moved last_refresh_ms, left out of
\* the files by an interrupted save or the rewrite of a day file, or shown by the exchange
\* after a newer one.  No failed request, gap retry, repair, full disk at the metadata,
\* crash or change of the requirement makes such a hole otherwise.
THEOREM NoHoleBehindTail == Spec => []NothingSkipped
<1>1. IInv => NothingSkipped
    BY HeldBehindStart
<1> QED
    BY <1>1, Inductive, PTL

\* Every step is one of the ledger's, or none.
LEMMA LedgerStep ==
    ASSUME IInv, IInv', NothingSkipped', [Next]_vars
    PROVE  [Ledger!Next]_<<ledger, events, Vouched \ exposed>>
<1>1. CASE Fill
    <2>1. /\ ledger' = ledger \cup {now}
          /\ UNCHANGED <<now, need, events, files, meta, metaFile, exposed>>
        BY <1>1 DEF Fill
    <2>2. /\ LatestStart(meta, events) \in 0..MaxTime
          /\ LatestStart(meta, events) <= now
        <3>1. /\ meta \in Metadata /\ events \subseteq Times /\ now \in Nat
              /\ \A e \in events : e <= now
              /\ meta.last <= now
            BY Numbers DEF IInv, TypeOK, InThePast
        <3> QED
            BY <3>1, LatestStartBehind
    <2>3. ~ (now < LatestStart(meta, events))
        BY <2>2, Numbers DEF IInv
    <2>4. /\ LatestStart(meta, events)' = LatestStart(meta, events)
          /\ Ready(meta, events, need)' = Ready(meta, events, need)
        BY <2>1 DEF LatestStart, Anchor, Ready, Blocking
    <2>5. (Vouched \ exposed)' = Vouched \ exposed
        BY <2>1, <2>3, <2>4 DEF Vouched
    <2> QED
        BY <2>1, <2>5 DEF Ledger!Next, Ledger!Trade, IInv, TypeOK
<1>2. CASE ~ Fill
    <2>1. ledger' = ledger
        BY <1>2 DEF Next, Refresh, Update, UpdateProved, UpdateUnproved, FetchAnswered,
                    SaveDay, Commit, Cover, FetchFails, SaveFails, Restart, Tick, Require,
                    CalmDown, vars
    <2>2. events \subseteq events'
        BY <1>2 DEF Next, Refresh, Update, UpdateProved, UpdateUnproved, FetchAnswered,
                    SaveDay, Commit, Cover, FetchFails, SaveFails, Restart, Tick, Require,
                    CalmDown, vars, IInv, InThePast
    <2>3. (Vouched \ exposed)' \subseteq events'
        BY DEF NothingSkipped
    <2>4. events' \subseteq ledger
        BY <2>1 DEF IInv, TypeOK
    <2> QED
        BY <2>1, <2>2, <2>3, <2>4 DEF Ledger!Next, Ledger!Vouch
<1> QED
    BY <1>1, <1>2

\* FillEventsManager implements the ledger: over failed fetches, half-written saves and
\* restarts it never unlearns a fill, and vouches only for what it holds, the exposed
\* fills apart.
THEOREM ImplementsLedger == Spec => KeepsLedger
<1>1. Init => Ledger!Init
    BY DEF Init, Ledger!Init, Vouched
<1>2. IInv /\ IInv' /\ NothingSkipped' /\ [Next]_vars =>
        [Ledger!Next]_<<ledger, events, Vouched \ exposed>>
    BY LedgerStep
<1> QED
    BY <1>1, <1>2, Inductive, NoHoleBehindTail, PTL DEF Spec, KeepsLedger, Ledger!Spec
=============================================================================
