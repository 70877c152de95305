---------------------- MODULE AuthoritativeStateProofs ----------------------
(***************************************************************************)
(* What the account-state refresh guarantees in every behaviour, with the   *)
(* hourly maintenance refresh beside the loop: no request to read a surface *)
(* again is lost, and the barrier opens on confirmed and explained state    *)
(* only, unless the two refreshes overlapped.                               *)
(*                                                                         *)
(* UnreadIsPending alone is not inductive.  The barrier clears a pending    *)
(* confirmation on the stamp of a surface, so a stamp must stand for a read *)
(* that is young enough.  While the refreshes overlap it need not, and all  *)
(* that is left is that such a surface is suspect (OverlapStamps).  Alone   *)
(* says what holds of the loop's refresh without the other.  There a stamp  *)
(* stands for a young read (StampsAreCurrent, from ReadsAreCurrent), but    *)
(* not for fills: a prefetch begun before the request may stamp them.  A    *)
(* staged refresh that awaits fills plans them, and holds off every         *)
(* prefetch (StagedFills, LockOrder).  Halted protection does not plan      *)
(* them: there the barrier stays closed because the balance, which it does  *)
(* not read either, is awaited too (HaltedWaits).                           *)
(***************************************************************************)
EXTENDS AuthoritativeState, TLAPS

-----------------------------------------------------------------------------
(* The inductive invariant.                                                 *)

\* In the middle of a cycle; while the loop's refresh runs; after its commit and before
\* the barrier.
InCycle == phase \notin {"idle", "ready"}
Reading == phase \in {"fetch", "applied", "committed"}
Decided == phase \in {"settled", "guard", "tail", "again", "gate"}

\* Where each refresh can be, what it planned, and who may be in the lock's queue.
Control ==
    /\ phase \in {"settled", "guard"} => owner = "staged"
    /\ phase \in {"tail", "again"} => owner = "halted"
    /\ phase = "gate" => owner # "early"
    /\ phase \notin {"fetch", "tail"} => fillTask["loop"] = "none"
    /\ phase = "fetch" => "open_orders" \in plan["loop"]
    /\ Reading /\ owner \in {"halted", "again"} =>
          plan["loop"] = {"positions", "open_orders"}
    /\ Reading /\ owner = "early" => "fills" \notin plan["loop"]
    /\ phase = "fetch" /\ fillTask["loop"] # "none" => "fills" \in plan["loop"]
    /\ hourly # "fetch" => fillTask["hourly"] = "none"
    /\ hourly = "fetch" /\ fillTask["hourly"] # "none" => "fills" \in plan["hourly"]
    /\ fillTask["prefetch"] # "done"

\* asyncio.Lock: of two callers one asked first, and who holds it has nobody before it.
LockQueue ==
    /\ \A a, b \in Callers : a \in before[b] => fillTask[a] \in {"wait", "run"}
    /\ \A a, b \in Queued : a = b \/ a \in before[b] \/ b \in before[a]
    /\ \A a \in Callers : fillTask[a] = "run" => before[a] = {}

\* A prefetch that began before the last request for fills, which nothing has answered.
LatePrefetch ==
    fillTask["prefetch"] = "run" /\ "fills" \notin flight["prefetch"] =>
        /\ "fills" \notin reread
        /\ "fills" \in next \/ "fills" \in due \ fresh

\* While the maintenance refresh is about, a stamp is either young enough or suspect.
OverlapStamps ==
    /\ hourly # "idle" => overlap
    /\ overlap => fresh \ next \subseteq reread \cup suspect

\* Requests made since the running refresh began concern the whole account, but for the
\* fills of a trailing position; these alone remain only if the refresh explained them.
RequestShape ==
    InCycle =>
        \/ next = {}
        \/ next = Surfaces
        \/ /\ next = {"fills"}
           /\ \/ phase = "committed" /\ "positions" \in changed
              \/ phase # "committed" /\ Decided /\ owner = "staged" /\ "fills" \in planned

\* The refresh's reads are younger than every request that does not await the next one.
ReadsAreCurrent ==
    /\ phase = "fetch" => planned \ {"fills"} \subseteq flight["loop"] \cup next
    /\ phase = "applied" =>
          planned \cap {"positions", "balance"} \subseteq flight["loop"] \cup next
    /\ fillTask["loop"] = "run" => "fills" \in flight["loop"] \cup next

\* What was stamped in this epoch, other than fills, was read after its last request.
StampsAreCurrent == (fresh \ {"fills"}) \ next \subseteq reread

\* The loop asks for the lock after every prefetch.
LockOrder ==
    fillTask["loop"] \in {"wait", "run"} /\ fillTask["prefetch"] # "none" =>
        "prefetch" \in before["loop"]

\* An awaited fill refresh is part of the plan, and its result is not overwritten.
StagedFills ==
    /\ InCycle /\ owner = "staged" /\ "fills" \in due => "fills" \in planned
    /\ fillTask["loop"] = "run" => fillTask["prefetch"] = "none"
    /\ \/ phase = "fetch" /\ fillTask["loop"] = "done"
       \/ phase \notin {"idle", "ready", "fetch"} /\ owner = "staged" /\ "fills" \in planned
       => fillTask["prefetch"] = "none" /\ "fills" \in reread \cup next

\* Halted protection does not read the balance, and where a late prefetch may stamp
\* awaited fills, the balance is awaited with them.
HaltedWaits ==
    InCycle /\ owner \in {"halted", "again"} =>
        /\ "balance" \notin fresh
        /\ "fills" \in pending \ reread /\ (fillTask["prefetch"] # "none" \/ "fills" \in fresh)
           => "balance" \in pending \/ (phase = "committed" /\ "positions" \in changed)

\* A position change that no fill explains asks for the whole account.
ChangesExplained ==
    /\ phase = "fetch" => "positions" \notin fresh
    /\ Decided /\ "positions" \in changed => "fills" \in changed \/ next = Surfaces

\* What holds while no maintenance refresh has met the loop's.
Alone ==
    /\ Reading => planned = plan["loop"]
    /\ RequestShape
    /\ ReadsAreCurrent
    /\ StampsAreCurrent
    /\ LockOrder
    /\ StagedFills
    /\ HaltedWaits
    /\ ChangesExplained

IInv ==
    /\ TypeOK
    /\ LockQueue
    /\ Control
    /\ LatePrefetch
    /\ OverlapStamps
    /\ UnreadIsPending
    /\ ReadyPositionsExplained
    /\ ~ overlap => Alone

-----------------------------------------------------------------------------
(* Types.                                                                   *)

\* The types of the lock's variables; nobody enters it here.
LockTypes ==
    /\ fillTask \in [Callers -> FillTasks]
    /\ before \in [Callers -> SUBSET Callers]
    /\ \A a, b \in Callers : fillTask[a] = "run" /\ fillTask[b] = "run" => a = b

\* The other variables.
LoopTypes ==
    /\ planned \in SUBSET Surfaces /\ halted \in BOOLEAN
    /\ phase \in Phases /\ owner \in Owners /\ hourly \in Steps
    /\ plan \in [Callers -> SUBSET Surfaces]
    /\ moved \in BOOLEAN /\ calm \in BOOLEAN /\ overlap \in BOOLEAN
    /\ flight \in [Callers -> SUBSET Surfaces]

LEMMA AskTypes ==
    ASSUME TypeOK, NEW c \in Callers, Ask(c)
    PROVE  LockTypes'
<1>1. Queued \in SUBSET Callers
    BY DEF Queued
<1>2. fillTask' \in [Callers -> FillTasks] /\ before' \in [Callers -> SUBSET Callers]
    BY <1>1 DEF Ask, TypeOK, FillTasks
<1>3. \A a \in Callers : fillTask'[a] = "run" => fillTask[a] = "run"
    BY DEF Ask, TypeOK
<1> QED
    BY <1>2, <1>3 DEF LockTypes, TypeOK

LEMMA LeaveTypes ==
    ASSUME TypeOK, NEW c \in Callers, NEW outcome \in {"none", "done"}, Leave(c, outcome)
    PROVE  LockTypes'
<1>1. fillTask' \in [Callers -> FillTasks] /\ before' \in [Callers -> SUBSET Callers]
    BY DEF Leave, TypeOK, FillTasks
<1>2. \A a \in Callers : fillTask'[a] = "run" => fillTask[a] = "run"
    BY DEF Leave, TypeOK
<1> QED
    BY <1>1, <1>2 DEF LockTypes, TypeOK

\* The types of everything a commit or a request assigns.
AccountTypes ==
    /\ fresh \in SUBSET Surfaces
    /\ changed \in SUBSET (fresh \cap Compared)
    /\ seen \in SUBSET Compared
    /\ due \in SUBSET Surfaces
    /\ next \in SUBSET (Surfaces \ due)
    /\ reread \in SUBSET Surfaces
    /\ suspect \in SUBSET Surfaces

LEMMA CommitTypes ==
    ASSUME TypeOK, NEW who \in Callers, NEW S \in SUBSET Surfaces, NEW C \in Changes(S),
           NEW asked \in SUBSET Surfaces, Commit(who, S, C, asked)
    PROVE  AccountTypes'
<1>1. C \in SUBSET (S \cap Compared)
    BY DEF Changes
<1>2. (fresh \in SUBSET Surfaces /\ changed \in SUBSET (fresh \cap Compared)
       /\ seen \in SUBSET Compared)'
    BY <1>1 DEF Commit, Stamp, TypeOK
<1>3. (due \in SUBSET Surfaces /\ next \in SUBSET (Surfaces \ due))'
    BY DEF Commit, RequestConfirmation, TypeOK
<1>4. (reread \in SUBSET Surfaces /\ suspect \in SUBSET Surfaces)'
    BY DEF Commit, TypeOK
<1> QED
    BY <1>2, <1>3, <1>4 DEF AccountTypes

LEMMA OutdateTypes ==
    ASSUME TypeOK, NEW S, NEW c \in Callers, NEW T, T \in SUBSET Surfaces
    PROVE  /\ Outdate(S) \in [Callers -> SUBSET Surfaces]
           /\ [Outdate(S) EXCEPT ![c] = T] \in [Callers -> SUBSET Surfaces]
BY DEF Outdate, TypeOK

\* Each of update_pnls' ends.
LEMMA FetchedTypes ==
    ASSUME TypeOK, NEW who \in Callers, NEW ok \in BOOLEAN, NEW newEvents \in BOOLEAN,
           FillsFetched(who, ok, newEvents)
    PROVE  /\ AccountTypes'
           /\ flight' \in [Callers -> SUBSET Surfaces]
           /\ UNCHANGED <<halted, planned, owner, calm, overlap>>
<1> DEFINE asked == IF newEvents THEN Surfaces ELSE {}
           stamped == IF ok THEN {"fills"} ELSE {}
<1>1. asked \in SUBSET Surfaces /\ stamped \in SUBSET Surfaces
    BY DEF Surfaces
<1>2. PICK C \in Changes(stamped) : Commit(who, stamped, C, asked)
    BY DEF FillsFetched
<1>3. flight' = [Outdate(asked) EXCEPT ![who] = IF ok THEN @ \ stamped ELSE {}]
    BY DEF FillsFetched
<1>4. UNCHANGED <<halted, planned, owner, calm, overlap>>
    BY DEF FillsFetched
<1> HIDE DEF asked, stamped
<1>5. AccountTypes'
    BY <1>1, <1>2, CommitTypes
<1>6. flight' \in [Callers -> SUBSET Surfaces]
    BY <1>3 DEF Outdate, TypeOK
<1> QED
    BY <1>4, <1>5, <1>6

LEMMA StartTypes ==
    ASSUME TypeOK, NEW who \in Callers, NEW surfaces \in SUBSET Surfaces,
           SendReads(who, surfaces)
    PROVE  /\ AccountTypes'
           /\ planned' \in SUBSET Surfaces /\ plan' \in [Callers -> SUBSET Surfaces]
           /\ flight' \in [Callers -> SUBSET Surfaces]
           /\ UNCHANGED <<halted, calm>>
BY DEF SendReads, TypeOK, AccountTypes

LEMMA FetchFillsTypes ==
    ASSUME TypeOK, NEW who \in Callers, NEW surfaces, FetchFills(who, surfaces)
    PROVE  LockTypes'
<1>1. CASE Ask(who) \/ Ask("prefetch")
    BY <1>1, AskTypes DEF Callers
<1>2. CASE UNCHANGED fillVars
    BY <1>2 DEF fillVars, LockTypes, TypeOK
<1> QED
    BY <1>1, <1>2 DEF FetchFills

LEMMA PlansAreSurfaces == ASSUME NEW s \in RefreshPlans PROVE s \in SUBSET Surfaces
BY DEF RefreshPlans, Surfaces

LEMMA RequestTypes ==
    ASSUME TypeOK, NEW S \in SUBSET Surfaces, RequestConfirmation(S),
           reread' = reread \ S, suspect' = suspect \ S, UNCHANGED <<fresh, changed, seen>>
    PROVE  AccountTypes'
BY DEF RequestConfirmation, AccountTypes, TypeOK

\* Every step keeps the types.
LEMMA TypesKept == TypeOK /\ LockQueue /\ [Next]_authVars => TypeOK'
<1> SUFFICES ASSUME TypeOK, LockQueue, [Next]_authVars
             PROVE  AccountTypes' /\ LockTypes' /\ LoopTypes'
    BY DEF AccountTypes, LockTypes, LoopTypes, TypeOK
<1> USE DEF ledgerVars, requestVars, planVars, loopVars, fillVars, readVars, meetVars
<1>a. "loop" \in Callers /\ "hourly" \in Callers /\ "prefetch" \in Callers
    BY DEF Callers
<1>b. AccountTypes /\ LockTypes /\ LoopTypes
    BY DEF AccountTypes, LockTypes, LoopTypes, TypeOK
<1>c. ASSUME NEW S \in SUBSET Surfaces, Request(S)
      PROVE  AccountTypes' /\ LockTypes' /\ flight' \in [Callers -> SUBSET Surfaces]
    <2>1. AccountTypes'
        BY <1>c, RequestTypes DEF Request
    <2>2. LockTypes'
        BY <1>b, <1>c DEF Request, LockTypes
    <2>3. flight' \in [Callers -> SUBSET Surfaces]
        BY <1>c DEF Request, Outdate, TypeOK
    <2> QED
        BY <2>1, <2>2, <2>3
<1>d. \A S \in WriteRequests : S \in SUBSET Surfaces
    BY DEF WriteRequests, Surfaces
<1>1. CASE StartStaged
    <2>1. PICK surfaces \in RefreshPlans :
            SendReads("loop", surfaces) /\ FetchFills("loop", surfaces)
        BY <1>1 DEF StartStaged
    <2>2. surfaces \in SUBSET Surfaces
        BY PlansAreSurfaces
    <2>3. LockTypes'
        BY <1>a, <2>1, FetchFillsTypes
    <2>4. phase' \in Phases /\ owner' \in Owners /\ overlap' \in BOOLEAN
          /\ UNCHANGED <<hourly, moved>>
        BY <1>1 DEF StartStaged, Phases, Owners
    <2>5. /\ AccountTypes'
          /\ planned' \in SUBSET Surfaces /\ plan' \in [Callers -> SUBSET Surfaces]
          /\ flight' \in [Callers -> SUBSET Surfaces]
          /\ UNCHANGED <<halted, calm>>
        BY <1>a, <2>1, <2>2, StartTypes
    <2> QED
        BY <1>b, <2>3, <2>4, <2>5 DEF LoopTypes
<1>2. CASE StartHourly
    <2>1. PICK surfaces \in RefreshPlans :
            SendReads("hourly", surfaces) /\ FetchFills("hourly", surfaces)
        BY <1>2 DEF StartHourly
    <2>2. surfaces \in SUBSET Surfaces
        BY PlansAreSurfaces
    <2>3. LockTypes'
        BY <1>a, <2>1, FetchFillsTypes
    <2>4. hourly' \in Steps /\ moved' \in BOOLEAN /\ overlap' \in BOOLEAN
          /\ UNCHANGED <<phase, owner>>
        BY <1>2 DEF StartHourly, Steps
    <2>5. /\ AccountTypes'
          /\ planned' \in SUBSET Surfaces /\ plan' \in [Callers -> SUBSET Surfaces]
          /\ flight' \in [Callers -> SUBSET Surfaces]
          /\ UNCHANGED <<halted, calm>>
        BY <1>a, <2>1, <2>2, StartTypes
    <2> QED
        BY <1>b, <2>3, <2>4, <2>5 DEF LoopTypes
<1>3. CASE StartEarly
    <2>1. PICK extra \in SUBSET {"balance"} :
            SendReads("loop", {"positions", "open_orders"} \cup extra)
        BY <1>3 DEF StartEarly
    <2>2. {"positions", "open_orders"} \cup extra \in SUBSET Surfaces
        BY DEF Surfaces
    <2>3. LockTypes' /\ phase' \in Phases /\ owner' \in Owners /\ overlap' \in BOOLEAN
          /\ UNCHANGED <<hourly, moved>>
        BY <1>b, <1>3 DEF StartEarly, Phases, Owners, LockTypes
    <2>4. /\ AccountTypes'
          /\ planned' \in SUBSET Surfaces /\ plan' \in [Callers -> SUBSET Surfaces]
          /\ flight' \in [Callers -> SUBSET Surfaces]
          /\ UNCHANGED <<halted, calm>>
        BY <1>a, <2>1, <2>2, StartTypes
    <2> QED
        BY <1>b, <2>3, <2>4 DEF LoopTypes
<1>4. CASE StartHalted
    <2>1. {"positions", "open_orders"} \in SUBSET Surfaces
        BY DEF Surfaces
    <2>2. LockTypes' /\ phase' \in Phases /\ owner' \in Owners
          /\ UNCHANGED <<hourly, moved, overlap>>
        BY <1>b, <1>4 DEF StartHalted, Phases, Owners, LockTypes
    <2>3. /\ AccountTypes'
          /\ planned' \in SUBSET Surfaces /\ plan' \in [Callers -> SUBSET Surfaces]
          /\ flight' \in [Callers -> SUBSET Surfaces]
          /\ UNCHANGED <<halted, calm>>
        BY <1>a, <1>4, <2>1, StartTypes DEF StartHalted
    <2> QED
        BY <1>b, <2>2, <2>3 DEF LoopTypes
<1>5. CASE RefreshFails
    <2>1. LockTypes'
        BY <1>a, <1>5, LeaveTypes DEF RefreshFails
    <2>2. LoopTypes'
        BY <1>b, <1>5 DEF RefreshFails, LoopTypes, Phases, Owners
    <2> QED
        BY <1>b, <1>5, <2>1, <2>2 DEF RefreshFails, AccountTypes
<1>6. CASE HourlyFails
    <2>1. LockTypes'
        BY <1>a, <1>6, LeaveTypes DEF HourlyFails
    <2>2. LoopTypes'
        BY <1>b, <1>6 DEF HourlyFails, LoopTypes, Steps
    <2> QED
        BY <1>b, <1>6, <2>1, <2>2 DEF HourlyFails, AccountTypes
<1>7. CASE TakeFillLock
    <2>1. PICK c \in Callers :
            /\ fillTask[c] = "wait" /\ before[c] = {}
            /\ fillTask' = [fillTask EXCEPT ![c] = "run"]
            /\ flight' = [flight EXCEPT ![c] = @ \cup {"fills"}]
        BY <1>7 DEF TakeFillLock
    <2>2. \A a \in Callers : fillTask[a] = "run" => FALSE
        BY <2>1 DEF LockQueue, Queued
    <2>3. LockTypes'
        BY <1>b, <1>7, <2>1, <2>2 DEF TakeFillLock, LockTypes, FillTasks
    <2>4. flight' \in [Callers -> SUBSET Surfaces]
        BY <2>1 DEF TypeOK, Surfaces
    <2> QED
        BY <1>b, <1>7, <2>3, <2>4 DEF TakeFillLock, AccountTypes, LoopTypes
<1>8. CASE PrefetchEnds
    <2>1. LockTypes'
        BY <1>a, <1>8, LeaveTypes DEF PrefetchEnds
    <2> QED
        BY <1>a, <1>b, <1>8, <2>1, FetchedTypes DEF PrefetchEnds, LoopTypes
<1>9. CASE StagedFillsEnd
    <2>1. PICK ok, newEvents \in BOOLEAN :
            /\ FillsFetched("loop", ok, newEvents)
            /\ Leave("loop", IF ok THEN "done" ELSE "none")
            /\ phase' = IF ok THEN phase ELSE "idle"
            /\ plan' = IF ok THEN plan ELSE [plan EXCEPT !["loop"] = {}]
        BY <1>9 DEF StagedFillsEnd
    <2>2. LockTypes'
        BY <1>a, <2>1, LeaveTypes
    <2>3. phase' \in Phases /\ plan' \in [Callers -> SUBSET Surfaces]
        BY <2>1 DEF TypeOK, Phases
    <2> QED
        BY <1>a, <1>b, <1>9, <2>1, <2>2, <2>3, FetchedTypes DEF StagedFillsEnd, LoopTypes
<1>10. CASE HourlyFillsEnd
    <2>1. PICK ok, newEvents \in BOOLEAN :
            /\ FillsFetched("hourly", ok, newEvents)
            /\ Leave("hourly", IF ok THEN "done" ELSE "none")
            /\ hourly' = IF ok THEN hourly ELSE "idle"
            /\ plan' = IF ok THEN plan ELSE [plan EXCEPT !["hourly"] = {}]
        BY <1>10 DEF HourlyFillsEnd
    <2>2. LockTypes'
        BY <1>a, <2>1, LeaveTypes
    <2>3. hourly' \in Steps /\ plan' \in [Callers -> SUBSET Surfaces]
        BY <2>1 DEF TypeOK, Steps
    <2> QED
        BY <1>a, <1>b, <1>10, <2>1, <2>2, <2>3, FetchedTypes DEF HourlyFillsEnd, LoopTypes
<1>11. CASE TailFillsEnd
    <2>1. LockTypes'
        BY <1>a, <1>11, LeaveTypes DEF TailFillsEnd
    <2>2. phase' \in Phases /\ moved' \in BOOLEAN
        BY <1>11 DEF TailFillsEnd, Phases
    <2> QED
        BY <1>a, <1>b, <1>11, <2>1, <2>2, FetchedTypes DEF TailFillsEnd, LoopTypes
<1>e. ASSUME NEW who \in Callers, CommitOpenOrders(who)
      PROVE  /\ AccountTypes' /\ LockTypes'
             /\ flight' \in [Callers -> SUBSET Surfaces]
             /\ UNCHANGED <<halted, planVars, owner, moved, calm, overlap>>
    <2>1. {"open_orders"} \in SUBSET Surfaces /\ {} \in SUBSET Surfaces
        BY DEF Surfaces
    <2>2. PICK C \in Changes({"open_orders"}) : Commit(who, {"open_orders"}, C, {})
        BY <1>e DEF CommitOpenOrders
    <2>3. AccountTypes'
        BY <2>1, <2>2, CommitTypes
    <2>4. LockTypes' /\ flight' \in [Callers -> SUBSET Surfaces]
        BY <1>b, <1>e DEF CommitOpenOrders, LockTypes, LoopTypes, FillTasks
    <2> QED
        BY <1>e, <2>3, <2>4 DEF CommitOpenOrders
<1>f. ASSUME NEW who \in Callers, CommitAccount(who)
      PROVE  /\ AccountTypes' /\ LockTypes'
             /\ flight' \in [Callers -> SUBSET Surfaces]
             /\ UNCHANGED <<halted, planVars, owner, moved, calm, overlap>>
    <2> DEFINE S == plan[who] \cap {"positions", "balance"}
               asked(C, unexpected, trailing) ==
                   (IF unexpected THEN Surfaces ELSE {})
                     \cup (IF trailing /\ "positions" \in C THEN {"fills"} ELSE {})
    <2>1. PICK C \in Changes(S), unexpected, trailing \in BOOLEAN :
            /\ Commit(who, S, C, asked(C, unexpected, trailing))
            /\ flight' = [Outdate(asked(C, unexpected, trailing)) EXCEPT ![who] = {}]
        BY <1>f DEF CommitAccount
    <2>2. S \in SUBSET Surfaces /\ asked(C, unexpected, trailing) \in SUBSET Surfaces
        BY DEF TypeOK, Surfaces
    <2> HIDE DEF S, asked
    <2>3. AccountTypes' /\ flight' \in [Callers -> SUBSET Surfaces]
        BY <2>1, <2>2, CommitTypes, OutdateTypes
    <2> QED
        BY <1>b, <1>f, <2>3 DEF CommitAccount, LockTypes
<1>12. CASE ApplyOpenOrders
    BY <1>a, <1>b, <1>e, <1>12 DEF ApplyOpenOrders, LoopTypes, Phases
<1>13. CASE HourlyApplyOpenOrders
    BY <1>a, <1>b, <1>e, <1>13 DEF HourlyApplyOpenOrders, LoopTypes, Steps
<1>14. CASE ApplyAccount
    BY <1>a, <1>b, <1>f, <1>14 DEF ApplyAccount, LoopTypes, Phases
<1>15. CASE HourlyApplyAccount
    BY <1>a, <1>b, <1>f, <1>15 DEF HourlyApplyAccount, LoopTypes, Steps
<1>g. ASSUME NEW who \in Callers, Finalize(who)
      PROVE  /\ AccountTypes'
             /\ flight' \in [Callers -> SUBSET Surfaces]
             /\ plan' \in [Callers -> SUBSET Surfaces]
             /\ UNCHANGED <<halted, planned, moved, calm, overlap>>
    <2>1. PICK asked \in {{}, Surfaces} :
            /\ RequestConfirmation(asked)
            /\ reread' = reread \ asked /\ suspect' = suspect \ asked
            /\ flight' = Outdate(asked)
        BY <1>g DEF Finalize, FinalizeRequests
    <2>2. asked \in SUBSET Surfaces
        OBVIOUS
    <2>3. UNCHANGED <<fresh, changed, seen, halted, planned, moved, calm, overlap>>
          /\ plan' = [plan EXCEPT ![who] = {}]
        BY <1>g DEF Finalize
    <2>4. AccountTypes'
        BY <2>1, <2>2, <2>3, RequestTypes
    <2>5. plan' \in [Callers -> SUBSET Surfaces] /\ flight' \in [Callers -> SUBSET Surfaces]
        BY <1>a, <2>1, <2>3, OutdateTypes DEF TypeOK
    <2> QED
        BY <2>3, <2>4, <2>5
<1>16. CASE FinalizeRefresh
    <2>1. LockTypes'
        BY <1>a, <1>b, <1>16, AskTypes DEF FinalizeRefresh, LockTypes
    <2>2. phase' \in Phases /\ owner' \in Owners /\ hourly' = hourly
        BY <1>16 DEF FinalizeRefresh, Phases, Owners, TypeOK
    <2>3. Finalize("loop")
        BY <1>16 DEF FinalizeRefresh
    <2> QED
        BY <1>a, <1>b, <1>g, <2>1, <2>2, <2>3 DEF LoopTypes
<1>17. CASE HourlyFinalize
    <2>1. LockTypes' /\ hourly' \in Steps /\ UNCHANGED <<phase, owner>>
        BY <1>b, <1>17 DEF HourlyFinalize, LockTypes, Steps
    <2>2. Finalize("hourly")
        BY <1>17 DEF HourlyFinalize
    <2> QED
        BY <1>a, <1>b, <1>g, <2>1, <2>2 DEF LoopTypes
<1>18. CASE EnsureReady
    <2>1. UNCHANGED <<fresh, changed, seen, due, next, planned, plan, owner, moved, hourly>>
          /\ UNCHANGED <<fillTask, before, calm, reread, flight, overlap, suspect>>
        BY <1>18 DEF EnsureReady
    <2>2. halted' \in BOOLEAN /\ phase' \in Phases
        BY <1>18 DEF EnsureReady, Phases, TypeOK
    <2> QED
        BY <1>b, <2>1, <2>2 DEF AccountTypes, LockTypes, LoopTypes
<1>19. CASE Barrier
    <2>1. UNCHANGED <<fresh, changed, seen, halted, planned, plan, moved, hourly>>
          /\ UNCHANGED <<fillTask, before, calm, reread, flight, overlap, suspect>>
        BY <1>19 DEF Barrier
    <2>2. due' \in SUBSET Surfaces /\ next' \in SUBSET (Surfaces \ due')
        BY <1>19 DEF Barrier, TypeOK
    <2>3. phase' \in Phases /\ owner' \in Owners
        BY <1>19 DEF Barrier, Phases, Owners
    <2> QED
        BY <1>b, <2>1, <2>2, <2>3 DEF AccountTypes, LockTypes, LoopTypes
<1>20. CASE EndCycle
    BY <1>b, <1>20 DEF EndCycle, AccountTypes, LockTypes, LoopTypes, Phases
<1>21. CASE ProtectiveWave
    <2>1. PICK S \in WriteRequests : Request(S)
        BY <1>21 DEF ProtectiveWave
    <2>2. phase' \in Phases /\ owner' \in Owners
        BY <1>21 DEF ProtectiveWave, Phases, Owners
    <2>3. UNCHANGED <<halted, planned, plan, moved, hourly, calm, overlap>>
        BY <2>1 DEF Request
    <2> QED
        BY <1>b, <1>c, <1>d, <2>1, <2>2, <2>3 DEF LoopTypes
<1>22. CASE RequestAfterBarrier \/ Invalidate
    <2>1. PICK S \in SUBSET Surfaces : Request(S)
        BY <1>d, <1>22 DEF RequestAfterBarrier, Invalidate
    <2>2. UNCHANGED <<phase, owner>>
        BY <1>22 DEF RequestAfterBarrier, Invalidate
    <2>3. UNCHANGED <<halted, planned, plan, moved, hourly, calm, overlap>>
        BY <2>1 DEF Request
    <2> QED
        BY <1>b, <1>c, <2>1, <2>2, <2>3 DEF LoopTypes
<1>23. CASE CalmDown
    BY <1>b, <1>23 DEF CalmDown, AccountTypes, LockTypes, LoopTypes
<1>24. CASE UNCHANGED authVars
    BY <1>b, <1>24 DEF authVars, AccountTypes, LockTypes, LoopTypes
<1> QED
    BY <1>1, <1>2, <1>3, <1>4, <1>5, <1>6, <1>7, <1>8, <1>9, <1>10, <1>11, <1>12, <1>13,
       <1>14, <1>15, <1>16, <1>17, <1>18, <1>19, <1>20, <1>21, <1>22, <1>23, <1>24
       DEF Next, Loop, Maintenance

-----------------------------------------------------------------------------
(* The lock, and where each task can be.                                    *)

LEMMA AskQueue ==
    ASSUME TypeOK, LockQueue, NEW c \in Callers, fillTask[c] = "none", Ask(c)
    PROVE  LockQueue'
<1>1. fillTask' = [fillTask EXCEPT ![c] = "wait"] /\ before' = [before EXCEPT ![c] = Queued]
    BY DEF Ask
<1>2. fillTask \in [Callers -> FillTasks] /\ before \in [Callers -> SUBSET Callers]
    BY DEF TypeOK
<1>3. c \notin Queued /\ Queued' = Queued \cup {c}
    BY <1>1, <1>2 DEF Queued
<1>4. \A a, b \in Callers : a \in before'[b] => fillTask'[a] \in {"wait", "run"}
    BY <1>1, <1>2, <1>3 DEF LockQueue, Queued
<1>5. \A a, b \in Queued' : a = b \/ a \in before'[b] \/ b \in before'[a]
    BY <1>1, <1>2, <1>3 DEF LockQueue, Queued
<1>6. \A a \in Callers : fillTask'[a] = "run" => before'[a] = {}
    BY <1>1, <1>2 DEF LockQueue
<1> QED
    BY <1>4, <1>5, <1>6 DEF LockQueue

LEMMA LeaveQueue ==
    ASSUME TypeOK, LockQueue, NEW c \in Callers, NEW outcome \in {"none", "done"},
           Leave(c, outcome)
    PROVE  LockQueue'
<1>1. fillTask' = [fillTask EXCEPT ![c] = outcome]
      /\ before' = [d \in Callers |-> IF d = c THEN {} ELSE before[d] \ {c}]
    BY DEF Leave
<1>2. fillTask \in [Callers -> FillTasks] /\ before \in [Callers -> SUBSET Callers]
    BY DEF TypeOK
<1>3. \A a \in Callers : a # c => fillTask'[a] = fillTask[a]
    BY <1>1, <1>2
<1>4. Queued' = Queued \ {c}
    BY <1>1, <1>2 DEF Queued
<1>5. \A a, b \in Callers : a \in before'[b] => fillTask'[a] \in {"wait", "run"}
    BY <1>1, <1>3 DEF LockQueue
<1>6. \A a, b \in Queued' : a = b \/ a \in before'[b] \/ b \in before'[a]
    BY <1>1, <1>4 DEF LockQueue, Queued
<1>7. \A a \in Callers : fillTask'[a] = "run" => before'[a] = {}
    BY <1>1, <1>2 DEF LockQueue
<1> QED
    BY <1>5, <1>6, <1>7 DEF LockQueue

LEMMA FetchFillsQueue ==
    ASSUME TypeOK, LockQueue, NEW who \in Callers, NEW surfaces, FetchFills(who, surfaces),
           fillTask[who] = "none"
    PROVE  LockQueue'
<1>1. CASE Ask(who)
    BY <1>1, AskQueue
<1>2. CASE fillTask["prefetch"] = "none" /\ Ask("prefetch")
    BY <1>2, AskQueue DEF Callers
<1>3. CASE UNCHANGED fillVars
    BY <1>3 DEF fillVars, LockQueue, Queued
<1> QED
    BY <1>1, <1>2, <1>3 DEF FetchFills

LEMMA QueueKept == TypeOK /\ LockQueue /\ Control /\ [Next]_authVars => LockQueue'
<1> SUFFICES ASSUME TypeOK, LockQueue, Control, [Next]_authVars PROVE LockQueue'
    OBVIOUS
<1> USE DEF fillVars
<1>a. "loop" \in Callers /\ "hourly" \in Callers /\ "prefetch" \in Callers
    BY DEF Callers
<1>1. CASE StartStaged
    BY <1>a, <1>1, FetchFillsQueue DEF StartStaged, Control
<1>2. CASE StartHourly
    BY <1>a, <1>2, FetchFillsQueue DEF StartHourly, Control
<1>3. CASE RefreshFails \/ HourlyFails \/ PrefetchEnds \/ TailFillsEnd
    BY <1>a, <1>3, LeaveQueue DEF RefreshFails, HourlyFails, PrefetchEnds, TailFillsEnd
<1>4. CASE StagedFillsEnd \/ HourlyFillsEnd
    <2>1. PICK c \in {"loop", "hourly"}, ok \in BOOLEAN :
            Leave(c, IF ok THEN "done" ELSE "none")
        BY <1>4 DEF StagedFillsEnd, HourlyFillsEnd
    <2> QED
        BY <1>a, <2>1, LeaveQueue
<1>5. CASE TakeFillLock
    <2>1. PICK c \in Callers :
            /\ fillTask[c] = "wait" /\ before[c] = {}
            /\ fillTask' = [fillTask EXCEPT ![c] = "run"]
        BY <1>5 DEF TakeFillLock
    <2>2. before' = before
        BY <1>5 DEF TakeFillLock
    <2>3. Queued' = Queued
        BY <2>1 DEF Queued, TypeOK
    <2> QED
        BY <2>1, <2>2, <2>3 DEF LockQueue, TypeOK
<1>6. CASE FinalizeRefresh
    <2>1. CASE UNCHANGED fillVars
        BY <2>1 DEF LockQueue, Queued
    <2>2. CASE Ask("loop")
        BY <1>a, <1>6, <2>2, AskQueue DEF FinalizeRefresh, Control
    <2> QED
        BY <1>6, <2>1, <2>2 DEF FinalizeRefresh
<1>7. ASSUME NEW who \in Callers, CommitOpenOrders(who), fillTask[who] \in {"none", "done"}
      PROVE  LockQueue'
    <2>1. before' = before /\ fillTask' = [fillTask EXCEPT ![who] = "none"]
        BY <1>7 DEF CommitOpenOrders
    <2>2. Queued' = Queued
        BY <1>7, <2>1 DEF Queued, TypeOK
    <2> QED
        BY <1>7, <2>1, <2>2 DEF LockQueue, TypeOK
<1>8. CASE ApplyOpenOrders
    BY <1>a, <1>7, <1>8 DEF ApplyOpenOrders, CommitOpenOrders, Control, TypeOK, FillTasks
<1>9. CASE HourlyApplyOpenOrders
    BY <1>a, <1>7, <1>9 DEF HourlyApplyOpenOrders, CommitOpenOrders, Control, TypeOK,
       FillTasks
<1>10. CASE UNCHANGED fillVars
    BY <1>10 DEF LockQueue, Queued
<1> QED
    BY <1>1, <1>2, <1>3, <1>4, <1>5, <1>6, <1>8, <1>9, <1>10
       DEF Next, Loop, Maintenance, StartEarly, StartHalted, ApplyAccount,
           HourlyApplyAccount, CommitAccount, HourlyFinalize, EnsureReady, Barrier, EndCycle,
           ProtectiveWave, RequestAfterBarrier, Invalidate, Request, CalmDown, authVars

LEMMA ControlKept == TypeOK /\ LockQueue /\ Control /\ [Next]_authVars => Control'
<1> SUFFICES ASSUME TypeOK, Control, [Next]_authVars PROVE Control'
    OBVIOUS
<1> USE DEF ledgerVars, requestVars, planVars, loopVars, fillVars, readVars, meetVars
<1>a. /\ "loop" \in Callers /\ "hourly" \in Callers /\ "prefetch" \in Callers
      /\ fillTask \in [Callers -> FillTasks] /\ plan \in [Callers -> SUBSET Surfaces]
    BY DEF Callers, TypeOK
<1>1. CASE StartStaged
    <2>1. PICK surfaces \in RefreshPlans :
            /\ SendReads("loop", surfaces)
            /\ FetchFills("loop", surfaces)
        BY <1>1 DEF StartStaged
    <2>2. plan' = [plan EXCEPT !["loop"] = surfaces] /\ "open_orders" \in surfaces
        BY <2>1 DEF SendReads, RefreshPlans, Surfaces
    <2>3. \/ "fills" \in surfaces /\ fillTask' = [fillTask EXCEPT !["loop"] = "wait"]
          \/ fillTask' = fillTask
          \/ fillTask' = [fillTask EXCEPT !["prefetch"] = "wait"]
        BY <2>1 DEF FetchFills, Ask
    <2>4. phase = "idle" /\ phase' = "fetch" /\ owner' = "staged" /\ hourly' = hourly
        BY <1>1 DEF StartStaged
    <2> QED
        BY <1>a, <2>2, <2>3, <2>4 DEF Control, Reading
<1>2. CASE StartHourly
    <2>1. PICK surfaces \in RefreshPlans :
            /\ SendReads("hourly", surfaces)
            /\ FetchFills("hourly", surfaces)
        BY <1>2 DEF StartHourly
    <2>2. plan' = [plan EXCEPT !["hourly"] = surfaces]
        BY <2>1 DEF SendReads
    <2>3. \/ "fills" \in surfaces /\ fillTask' = [fillTask EXCEPT !["hourly"] = "wait"]
          \/ fillTask' = fillTask
          \/ fillTask' = [fillTask EXCEPT !["prefetch"] = "wait"]
        BY <2>1 DEF FetchFills, Ask
    <2>4. hourly = "idle" /\ hourly' = "fetch" /\ UNCHANGED <<phase, owner>>
        BY <1>2 DEF StartHourly
    <2> QED
        BY <1>a, <2>2, <2>3, <2>4 DEF Control, Reading
<1>3. CASE StartEarly
    BY <1>a, <1>3 DEF StartEarly, SendReads, Control, Reading
<1>4. CASE StartHalted
    BY <1>a, <1>4 DEF StartHalted, SendReads, Control, Reading
<1>5. CASE RefreshFails
    BY <1>a, <1>5 DEF RefreshFails, Leave, Control, Reading
<1>6. CASE HourlyFails
    BY <1>a, <1>6 DEF HourlyFails, Leave, Control, Reading
<1>7. CASE TakeFillLock
    <2>1. PICK c \in Callers :
            fillTask[c] = "wait" /\ fillTask' = [fillTask EXCEPT ![c] = "run"]
        BY <1>7 DEF TakeFillLock
    <2>2. UNCHANGED <<phase, owner, hourly, plan>>
        BY <1>7 DEF TakeFillLock
    <2> QED
        BY <1>a, <2>1, <2>2 DEF Control, Reading
<1>8. CASE PrefetchEnds
    BY <1>a, <1>8 DEF PrefetchEnds, FillsFetched, Leave, Control, Reading
<1>9. CASE StagedFillsEnd
    BY <1>a, <1>9 DEF StagedFillsEnd, FillsFetched, Leave, Control, Reading
<1>10. CASE HourlyFillsEnd
    BY <1>a, <1>10 DEF HourlyFillsEnd, FillsFetched, Leave, Control, Reading
<1>11. CASE TailFillsEnd
    BY <1>a, <1>11 DEF TailFillsEnd, FillsFetched, Leave, Control, Reading
<1>12. CASE ApplyOpenOrders
    BY <1>a, <1>12 DEF ApplyOpenOrders, CommitOpenOrders, Control, Reading
<1>13. CASE HourlyApplyOpenOrders
    BY <1>a, <1>13 DEF HourlyApplyOpenOrders, CommitOpenOrders, Control, Reading
<1>14. CASE ApplyAccount
    BY <1>a, <1>14 DEF ApplyAccount, CommitAccount, Control, Reading
<1>15. CASE HourlyApplyAccount
    BY <1>a, <1>15 DEF HourlyApplyAccount, CommitAccount, Control, Reading
<1>16. CASE FinalizeRefresh
    <2>1. plan' = [plan EXCEPT !["loop"] = {}] /\ hourly' = hourly /\ phase = "committed"
        BY <1>16 DEF FinalizeRefresh, Finalize
    <2>2. \/ /\ owner = "staged" /\ owner' = "staged" /\ phase' = "settled"
             /\ fillTask' = fillTask
          \/ /\ owner = "early" /\ owner' = "staged" /\ phase' = "idle"
             /\ fillTask' = fillTask
          \/ /\ owner \in {"halted", "again"} /\ owner' = owner /\ phase' = "gate"
             /\ fillTask' = fillTask
          \/ /\ owner = "halted" /\ owner' = owner /\ phase' = "tail"
             /\ fillTask' = [fillTask EXCEPT !["loop"] = "wait"]
        BY <1>16 DEF FinalizeRefresh, Ask, TypeOK, Owners
    <2> QED
        BY <1>a, <2>1, <2>2 DEF Control, Reading
<1>17. CASE HourlyFinalize
    BY <1>a, <1>17 DEF HourlyFinalize, Finalize, Control, Reading
<1>18. CASE EnsureReady \/ Barrier \/ EndCycle \/ ProtectiveWave
    <2>1. UNCHANGED <<plan, fillTask, hourly>>
          /\ \/ owner' = owner
             \/ phase' \in {"idle", "ready"}
        BY <1>18 DEF EnsureReady, Barrier, EndCycle, ProtectiveWave, Request
    <2>2. \/ phase = "settled" /\ phase' \in {"guard", "gate", "idle"}
          \/ phase \in {"gate", "ready"} /\ phase' \in {"idle", "ready"}
        BY <1>18 DEF EnsureReady, Barrier, EndCycle, ProtectiveWave
    <2> QED
        BY <2>1, <2>2 DEF Control, Reading
<1>19. CASE RequestAfterBarrier \/ Invalidate \/ CalmDown \/ UNCHANGED authVars
    <2>1. UNCHANGED <<plan, fillTask, hourly, phase, owner>>
        BY <1>19 DEF RequestAfterBarrier, Invalidate, Request, CalmDown, authVars
    <2> QED
        BY <2>1 DEF Control, Reading
<1> QED
    BY <1>1, <1>2, <1>3, <1>4, <1>5, <1>6, <1>7, <1>8, <1>9, <1>10, <1>11, <1>12, <1>13,
       <1>14, <1>15, <1>16, <1>17, <1>18, <1>19 DEF Next, Loop, Maintenance

-----------------------------------------------------------------------------
(* What the parts of the actions do to the account's variables.             *)

\* A refresh begins: whoever does it, nothing is fresh and all that is pending is due.
LEMMA Begun ==
    ASSUME TypeOK, NEW who \in Callers, NEW surfaces, SendReads(who, surfaces)
    PROVE  /\ fresh' = {} /\ changed' = {}
           /\ due' = due \cup next /\ next' = {}
           /\ planned' = surfaces
           /\ plan'[who] = surfaces
           /\ flight'[who] = surfaces \ {"fills"}
           /\ \A c \in Callers \ {who} : plan'[c] = plan[c] /\ flight'[c] = flight[c]
           /\ UNCHANGED <<reread, suspect>>
BY DEF SendReads, TypeOK

\* A commit of S that asks for confirmations of asked; who is told by flight[who].
Committed(who, S, asked) ==
    /\ fresh' = fresh \cup S
    /\ changed \subseteq changed' /\ changed' \subseteq changed \cup S
    /\ due' = due \ asked /\ next' = next \cup asked
    /\ reread' = ((reread \ S) \cup (flight[who] \cap S)) \ asked
    /\ suspect' = ((suspect \ S) \cup (IF overlap THEN S \ flight[who] ELSE {})) \ asked
    /\ \A c \in Callers \ {who} : flight'[c] = flight[c] \ asked

\* Fills: new events ask for everything, and a ready result is stamped.
LEMMA FillsCommitted ==
    ASSUME TypeOK, NEW who \in Callers, NEW ok \in BOOLEAN, NEW newEvents \in BOOLEAN,
           FillsFetched(who, ok, newEvents)
    PROVE  \E asked \in {{}, Surfaces} :
            /\ Committed(who, IF ok THEN {"fills"} ELSE {}, asked)
            /\ asked = Surfaces /\ ok => "fills" \in changed'
            /\ ok => flight'[who] = (flight[who] \ asked) \ {"fills"}
            /\ UNCHANGED <<planned, owner, overlap>>
<1> DEFINE asked == IF newEvents THEN Surfaces ELSE {}
           stamped == IF ok THEN {"fills"} ELSE {}
<1>1. PICK C \in Changes(stamped) :
        (newEvents => C = stamped) /\ Commit(who, stamped, C, asked)
    BY DEF FillsFetched
<1>2. flight' = [Outdate(asked) EXCEPT ![who] = IF ok THEN @ \ stamped ELSE {}]
    BY DEF FillsFetched
<1>3. C \subseteq stamped
    BY DEF Changes
<1>4. UNCHANGED <<planned, owner, overlap>>
    BY DEF FillsFetched
<1>5. newEvents /\ ok => "fills" \in changed'
    BY <1>1 DEF Commit, Stamp
<1>6. asked \in {{}, Surfaces} /\ (asked = Surfaces => newEvents)
    BY DEF Surfaces
<1>7. ok => flight'[who] = (flight[who] \ asked) \ {"fills"}
    BY <1>2 DEF Outdate
<1> HIDE DEF asked, stamped
<1>8. \A c \in Callers \ {who} : flight'[c] = flight[c] \ asked
    BY <1>2 DEF Outdate
<1>9. Committed(who, stamped, asked)
    BY <1>1, <1>3, <1>8 DEF Commit, Stamp, RequestConfirmation, Committed
<1> QED
    BY <1>4, <1>5, <1>6, <1>7, <1>9 DEF stamped

LEMMA OpenOrdersCommitted ==
    ASSUME TypeOK, NEW who \in Callers, CommitOpenOrders(who)
    PROVE  /\ Committed(who, {"open_orders"}, {})
           /\ changed' = changed
           /\ flight'[who] = flight[who] \ {"open_orders"}
           /\ fillTask' = [fillTask EXCEPT ![who] = "none"]
           /\ "fills" \in plan[who] => fillTask[who] = "done"
           /\ UNCHANGED <<planned, plan, owner, before, overlap>>
<1>1. PICK C \in Changes({"open_orders"}) : Commit(who, {"open_orders"}, C, {})
    BY DEF CommitOpenOrders
<1>2. C = {}
    BY DEF Changes, Compared
<1>3. /\ flight' = [flight EXCEPT ![who] = @ \ {"open_orders"}]
      /\ fillTask' = [fillTask EXCEPT ![who] = "none"]
      /\ "fills" \in plan[who] => fillTask[who] = "done"
      /\ UNCHANGED <<planned, plan, owner, before, overlap>>
    BY DEF CommitOpenOrders, planVars
<1>4. changed' = changed
    BY <1>1, <1>2 DEF Commit, Stamp
<1>5. \A c \in Callers \ {who} : flight'[c] = flight[c] \ {}
    BY <1>3 DEF TypeOK
<1>6. Committed(who, {"open_orders"}, {})
    BY <1>1, <1>4, <1>5 DEF Commit, Stamp, RequestConfirmation, Committed
<1> QED
    BY <1>3, <1>4, <1>6 DEF TypeOK

\* A trailing position asks for fills, an unexplained order for everything.
LEMMA AccountCommitted ==
    ASSUME TypeOK, NEW who \in Callers, CommitAccount(who)
    PROVE  \E asked \in {{}, {"fills"}, Surfaces} :
            /\ Committed(who, plan[who] \cap {"positions", "balance"}, asked)
            /\ asked = {"fills"} => "positions" \in changed'
            /\ UNCHANGED <<planned, plan, owner, fillTask, before, overlap>>
<1> DEFINE S == plan[who] \cap {"positions", "balance"}
           ask(C, unexpected, trailing) ==
               (IF unexpected THEN Surfaces ELSE {})
                 \cup (IF trailing /\ "positions" \in C THEN {"fills"} ELSE {})
<1>1. PICK C \in Changes(S), unexpected, trailing \in BOOLEAN :
        /\ Commit(who, S, C, ask(C, unexpected, trailing))
        /\ flight' = [Outdate(ask(C, unexpected, trailing)) EXCEPT ![who] = {}]
    BY DEF CommitAccount
<1>2. ask(C, unexpected, trailing) \in {{}, {"fills"}, Surfaces}
    BY DEF Surfaces
<1>3. ask(C, unexpected, trailing) = {"fills"} => "positions" \in C
    BY DEF Surfaces
<1>4. PICK asked \in {{}, {"fills"}, Surfaces} :
        /\ asked = {"fills"} => "positions" \in C
        /\ Commit(who, S, C, asked)
        /\ flight' = [Outdate(asked) EXCEPT ![who] = {}]
    BY <1>1, <1>2, <1>3
<1>5. C \subseteq S
    BY DEF Changes
<1> HIDE DEF S, ask
<1>6. UNCHANGED <<planned, plan, owner, fillTask, before, overlap>>
    BY DEF CommitAccount, planVars, fillVars
<1>7. \A c \in Callers \ {who} : flight'[c] = flight[c] \ asked
    BY <1>4 DEF Outdate
<1>8. Committed(who, S, asked) /\ (asked = {"fills"} => "positions" \in changed')
    BY <1>4, <1>5, <1>7 DEF Commit, Stamp, RequestConfirmation, Committed
<1> QED
    BY <1>6, <1>8 DEF S

\* A request of asked outside a commit.
Requested(asked) ==
    /\ due' = due \ asked /\ next' = next \cup asked
    /\ reread' = reread \ asked /\ suspect' = suspect \ asked
    /\ \A c \in Callers : flight'[c] = flight[c] \ asked
    /\ UNCHANGED <<fresh, changed, planned, overlap>>

LEMMA Finalized ==
    ASSUME TypeOK, NEW who \in Callers, Finalize(who)
    PROVE  \E asked \in {{}, Surfaces} :
            /\ Requested(asked)
            /\ "positions" \in changed /\ ("fills" \notin plan[who] \/ "fills" \notin changed)
                 => asked = Surfaces
<1>1. PICK confirmed \in BOOLEAN :
        LET asked == FinalizeRequests(plan[who], confirmed)
        IN  /\ RequestConfirmation(asked)
            /\ reread' = reread \ asked /\ suspect' = suspect \ asked
            /\ flight' = Outdate(asked)
    BY DEF Finalize
<1>2. UNCHANGED <<fresh, changed, planned, overlap>>
    BY DEF Finalize, ledgerVars
<1>3. PICK asked \in {{}, Surfaces} :
        /\ RequestConfirmation(asked)
        /\ reread' = reread \ asked /\ suspect' = suspect \ asked
        /\ flight' = Outdate(asked)
        /\ "positions" \in changed /\ ("fills" \notin plan[who] \/ "fills" \notin changed)
             => asked = Surfaces
    BY <1>1 DEF FinalizeRequests
<1> QED
    BY <1>2, <1>3 DEF Requested, RequestConfirmation, Outdate

LEMMA RequestsMade ==
    ASSUME NEW S, Request(S)
    PROVE  Requested(S) /\ UNCHANGED <<plan, hourly, fillTask, before>>
BY DEF Request, Requested, RequestConfirmation, Outdate, ledgerVars, planVars, fillVars

-----------------------------------------------------------------------------
(* What holds whether the refreshes overlap or not.                         *)

LEMMA LateKept ==
    TypeOK /\ LockQueue /\ Control /\ LatePrefetch /\ [Next]_authVars => LatePrefetch'
<1> DEFINE Unanswered == /\ "fills" \notin reread
                         /\ "fills" \in next \/ "fills" \in due \ fresh
<1> SUFFICES ASSUME TypeOK, LockQueue, Control, LatePrefetch, [Next]_authVars,
                    fillTask'["prefetch"] = "run", "fills" \notin flight'["prefetch"]
             PROVE  Unanswered'
    BY DEF LatePrefetch
<1> USE DEF ledgerVars, requestVars, planVars, loopVars, fillVars, readVars, meetVars
<1>a. /\ "loop" \in Callers /\ "hourly" \in Callers /\ "prefetch" \in Callers
      /\ fillTask \in [Callers -> FillTasks] /\ flight \in [Callers -> SUBSET Surfaces]
    BY DEF Callers, TypeOK
<1>b. ASSUME NEW who \in {"loop", "hourly"}, NEW surfaces, SendReads(who, surfaces),
             fillTask["prefetch"] = "run"
      PROVE  Unanswered'
    <2>1. fresh' = {} /\ due' = due \cup next /\ reread' = reread
          /\ flight'["prefetch"] = flight["prefetch"]
        BY <1>a, <1>b, Begun DEF Callers
    <2> QED
        BY <1>b, <2>1 DEF LatePrefetch
<1>c. ASSUME NEW who \in {"loop", "hourly"}, NEW S, "fills" \notin S, NEW asked,
             Committed(who, S, asked), fillTask["prefetch"] = "run"
      PROVE  Unanswered'
    <2>1. flight'["prefetch"] = flight["prefetch"] \ asked
        BY <1>a, <1>c DEF Committed
    <2> QED
        BY <1>c, <2>1 DEF Committed, LatePrefetch
<1>d. ASSUME NEW asked, Requested(asked), fillTask["prefetch"] = "run"
      PROVE  Unanswered'
    BY <1>a, <1>d DEF Requested, LatePrefetch
<1>e. ASSUME UNCHANGED <<fresh, due, next, reread>>, fillTask["prefetch"] = "run",
             flight'["prefetch"] = flight["prefetch"]
      PROVE  Unanswered'
    BY <1>e DEF LatePrefetch
<1>1. CASE StartStaged
    <2>1. PICK surfaces \in RefreshPlans :
            SendReads("loop", surfaces) /\ FetchFills("loop", surfaces)
        BY <1>1 DEF StartStaged
    <2>2. fillTask["prefetch"] = "run"
        BY <1>a, <2>1 DEF FetchFills, Ask
    <2> QED
        BY <1>b, <2>1, <2>2
<1>2. CASE StartHourly
    <2>1. PICK surfaces \in RefreshPlans :
            SendReads("hourly", surfaces) /\ FetchFills("hourly", surfaces)
        BY <1>2 DEF StartHourly
    <2>2. fillTask["prefetch"] = "run"
        BY <1>a, <2>1 DEF FetchFills, Ask
    <2> QED
        BY <1>b, <2>1, <2>2
<1>3. CASE StartEarly \/ StartHalted
    <2>1. PICK surfaces \in SUBSET Surfaces : SendReads("loop", surfaces)
        BY <1>3 DEF StartEarly, StartHalted, Surfaces
    <2>2. fillTask["prefetch"] = "run"
        BY <1>3 DEF StartEarly, StartHalted
    <2> QED
        BY <1>b, <2>1, <2>2
<1>4. CASE RefreshFails \/ HourlyFails
    <2>1. PICK c \in {"loop", "hourly"} :
            Leave(c, "none") /\ flight' = [flight EXCEPT ![c] = {}]
        BY <1>4 DEF RefreshFails, HourlyFails
    <2>2. UNCHANGED <<fresh, due, next, reread>>
        BY <1>4 DEF RefreshFails, HourlyFails
    <2>3. fillTask["prefetch"] = "run" /\ flight'["prefetch"] = flight["prefetch"]
        BY <1>a, <2>1 DEF Leave
    <2> QED
        BY <1>e, <2>2, <2>3
<1>5. CASE TakeFillLock
    <2>1. PICK c \in Callers :
            /\ fillTask' = [fillTask EXCEPT ![c] = "run"]
            /\ flight' = [flight EXCEPT ![c] = @ \cup {"fills"}]
        BY <1>5 DEF TakeFillLock
    <2>2. c # "prefetch"
        BY <1>a, <2>1
    <2>3. UNCHANGED <<fresh, due, next, reread>>
        BY <1>5 DEF TakeFillLock
    <2> QED
        BY <1>a, <1>e, <2>1, <2>2, <2>3
<1>6. CASE PrefetchEnds
    BY <1>a, <1>6 DEF PrefetchEnds, Leave
<1>7. CASE StagedFillsEnd \/ HourlyFillsEnd \/ TailFillsEnd
    <2>1. PICK c \in {"loop", "hourly"}, outcome \in {"none", "done"} :
            fillTask[c] = "run" /\ Leave(c, outcome)
        BY <1>7 DEF StagedFillsEnd, HourlyFillsEnd, TailFillsEnd
    <2>2. fillTask["prefetch"] = "run"
        BY <1>a, <2>1 DEF Leave
    <2> QED
        BY <1>a, <2>1, <2>2 DEF TypeOK, Callers
<1>8. CASE ApplyOpenOrders \/ HourlyApplyOpenOrders
    <2>1. PICK who \in {"loop", "hourly"} : CommitOpenOrders(who)
        BY <1>8 DEF ApplyOpenOrders, HourlyApplyOpenOrders
    <2>2. Committed(who, {"open_orders"}, {}) /\ fillTask' = [fillTask EXCEPT ![who] = "none"]
        BY <1>a, <2>1, OpenOrdersCommitted
    <2> QED
        BY <1>a, <1>c, <2>2
<1>9. CASE ApplyAccount \/ HourlyApplyAccount
    <2>1. PICK who \in {"loop", "hourly"} : CommitAccount(who)
        BY <1>9 DEF ApplyAccount, HourlyApplyAccount
    <2>2. PICK asked : Committed(who, plan[who] \cap {"positions", "balance"}, asked)
                       /\ fillTask' = fillTask
        BY <1>a, <2>1, AccountCommitted
    <2> QED
        BY <1>a, <1>c, <2>2
<1>10. CASE FinalizeRefresh \/ HourlyFinalize
    <2>1. PICK who \in {"loop", "hourly"} : Finalize(who)
        BY <1>10 DEF FinalizeRefresh, HourlyFinalize
    <2>2. PICK asked : Requested(asked)
        BY <1>a, <2>1, Finalized
    <2>3. fillTask["prefetch"] = "run"
        BY <1>a, <1>10 DEF FinalizeRefresh, HourlyFinalize, Ask
    <2> QED
        BY <1>d, <2>2, <2>3
<1>11. CASE ProtectiveWave \/ RequestAfterBarrier \/ Invalidate
    <2>1. PICK S : Request(S)
        BY <1>11 DEF ProtectiveWave, RequestAfterBarrier, Invalidate
    <2> QED
        BY <1>d, <2>1, RequestsMade
<1>12. CASE Barrier
    <2>1. UNCHANGED <<fresh, reread, flight, fillTask>>
        BY <1>12 DEF Barrier
    <2>2. CASE MissingSurfaces = {}
        <3>1. "fills" \notin next /\ "fills" \notin due \ fresh
            BY <2>2 DEF MissingSurfaces, RequiredSurfaces, pending
        <3> QED
            BY <2>1, <3>1 DEF LatePrefetch
    <2>3. CASE MissingSurfaces # {}
        BY <1>12, <1>e, <2>1, <2>3 DEF Barrier
    <2> QED
        BY <2>2, <2>3
<1>13. CASE EnsureReady \/ EndCycle \/ CalmDown \/ UNCHANGED authVars
    <2>1. UNCHANGED <<fresh, due, next, reread, flight, fillTask>>
        BY <1>13 DEF EnsureReady, EndCycle, CalmDown, authVars
    <2> QED
        BY <1>e, <2>1
<1> QED
    BY <1>1, <1>2, <1>3, <1>4, <1>5, <1>6, <1>7, <1>8, <1>9, <1>10, <1>11, <1>12, <1>13
       DEF Next, Loop, Maintenance

\* A commit leaves a surface read in time, asked for again, or suspect.
LEMMA OverlapKept ==
    TypeOK /\ LockQueue /\ Control /\ OverlapStamps /\ [Next]_authVars => OverlapStamps'
<1> SUFFICES ASSUME TypeOK, Control, OverlapStamps, [Next]_authVars PROVE OverlapStamps'
    OBVIOUS
<1> USE DEF ledgerVars, requestVars, planVars, loopVars, fillVars, readVars, meetVars
<1>a. "loop" \in Callers /\ "hourly" \in Callers /\ "prefetch" \in Callers
    BY DEF Callers
<1>b. ASSUME NEW who \in Callers, NEW S \in SUBSET Surfaces, NEW asked,
             Committed(who, S, asked), overlap' = overlap, hourly' # "idle" => hourly # "idle"
      PROVE  OverlapStamps'
    BY <1>b DEF Committed, OverlapStamps, TypeOK
<1>c. ASSUME NEW asked, Requested(asked), hourly' # "idle" => hourly # "idle"
      PROVE  OverlapStamps'
    BY <1>c DEF Requested, OverlapStamps
<1>1. CASE StartStaged
    BY <1>1 DEF StartStaged, SendReads, OverlapStamps
<1>2. CASE StartHourly
    BY <1>2 DEF StartHourly, SendReads, OverlapStamps
<1>3. CASE StartEarly \/ StartHalted
    BY <1>3 DEF StartEarly, StartHalted, SendReads, OverlapStamps
<1>4. CASE PrefetchEnds \/ StagedFillsEnd \/ HourlyFillsEnd \/ TailFillsEnd
    <2>1. PICK who \in Callers, ok \in BOOLEAN, newEvents \in BOOLEAN :
            FillsFetched(who, ok, newEvents)
        BY <1>a, <1>4 DEF PrefetchEnds, StagedFillsEnd, HourlyFillsEnd, TailFillsEnd
    <2>2. PICK S \in SUBSET Surfaces, asked \in {{}, Surfaces} :
            Committed(who, S, asked) /\ overlap' = overlap
        <3>1. (IF ok THEN {"fills"} ELSE {}) \in SUBSET Surfaces
            BY DEF Surfaces
        <3> QED
            BY <2>1, <3>1, FillsCommitted
    <2>3. hourly' # "idle" => hourly # "idle"
        BY <1>4 DEF PrefetchEnds, StagedFillsEnd, HourlyFillsEnd, TailFillsEnd
    <2> QED
        BY <1>b, <2>2, <2>3
<1>5. CASE ApplyOpenOrders \/ HourlyApplyOpenOrders
    <2>1. PICK who \in Callers : CommitOpenOrders(who)
        BY <1>a, <1>5 DEF ApplyOpenOrders, HourlyApplyOpenOrders
    <2>2. Committed(who, {"open_orders"}, {}) /\ overlap' = overlap
        BY <2>1, OpenOrdersCommitted
    <2>3. hourly' # "idle" => hourly # "idle"
        BY <1>5 DEF ApplyOpenOrders, HourlyApplyOpenOrders
    <2> QED
        BY <1>b, <2>2, <2>3 DEF Surfaces
<1>6. CASE ApplyAccount \/ HourlyApplyAccount
    <2>1. PICK who \in Callers : CommitAccount(who)
        BY <1>a, <1>6 DEF ApplyAccount, HourlyApplyAccount
    <2>2. PICK asked : Committed(who, plan[who] \cap {"positions", "balance"}, asked)
                       /\ overlap' = overlap
        BY <2>1, AccountCommitted
    <2>3. hourly' # "idle" => hourly # "idle"
        BY <1>6 DEF ApplyAccount, HourlyApplyAccount
    <2>4. plan[who] \cap {"positions", "balance"} \in SUBSET Surfaces
        BY DEF Surfaces
    <2> QED
        BY <1>b, <2>2, <2>3, <2>4
<1>7. CASE FinalizeRefresh \/ HourlyFinalize
    <2>1. PICK asked : Requested(asked)
        BY <1>a, <1>7, Finalized DEF FinalizeRefresh, HourlyFinalize
    <2>2. hourly' # "idle" => hourly # "idle"
        BY <1>7 DEF FinalizeRefresh, HourlyFinalize
    <2> QED
        BY <1>c, <2>1, <2>2
<1>8. CASE ProtectiveWave \/ RequestAfterBarrier \/ Invalidate
    <2>1. PICK S : Request(S)
        BY <1>8 DEF ProtectiveWave, RequestAfterBarrier, Invalidate
    <2> QED
        BY <1>c, <2>1, RequestsMade
<1>9. CASE Barrier
    <2>1. UNCHANGED <<fresh, reread, suspect, overlap, hourly>>
        BY <1>9 DEF Barrier
    <2>2. MissingSurfaces = {} => next = {}
        BY DEF MissingSurfaces, RequiredSurfaces, pending
    <2>3. next' = next
        BY <1>9, <2>2 DEF Barrier
    <2> QED
        BY <2>1, <2>3 DEF OverlapStamps
<1>10. CASE RefreshFails \/ HourlyFails \/ TakeFillLock \/ EnsureReady \/ EndCycle
            \/ CalmDown \/ UNCHANGED authVars
    <2>1. UNCHANGED <<fresh, next, reread, suspect, overlap>>
          /\ (hourly' # "idle" => hourly # "idle")
        BY <1>10 DEF RefreshFails, HourlyFails, TakeFillLock, EnsureReady, EndCycle, CalmDown,
           authVars
    <2> QED
        BY <2>1 DEF OverlapStamps
<1> QED
    BY <1>1, <1>2, <1>3, <1>4, <1>5, <1>6, <1>7, <1>8, <1>9, <1>10
       DEF Next, Loop, Maintenance

-----------------------------------------------------------------------------
(* The barrier.                                                             *)

\* Where the barrier finds nothing missing, what is unread is suspect.
LEMMA OpenBarrier ==
    ASSUME IInv, phase = "gate", MissingSurfaces = {}
    PROVE  Surfaces \ reread \subseteq suspect /\ next = {} /\ pending \subseteq fresh
<1>1. next = {} /\ pending \subseteq fresh
    BY DEF MissingSurfaces, RequiredSurfaces, pending
<1>2. SUFFICES ASSUME NEW s \in Surfaces, s \notin reread, s \notin suspect PROVE FALSE
    BY <1>1
<1>3. s \in due /\ s \in fresh
    BY <1>1, <1>2 DEF IInv, UnreadIsPending, pending
<1>4. CASE overlap
    BY <1>1, <1>2, <1>3, <1>4 DEF IInv, OverlapStamps
<1>5. CASE ~ overlap /\ s # "fills"
    BY <1>1, <1>2, <1>3, <1>5 DEF IInv, Alone, StampsAreCurrent
<1>6. CASE ~ overlap /\ s = "fills"
    <2>1. Alone
        BY <1>6 DEF IInv
    <2>2. owner = "staged" \/ owner \in {"halted", "again"}
        BY DEF IInv, TypeOK, Owners, Control
    <2>3. CASE owner = "staged"
        BY <1>1, <1>2, <1>3, <1>6, <2>1, <2>3 DEF Alone, StagedFills, InCycle
    <2>4. CASE owner \in {"halted", "again"}
        BY <1>1, <1>2, <1>3, <1>6, <2>1, <2>4 DEF Alone, HaltedWaits, InCycle, pending
    <2> QED
        BY <2>2, <2>3, <2>4
<1> QED
    BY <1>4, <1>5, <1>6

\* What is read too late stays pending, or becomes suspect.
LEMMA UnreadKept == IInv /\ [Next]_authVars => UnreadIsPending'
<1> SUFFICES ASSUME IInv, [Next]_authVars PROVE UnreadIsPending'
    OBVIOUS
<1> USE DEF ledgerVars, requestVars, planVars, loopVars, fillVars, readVars, meetVars
<1>a. /\ "loop" \in Callers /\ "hourly" \in Callers /\ "prefetch" \in Callers
      /\ TypeOK /\ UnreadIsPending
    BY DEF Callers, IInv
<1>b. ASSUME NEW who \in Callers, NEW S, NEW asked, Committed(who, S, asked),
             overlap \/ S \subseteq flight[who] \cup pending
      PROVE  UnreadIsPending'
    BY <1>a, <1>b DEF Committed, UnreadIsPending, pending
<1>c. ASSUME NEW asked, Requested(asked) PROVE UnreadIsPending'
    BY <1>a, <1>c DEF Requested, UnreadIsPending, pending
<1>d. hourly # "idle" => overlap
    BY DEF IInv, OverlapStamps
<1>e. ~ overlap => Alone
    BY DEF IInv
<1>1. CASE StartStaged \/ StartHourly \/ StartEarly \/ StartHalted
    <2>1. PICK surfaces : SendReads("loop", surfaces) \/ SendReads("hourly", surfaces)
        BY <1>1 DEF StartStaged, StartHourly, StartEarly, StartHalted
    <2> QED
        BY <1>a, <2>1 DEF SendReads, UnreadIsPending, pending
<1>2. CASE PrefetchEnds
    <2>1. PICK ok \in BOOLEAN, newEvents \in BOOLEAN : FillsFetched("prefetch", ok, newEvents)
        BY <1>2 DEF PrefetchEnds
    <2>2. PICK asked : Committed("prefetch", IF ok THEN {"fills"} ELSE {}, asked)
        BY <1>a, <2>1, FillsCommitted
    <2>3. {"fills"} \subseteq flight["prefetch"] \cup pending
        BY <1>2 DEF PrefetchEnds, IInv, LatePrefetch, pending
    <2> QED
        BY <1>a, <1>b, <2>2, <2>3
<1>3. CASE StagedFillsEnd \/ TailFillsEnd
    <2>1. PICK ok \in BOOLEAN, newEvents \in BOOLEAN : FillsFetched("loop", ok, newEvents)
        BY <1>3 DEF StagedFillsEnd, TailFillsEnd
    <2>2. PICK asked : Committed("loop", IF ok THEN {"fills"} ELSE {}, asked)
        BY <1>a, <2>1, FillsCommitted
    <2>3. overlap \/ {"fills"} \subseteq flight["loop"] \cup pending
        BY <1>3, <1>e DEF StagedFillsEnd, TailFillsEnd, Alone, ReadsAreCurrent, pending
    <2> QED
        BY <1>a, <1>b, <2>2, <2>3
<1>4. CASE HourlyFillsEnd
    <2>1. PICK ok \in BOOLEAN, newEvents \in BOOLEAN : FillsFetched("hourly", ok, newEvents)
        BY <1>4 DEF HourlyFillsEnd
    <2>2. PICK asked : Committed("hourly", IF ok THEN {"fills"} ELSE {}, asked)
        BY <1>a, <2>1, FillsCommitted
    <2>3. overlap
        BY <1>4, <1>d DEF HourlyFillsEnd, IInv, Control
    <2> QED
        BY <1>a, <1>b, <2>2, <2>3
<1>5. CASE ApplyOpenOrders
    <2>1. Committed("loop", {"open_orders"}, {})
        BY <1>a, <1>5, OpenOrdersCommitted DEF ApplyOpenOrders
    <2>2. overlap \/ {"open_orders"} \subseteq flight["loop"] \cup pending
        BY <1>5, <1>e DEF ApplyOpenOrders, Alone, ReadsAreCurrent, Reading, pending, IInv,
           Control
    <2> QED
        BY <1>a, <1>b, <2>1, <2>2
<1>6. CASE ApplyAccount
    <2>1. PICK asked : Committed("loop", plan["loop"] \cap {"positions", "balance"}, asked)
        BY <1>a, <1>6, AccountCommitted DEF ApplyAccount
    <2>2. overlap \/ plan["loop"] \cap {"positions", "balance"} \subseteq flight["loop"] \cup pending
        BY <1>6, <1>e DEF ApplyAccount, Alone, ReadsAreCurrent, Reading, pending
    <2> QED
        BY <1>a, <1>b, <2>1, <2>2
<1>7. CASE HourlyApplyOpenOrders \/ HourlyApplyAccount
    <2>1. overlap
        BY <1>7, <1>d DEF HourlyApplyOpenOrders, HourlyApplyAccount
    <2>2. PICK S, asked : Committed("hourly", S, asked)
        BY <1>a, <1>7, OpenOrdersCommitted, AccountCommitted
           DEF HourlyApplyOpenOrders, HourlyApplyAccount
    <2> QED
        BY <1>a, <1>b, <2>1, <2>2
<1>8. CASE FinalizeRefresh \/ HourlyFinalize
    <2>1. PICK asked : Requested(asked)
        BY <1>a, <1>8, Finalized DEF FinalizeRefresh, HourlyFinalize
    <2> QED
        BY <1>c, <2>1
<1>9. CASE ProtectiveWave \/ RequestAfterBarrier \/ Invalidate
    <2>1. PICK S : Request(S)
        BY <1>9 DEF ProtectiveWave, RequestAfterBarrier, Invalidate
    <2> QED
        BY <1>c, <2>1, RequestsMade
<1>10. CASE Barrier
    <2>1. UNCHANGED <<reread, suspect>>
        BY <1>10 DEF Barrier
    <2>2. CASE MissingSurfaces = {}
        BY <1>10, <2>1, <2>2, OpenBarrier DEF Barrier, UnreadIsPending
    <2>3. CASE MissingSurfaces # {}
        BY <1>a, <1>10, <2>1, <2>3 DEF Barrier, UnreadIsPending, pending
    <2> QED
        BY <2>2, <2>3
<1>11. CASE RefreshFails \/ HourlyFails \/ TakeFillLock \/ EnsureReady \/ EndCycle
            \/ CalmDown \/ UNCHANGED authVars
    <2>1. UNCHANGED <<due, next, reread, suspect>>
        BY <1>11 DEF RefreshFails, HourlyFails, TakeFillLock, EnsureReady, EndCycle, CalmDown,
           authVars
    <2> QED
        BY <1>a, <2>1 DEF UnreadIsPending, pending
<1> QED
    BY <1>1, <1>2, <1>3, <1>4, <1>5, <1>6, <1>7, <1>8, <1>9, <1>10, <1>11
       DEF Next, Loop, Maintenance

-----------------------------------------------------------------------------
(* The loop's refresh without the other.                                    *)

\* A refresh that finds no maintenance refresh begins in good order, whatever was before.
LEMMA AloneBegins ==
    ASSUME IInv, StartStaged \/ StartEarly
    PROVE  Alone'
<1>a. /\ "loop" \in Callers /\ "prefetch" \in Callers
      /\ fillTask \in [Callers -> FillTasks] /\ before \in [Callers -> SUBSET Callers]
    BY DEF Callers, IInv, TypeOK
<1>1. PICK surfaces :
        /\ SendReads("loop", surfaces)
        /\ \/ owner' = "staged" /\ surfaces \in RefreshPlans /\ FetchFills("loop", surfaces)
           \/ owner' = "early" /\ UNCHANGED fillVars
    BY DEF StartStaged, StartEarly
<1>2. /\ fresh' = {} /\ changed' = {} /\ due' = due \cup next /\ next' = {}
      /\ planned' = surfaces /\ plan'["loop"] = surfaces
      /\ flight'["loop"] = surfaces \ {"fills"}
    BY <1>a, <1>1, Begun DEF IInv
<1>3. phase' = "fetch" /\ fillTask["loop"] = "none" /\ fillTask["prefetch"] # "done"
    BY DEF StartStaged, StartEarly, IInv, Control
<1>4. \/ /\ fillTask'["loop"] = "none"
      \/ /\ fillTask'["loop"] = "wait" /\ fillTask'["prefetch"] = fillTask["prefetch"]
         /\ fillTask["prefetch"] # "none" => "prefetch" \in before'["loop"]
    BY <1>a, <1>1, <1>3 DEF FetchFills, Ask, fillVars, Queued, FillTasks
<1>5. owner' = "staged" /\ "fills" \in due' => "fills" \in planned'
    BY <1>1, <1>2 DEF RefreshPlans, pending, Surfaces
<1>6. (RequestShape /\ StampsAreCurrent /\ ChangesExplained /\ HaltedWaits)'
    BY <1>1, <1>2, <1>3 DEF RequestShape, StampsAreCurrent, ChangesExplained, Decided,
       HaltedWaits
<1>7. (ReadsAreCurrent /\ LockOrder /\ StagedFills)'
    BY <1>2, <1>3, <1>4, <1>5 DEF ReadsAreCurrent, LockOrder, StagedFills
<1> QED
    BY <1>2, <1>6, <1>7 DEF Alone

LEMMA AloneGuards ==
    ASSUME IInv, Alone, StartHalted
    PROVE  Alone'
<1>1. /\ fresh' = {} /\ changed' = {} /\ due' = due \cup next /\ next' = {}
      /\ planned' = {"positions", "open_orders"} /\ plan'["loop"] = planned'
      /\ flight'["loop"] = planned'
      /\ reread' = reread
    <2>1. "loop" \in Callers /\ SendReads("loop", {"positions", "open_orders"}) /\ TypeOK
        BY DEF StartHalted, IInv, Callers
    <2>2. {"positions", "open_orders"} \ {"fills"} = {"positions", "open_orders"}
        OBVIOUS
    <2> QED
        BY <2>1, <2>2, Begun
<1>2. /\ phase \in {"guard", "again"} /\ phase' = "fetch"
      /\ owner' \in {"halted", "again"}
      /\ UNCHANGED <<fillTask, before>>
    BY DEF StartHalted, fillVars
<1>3. owner = "staged" \/ owner = "halted"
    BY <1>2 DEF IInv, Control
<1>4. fillTask["loop"] = "none"
    BY <1>2 DEF IInv, Control
<1>5. HaltedWaits'
    BY <1>1, <1>2, <1>3 DEF Alone, HaltedWaits, InCycle, pending, RequestShape, Decided,
       StagedFills, Surfaces
<1>6. (RequestShape /\ StampsAreCurrent /\ ChangesExplained /\ ReadsAreCurrent
       /\ LockOrder /\ StagedFills)'
    BY <1>1, <1>2, <1>4 DEF RequestShape, StampsAreCurrent, ChangesExplained, Decided,
       ReadsAreCurrent, LockOrder, StagedFills
<1> QED
    BY <1>1, <1>5, <1>6 DEF Alone

LEMMA AloneFails ==
    ASSUME IInv, Alone, RefreshFails
    PROVE  Alone'
<1>1. /\ UNCHANGED <<fresh, changed, due, next, planned, reread>>
      /\ fillTask'["loop"] = "none" /\ fillTask'["prefetch"] = fillTask["prefetch"]
      /\ phase \in {"fetch", "tail"}
      /\ \/ phase' = "idle"
         \/ /\ phase = "fetch" /\ phase' = "gate"
            /\ owner' = owner /\ owner \in {"halted", "again"}
    <2>1. /\ "loop" \in Callers /\ "prefetch" \in Callers
          /\ fillTask \in [Callers -> FillTasks]
        BY DEF IInv, TypeOK, Callers
    <2>2. fillTask' = [fillTask EXCEPT !["loop"] = "none"]
        BY DEF RefreshFails, Leave
    <2>3. /\ UNCHANGED <<fresh, changed, due, next, planned, reread>>
          /\ phase \in {"fetch", "tail"}
          /\ \/ phase' = "idle"
             \/ /\ phase = "fetch" /\ phase' = "gate"
                /\ owner' = owner /\ owner \in {"halted", "again"}
        BY DEF RefreshFails, ledgerVars, requestVars
    <2> QED
        BY <2>1, <2>2, <2>3
<1>2. changed \subseteq fresh
    BY DEF IInv, TypeOK
<1>3. (RequestShape /\ StampsAreCurrent /\ ChangesExplained /\ ReadsAreCurrent)'
    BY <1>1, <1>2 DEF Alone, RequestShape, InCycle, StampsAreCurrent, ChangesExplained,
       Decided, ReadsAreCurrent
<1>4. (LockOrder /\ StagedFills /\ HaltedWaits)'
    BY <1>1 DEF Alone, LockOrder, StagedFills, HaltedWaits, InCycle, pending
<1>5. ~ Reading'
    BY <1>1 DEF Reading
<1> QED
    BY <1>3, <1>4, <1>5 DEF Alone

LEMMA AloneTakes ==
    ASSUME IInv, Alone, TakeFillLock
    PROVE  Alone'
<1>a. /\ "loop" \in Callers /\ "prefetch" \in Callers
      /\ fillTask \in [Callers -> FillTasks] /\ flight \in [Callers -> SUBSET Surfaces]
    BY DEF Callers, IInv, TypeOK
<1>1. PICK c \in Callers :
        /\ fillTask[c] = "wait" /\ before[c] = {}
        /\ fillTask' = [fillTask EXCEPT ![c] = "run"]
        /\ flight' = [flight EXCEPT ![c] = @ \cup {"fills"}]
    BY DEF TakeFillLock
<1>2. UNCHANGED <<fresh, changed, due, next, planned, plan, reread, phase, owner, before>>
    BY DEF TakeFillLock, ledgerVars, requestVars, planVars, loopVars
<1>3. /\ flight["loop"] \subseteq flight'["loop"]
      /\ fillTask'["prefetch"] = "none" <=> fillTask["prefetch"] = "none"
      /\ fillTask'["loop"] \in {"wait", "run"} <=> fillTask["loop"] \in {"wait", "run"}
      /\ fillTask'["loop"] = "done" <=> fillTask["loop"] = "done"
      /\ fillTask'["loop"] = "run" =>
            \/ fillTask["loop"] = "run"
            \/ /\ fillTask["prefetch"] = "none" /\ "fills" \in flight'["loop"]
    BY <1>a, <1>1 DEF Alone, LockOrder
<1>4. (RequestShape /\ StampsAreCurrent /\ ChangesExplained /\ HaltedWaits)'
    BY <1>2, <1>3 DEF Alone, RequestShape, InCycle, Decided, StampsAreCurrent,
       ChangesExplained, HaltedWaits, pending
<1>5. (ReadsAreCurrent /\ LockOrder /\ StagedFills)'
    BY <1>2, <1>3 DEF Alone, ReadsAreCurrent, LockOrder, StagedFills, InCycle
<1> QED
    BY <1>2, <1>4, <1>5 DEF Alone, Reading

LEMMA AlonePrefetched ==
    ASSUME IInv, Alone, PrefetchEnds
    PROVE  Alone'
<1>a. /\ "loop" \in Callers /\ "prefetch" \in Callers
      /\ TypeOK /\ fillTask \in [Callers -> FillTasks]
    BY DEF Callers, IInv, TypeOK
<1>1. PICK ok \in BOOLEAN, newEvents \in BOOLEAN : FillsFetched("prefetch", ok, newEvents)
    BY DEF PrefetchEnds
<1>2. PICK asked \in {{}, Surfaces} :
        /\ Committed("prefetch", IF ok THEN {"fills"} ELSE {}, asked)
        /\ UNCHANGED <<planned, owner>>
    BY <1>a, <1>1, FillsCommitted
<1>3. /\ fillTask["prefetch"] = "run" /\ fillTask'["prefetch"] = "none"
      /\ fillTask'["loop"] = fillTask["loop"] /\ UNCHANGED <<phase, plan>>
    BY <1>a DEF PrefetchEnds, Leave
<1>4. flight'["loop"] = flight["loop"] \ asked
    BY <1>a, <1>2 DEF Committed, Callers
<1>5. fillTask["loop"] # "run"
    BY <1>a, <1>3 DEF TypeOK
<1>6. due \in SUBSET Surfaces /\ next \in SUBSET Surfaces /\ planned \in SUBSET Surfaces
    BY DEF IInv, TypeOK
<1>7. next' = next \/ next' = Surfaces
    BY <1>2, <1>6 DEF Committed
<1>8. RequestShape'
    BY <1>2, <1>3, <1>7 DEF Committed, Alone, RequestShape, InCycle, Decided
<1>9. (ReadsAreCurrent /\ StampsAreCurrent)'
    BY <1>2, <1>3, <1>4, <1>5, <1>6 DEF Committed, Alone, ReadsAreCurrent,
       StampsAreCurrent
<1>10. (LockOrder /\ StagedFills)'
    BY <1>2, <1>3, <1>5 DEF Committed, Alone, LockOrder, StagedFills, InCycle
<1>11. HaltedWaits'
    <2>1. HaltedWaits /\ LatePrefetch
        BY DEF IInv, Alone
    <2>2. CASE asked = Surfaces
        BY <1>2, <1>3, <2>1, <2>2 DEF Committed, HaltedWaits, InCycle, pending, Surfaces
    <2>3. CASE asked = {}
        BY <1>2, <1>3, <2>1, <2>3 DEF Committed, HaltedWaits, LatePrefetch, InCycle,
           pending
    <2> QED
        BY <1>2, <2>2, <2>3
<1>12. ChangesExplained'
    BY <1>2, <1>3, <1>7 DEF Committed, Alone, ChangesExplained, Decided
<1> QED
    BY <1>2, <1>3, <1>8, <1>9, <1>10, <1>11, <1>12 DEF Alone, Reading

LEMMA AloneFetched ==
    ASSUME IInv, Alone, StagedFillsEnd \/ TailFillsEnd
    PROVE  Alone'
<1>a. /\ "loop" \in Callers /\ "prefetch" \in Callers /\ "loop" # "prefetch"
      /\ TypeOK /\ Control /\ fillTask \in [Callers -> FillTasks]
      /\ due \in SUBSET Surfaces /\ next \in SUBSET Surfaces /\ planned \in SUBSET Surfaces
    BY DEF Callers, IInv, TypeOK
<1>1. PICK ok \in BOOLEAN, newEvents \in BOOLEAN :
        /\ FillsFetched("loop", ok, newEvents)
        /\ fillTask["loop"] = "run" /\ UNCHANGED hourly
        /\ \/ /\ phase = "fetch" /\ phase' = IF ok THEN phase ELSE "idle"
              /\ Leave("loop", IF ok THEN "done" ELSE "none")
              /\ ok => plan' = plan
           \/ /\ phase = "tail" /\ phase' \in {"again", "gate"}
              /\ Leave("loop", "none")
    BY DEF StagedFillsEnd, TailFillsEnd
<1>2. PICK asked \in {{}, Surfaces} :
        /\ Committed("loop", IF ok THEN {"fills"} ELSE {}, asked)
        /\ ok => flight'["loop"] = (flight["loop"] \ asked) \ {"fills"}
        /\ UNCHANGED <<planned, owner>>
    BY <1>a, <1>1, FillsCommitted
<1>3. /\ fillTask'["prefetch"] = fillTask["prefetch"]
      /\ phase = "fetch" /\ ok => fillTask'["loop"] = "done"
      /\ phase = "tail" => fillTask'["loop"] = "none"
      /\ ~ ok => fillTask'["loop"] = "none"
    BY <1>a, <1>1 DEF Leave
<1>4. next' = next \/ next' = Surfaces
    BY <1>a, <1>2 DEF Committed
<1>5. fillTask'["loop"] = "none" \/ fillTask'["loop"] = "done"
    BY <1>1, <1>3
<1>6. /\ phase = "fetch" => owner = "staged"
      /\ phase = "tail" => owner = "halted"
    BY <1>a, <1>1 DEF Control, Reading, TypeOK, Owners
<1>7. next = {} \/ next = Surfaces
    BY <1>1, <1>6 DEF Alone, RequestShape, InCycle, Decided
<1>8. RequestShape' /\ (Reading' => planned' = plan'["loop"])
    BY <1>1, <1>2, <1>4, <1>7 DEF Alone, RequestShape, Reading
<1>9. (ReadsAreCurrent /\ StampsAreCurrent)'
    BY <1>1, <1>2, <1>5 DEF Committed, Alone, ReadsAreCurrent, StampsAreCurrent
<1>10. LockOrder'
    BY <1>5 DEF LockOrder
<1>11. StagedFills'
    <2>1. (InCycle /\ owner = "staged" /\ "fills" \in due => "fills" \in planned)'
        BY <1>1, <1>2 DEF Committed, Alone, StagedFills, InCycle
    <2>2. phase' = "fetch" => "fills" \in reread' \cup next'
        BY <1>1, <1>2 DEF Committed, Alone, ReadsAreCurrent
    <2>3. fillTask'["prefetch"] = "none"
        BY <1>1, <1>3 DEF Alone, StagedFills
    <2> QED
        BY <1>1, <1>2, <1>5, <1>6, <2>1, <2>2, <2>3 DEF StagedFills
<1>12. HaltedWaits'
    <2> SUFFICES ASSUME InCycle', owner' \in {"halted", "again"}
                 PROVE  /\ "balance" \notin fresh'
                        /\ "fills" \in pending' \ reread'
                             /\ (fillTask'["prefetch"] # "none" \/ "fills" \in fresh')
                           => "balance" \in pending'
        BY DEF HaltedWaits
    <2>1. phase = "tail" /\ owner = "halted" /\ InCycle
        BY <1>1, <1>2, <1>6 DEF InCycle
    <2>2. HaltedWaits /\ ReadsAreCurrent
        BY DEF Alone
    <2>3. CASE asked = Surfaces
        BY <1>2, <2>1, <2>2, <2>3 DEF Committed, HaltedWaits, pending, Surfaces
    <2>4. CASE asked = {} /\ next = Surfaces
        BY <1>2, <2>1, <2>2, <2>4 DEF Committed, HaltedWaits, pending, Surfaces
    <2>5. CASE asked = {} /\ next = {}
        BY <1>1, <1>2, <1>3, <2>1, <2>2, <2>5 DEF Committed, HaltedWaits,
           ReadsAreCurrent, pending
    <2> QED
        BY <1>2, <1>7, <2>3, <2>4, <2>5
<1>13. ChangesExplained'
    BY <1>1, <1>2, <1>4 DEF Committed, Alone, ChangesExplained, Decided
<1> QED
    BY <1>8, <1>9, <1>10, <1>11, <1>12, <1>13 DEF Alone

LEMMA AloneApplies ==
    ASSUME IInv, Alone, ApplyOpenOrders
    PROVE  Alone'
<1>a. /\ "loop" \in Callers /\ "prefetch" \in Callers /\ "loop" # "prefetch"
      /\ TypeOK /\ Control /\ fillTask \in [Callers -> FillTasks]
    BY DEF Callers, IInv, TypeOK
<1>1. /\ Committed("loop", {"open_orders"}, {})
      /\ changed' = changed
      /\ flight'["loop"] = flight["loop"] \ {"open_orders"}
      /\ fillTask' = [fillTask EXCEPT !["loop"] = "none"]
      /\ "fills" \in plan["loop"] => fillTask["loop"] = "done"
      /\ UNCHANGED <<planned, plan, owner, before, overlap>>
    BY <1>a, OpenOrdersCommitted DEF ApplyOpenOrders
<1>2. /\ phase = "fetch" /\ phase' = "applied"
      /\ fillTask'["loop"] = "none" /\ fillTask'["prefetch"] = fillTask["prefetch"]
    BY <1>a, <1>1 DEF ApplyOpenOrders
<1>3. planned = plan["loop"] /\ "open_orders" \in planned
    BY <1>a, <1>2 DEF Alone, Reading, Control
<1>4. due' = due /\ next' = next
    BY <1>1 DEF Committed
<1>5. (RequestShape /\ ChangesExplained /\ LockOrder)' /\ planned' = plan'["loop"]
    BY <1>1, <1>2, <1>3, <1>4 DEF Alone, RequestShape, InCycle, Decided, ChangesExplained,
       LockOrder
<1>6. (ReadsAreCurrent /\ StampsAreCurrent)'
    BY <1>1, <1>2, <1>3, <1>4 DEF Committed, Alone, ReadsAreCurrent, StampsAreCurrent
<1>7. StagedFills'
    BY <1>1, <1>2, <1>3, <1>4 DEF Committed, Alone, StagedFills, InCycle
<1>8. HaltedWaits'
    BY <1>1, <1>2, <1>4 DEF Committed, Alone, HaltedWaits, InCycle, pending
<1> QED
    BY <1>5, <1>6, <1>7, <1>8 DEF Alone

LEMMA AloneAccounts ==
    ASSUME IInv, Alone, ApplyAccount
    PROVE  Alone'
<1>a. /\ "loop" \in Callers /\ TypeOK /\ Control
      /\ due \in SUBSET Surfaces /\ next \in SUBSET Surfaces /\ planned \in SUBSET Surfaces
    BY DEF Callers, IInv, TypeOK
<1>1. PICK asked \in {{}, {"fills"}, Surfaces} :
        /\ Committed("loop", plan["loop"] \cap {"positions", "balance"}, asked)
        /\ asked = {"fills"} => "positions" \in changed'
        /\ UNCHANGED <<planned, plan, owner, fillTask, before, overlap>>
    BY <1>a, AccountCommitted DEF ApplyAccount
<1>2. phase = "applied" /\ phase' = "committed" /\ fillTask["loop"] = "none"
    BY <1>a DEF ApplyAccount, Control
<1>3. planned = plan["loop"]
    BY <1>2 DEF Alone, Reading
<1>4. next = {} \/ next = Surfaces
    BY <1>2 DEF Alone, RequestShape, InCycle, Decided
<1>5. next \cup {"fills"} = {"fills"} \/ next \cup {"fills"} = Surfaces
    BY <1>4 DEF Surfaces
<1>6. next \cup Surfaces = Surfaces /\ next \cup {} = next
    BY <1>a
<1>7. RequestShape'
    BY <1>1, <1>2, <1>4, <1>5, <1>6 DEF Committed, RequestShape
<1>8. (ReadsAreCurrent /\ LockOrder /\ ChangesExplained)' /\ planned' = plan'["loop"]
    BY <1>1, <1>2, <1>3 DEF Alone, ReadsAreCurrent, LockOrder, ChangesExplained, Decided
<1>9. StampsAreCurrent'
    BY <1>1, <1>2, <1>3 DEF Committed, Alone, StampsAreCurrent, ReadsAreCurrent
<1>10. StagedFills'
    BY <1>1, <1>2, <1>3 DEF Committed, Alone, StagedFills, InCycle
<1>11. HaltedWaits'
    <2> SUFFICES ASSUME owner \in {"halted", "again"}
                 PROVE  /\ "balance" \notin fresh'
                        /\ "fills" \in pending' \ reread'
                             /\ (fillTask'["prefetch"] # "none" \/ "fills" \in fresh')
                           => "balance" \in pending' \/ "positions" \in changed'
        BY <1>1, <1>2 DEF HaltedWaits
    <2>1. plan["loop"] = {"positions", "open_orders"}
        BY <1>a, <1>2 DEF Control, Reading
    <2>2. HaltedWaits /\ InCycle
        BY <1>2 DEF Alone, InCycle
    <2>3. fresh' = fresh \cup {"positions"}
        BY <1>1, <2>1 DEF Committed
    <2>4. CASE asked = Surfaces
        BY <1>1, <1>2, <2>2, <2>3, <2>4 DEF Committed, HaltedWaits, pending, Surfaces
    <2>5. CASE asked = {"fills"}
        BY <1>1, <1>2, <2>2, <2>3, <2>5 DEF HaltedWaits
    <2>6. CASE asked = {}
        <3>1. pending' = pending /\ ("fills" \in reread => "fills" \in reread')
            BY <1>1, <2>1, <2>6 DEF Committed, pending
        <3> QED
            BY <1>1, <1>2, <2>2, <2>3, <3>1 DEF HaltedWaits
    <2> QED
        BY <1>1, <2>4, <2>5, <2>6
<1> QED
    BY <1>7, <1>8, <1>9, <1>10, <1>11 DEF Alone

LEMMA AloneFinalizes ==
    ASSUME IInv, Alone, FinalizeRefresh
    PROVE  Alone'
<1>a. /\ "loop" \in Callers /\ "prefetch" \in Callers /\ "loop" # "prefetch"
      /\ TypeOK /\ Control /\ fillTask \in [Callers -> FillTasks]
      /\ next \in SUBSET Surfaces
    BY DEF Callers, IInv, TypeOK
<1>1. PICK asked \in {{}, Surfaces} :
        /\ Requested(asked)
        /\ "positions" \in changed /\ ("fills" \notin plan["loop"] \/ "fills" \notin changed)
             => asked = Surfaces
    BY <1>a, Finalized DEF FinalizeRefresh
<1>2. /\ phase = "committed"
      /\ \/ /\ owner = "staged" /\ owner' = "staged" /\ phase' = "settled"
            /\ UNCHANGED fillTask
         \/ /\ owner = "early" /\ phase' = "idle"
            /\ UNCHANGED fillTask
         \/ /\ owner \in {"halted", "again"} /\ owner' = owner /\ phase' = "gate"
            /\ UNCHANGED fillTask
         \/ /\ owner = "halted" /\ owner' = owner /\ phase' = "tail"
            /\ Ask("loop")
    BY <1>a DEF FinalizeRefresh, fillVars, TypeOK, Owners
<1>3. planned = plan["loop"] /\ fillTask["loop"] = "none" /\ fillTask["prefetch"] # "done"
    BY <1>a, <1>2 DEF Alone, Reading, Control
<1>4. /\ fillTask'["prefetch"] = fillTask["prefetch"]
      /\ \/ fillTask'["loop"] = "none"
         \/ /\ fillTask'["loop"] = "wait"
            /\ fillTask["prefetch"] # "none" => "prefetch" \in before'["loop"]
    BY <1>a, <1>2, <1>3 DEF Ask, Queued, FillTasks, TypeOK
<1>5. owner # "staged" => "fills" \notin plan["loop"]
    BY <1>a, <1>2 DEF Control, Reading, TypeOK, Owners
<1>6. next' = next \/ next' = Surfaces
    BY <1>a, <1>1 DEF Requested
<1>7. UNCHANGED <<fresh, changed, planned>> /\ phase' \notin {"fetch", "applied", "committed"}
    BY <1>1, <1>2 DEF Requested
<1>8. RequestShape'
    <2>1. RequestShape /\ InCycle
        BY <1>2 DEF Alone, InCycle
    <2>2. CASE next' = Surfaces
        BY <2>2 DEF RequestShape
    <2>3. CASE asked = {} /\ next' = next
        <3>1. next = {} \/ next = Surfaces \/ (next = {"fills"} /\ "positions" \in changed)
            BY <1>2, <2>1 DEF RequestShape
        <3>2. CASE next = {"fills"} /\ "positions" \in changed
            <4>1. "fills" \in planned /\ owner = "staged"
                BY <1>1, <1>3, <1>5, <2>3, <3>2 DEF Surfaces
            <4> QED
                BY <1>2, <1>7, <2>3, <3>2, <4>1 DEF RequestShape, Decided
        <3> QED
            BY <2>3, <3>1, <3>2 DEF RequestShape
    <2>4. asked = Surfaces => next' = Surfaces
        BY <1>a, <1>1 DEF Requested
    <2>5. asked = {} => next' = next
        BY <1>1 DEF Requested
    <2> QED
        BY <1>1, <2>2, <2>3, <2>4, <2>5
<1>9. (ReadsAreCurrent /\ LockOrder)'
    BY <1>4, <1>7 DEF ReadsAreCurrent, LockOrder
<1>10. StampsAreCurrent'
    BY <1>1 DEF Requested, Alone, StampsAreCurrent
<1>11. StagedFills'
    BY <1>1, <1>2, <1>4, <1>7 DEF Requested, Alone, StagedFills, InCycle
<1>12. HaltedWaits'
    <2> SUFFICES ASSUME InCycle', owner' \in {"halted", "again"}
                 PROVE  /\ "balance" \notin fresh'
                        /\ "fills" \in pending' \ reread'
                             /\ (fillTask'["prefetch"] # "none" \/ "fills" \in fresh')
                           => "balance" \in pending'
        BY DEF HaltedWaits
    <2>1. owner \in {"halted", "again"} /\ InCycle /\ HaltedWaits
        BY <1>2 DEF InCycle, Alone
    <2>2. CASE asked = Surfaces
        BY <1>1, <1>7, <2>1, <2>2 DEF Requested, HaltedWaits, pending, Surfaces
    <2>3. CASE asked = {}
        <3>1. "positions" \notin changed
            BY <1>1, <1>5, <2>1, <2>3 DEF Surfaces
        <3>2. pending' = pending /\ reread' = reread
            BY <1>1, <2>3 DEF Requested, pending
        <3> QED
            BY <1>4, <1>7, <2>1, <3>1, <3>2 DEF HaltedWaits
    <2> QED
        BY <1>1, <2>2, <2>3
<1>13. ChangesExplained'
    <2>1. asked = Surfaces => next' = Surfaces
        BY <1>a, <1>1 DEF Requested
    <2> QED
        BY <1>1, <1>7, <2>1 DEF ChangesExplained
<1> QED
    BY <1>7, <1>8, <1>9, <1>10, <1>11, <1>12, <1>13 DEF Alone, Reading

LEMMA AloneInvalidated ==
    ASSUME IInv, Alone, Invalidate
    PROVE  Alone'
<1>a. /\ "loop" \in Callers
      /\ due \in SUBSET Surfaces /\ next \in SUBSET Surfaces /\ planned \in SUBSET Surfaces
    BY DEF Callers, IInv, TypeOK
<1>1. /\ Requested(Surfaces)
      /\ UNCHANGED <<plan, fillTask, before, phase, owner>>
    BY RequestsMade DEF Invalidate
<1>2. next' = Surfaces /\ due' = {} /\ pending' = Surfaces
    BY <1>a, <1>1 DEF Requested, pending
<1>3. UNCHANGED <<fresh, changed, planned>>
    BY <1>1 DEF Requested
<1>4. (RequestShape /\ ReadsAreCurrent /\ StampsAreCurrent /\ LockOrder)'
    BY <1>a, <1>1, <1>2, <1>3 DEF Requested, Alone, RequestShape, ReadsAreCurrent,
       StampsAreCurrent, LockOrder, Surfaces
<1>5. (StagedFills /\ ChangesExplained)'
    BY <1>1, <1>2, <1>3 DEF Alone, StagedFills, InCycle, ChangesExplained, Decided, Surfaces
<1>6. HaltedWaits'
    BY <1>1, <1>2, <1>3 DEF Alone, HaltedWaits, InCycle, Surfaces
<1> QED
    BY <1>1, <1>3, <1>4, <1>5, <1>6 DEF Alone, Reading

\* Before a refresh and after the barrier hardly anything is asked.
LEMMA AloneOutside ==
    ASSUME IInv, Alone, EndCycle \/ ProtectiveWave \/ RequestAfterBarrier \/ Barrier
    PROVE  Alone'
<1>a. /\ "loop" \in Callers /\ Control
    BY DEF Callers, IInv
<1>1. /\ phase \in {"gate", "ready"} /\ phase' \in {"idle", "ready"}
      /\ UNCHANGED <<fillTask, before>>
    BY DEF EndCycle, ProtectiveWave, RequestAfterBarrier, Barrier, Request, fillVars
<1>2. fillTask["loop"] = "none"
    BY <1>a, <1>1 DEF Control
<1>3. StampsAreCurrent'
    <2>1. StampsAreCurrent
        BY DEF Alone
    <2>2. CASE EndCycle
        BY <2>1, <2>2 DEF EndCycle, StampsAreCurrent, ledgerVars, requestVars, readVars
    <2>3. CASE ProtectiveWave \/ RequestAfterBarrier
        <3>1. PICK S \in WriteRequests : Request(S)
            BY <2>3 DEF ProtectiveWave, RequestAfterBarrier
        <3>2. Requested(S)
            BY <3>1, RequestsMade
        <3> QED
            BY <2>1, <3>2 DEF Requested, StampsAreCurrent
    <2>4. CASE Barrier /\ MissingSurfaces = {}
        <3>1. next = {} /\ UNCHANGED <<fresh, reread>>
            BY <2>4, OpenBarrier DEF Barrier, ledgerVars, readVars
        <3> QED
            BY <2>1, <3>1 DEF StampsAreCurrent
    <2>5. CASE Barrier /\ MissingSurfaces # {}
        BY <2>1, <2>5 DEF Barrier, StampsAreCurrent, ledgerVars, requestVars, readVars
    <2> QED
        BY <2>2, <2>3, <2>4, <2>5
<1>4. (RequestShape /\ ReadsAreCurrent /\ LockOrder)'
    BY <1>1, <1>2 DEF RequestShape, InCycle, ReadsAreCurrent, LockOrder
<1>5. (StagedFills /\ HaltedWaits /\ ChangesExplained)'
    BY <1>1, <1>2 DEF StagedFills, HaltedWaits, InCycle, ChangesExplained, Decided
<1>6. ~ Reading'
    BY <1>1 DEF Reading
<1> QED
    BY <1>3, <1>4, <1>5, <1>6 DEF Alone

LEMMA AloneReady ==
    ASSUME IInv, Alone, EnsureReady
    PROVE  Alone'
<1>1. /\ phase = "settled" /\ phase' \in {"guard", "gate", "idle"} /\ owner = "staged"
      /\ UNCHANGED <<fresh, changed, due, next, planned, plan, owner, fillTask, before,
                     reread, flight>>
    BY DEF EnsureReady, IInv, Control, ledgerVars, requestVars, planVars, fillVars, readVars
<1>2. (RequestShape /\ ReadsAreCurrent /\ StampsAreCurrent /\ LockOrder)'
    BY <1>1 DEF Alone, RequestShape, InCycle, Decided, ReadsAreCurrent, StampsAreCurrent,
       LockOrder
<1>3. (StagedFills /\ HaltedWaits /\ ChangesExplained)'
    BY <1>1 DEF Alone, StagedFills, HaltedWaits, InCycle, ChangesExplained, Decided
<1> QED
    BY <1>1, <1>2, <1>3 DEF Alone, Reading

LEMMA AloneUndisturbed ==
    ASSUME Alone, CalmDown \/ UNCHANGED authVars
    PROVE  Alone'
<1>1. UNCHANGED <<fresh, changed, due, next, planned, plan, phase, owner, fillTask, before,
                  reread, flight>>
    BY DEF CalmDown, authVars, ledgerVars, requestVars, planVars, fillVars, readVars, loopVars
<1>2. (RequestShape /\ ReadsAreCurrent /\ StampsAreCurrent /\ LockOrder)'
    BY <1>1 DEF Alone, RequestShape, InCycle, Decided, ReadsAreCurrent, StampsAreCurrent,
       LockOrder
<1>3. (StagedFills /\ HaltedWaits /\ ChangesExplained)'
    BY <1>1 DEF Alone, StagedFills, HaltedWaits, InCycle, pending, ChangesExplained, Decided
<1> QED
    BY <1>1, <1>2, <1>3 DEF Alone, Reading

\* The maintenance refresh runs only in an overlap, which it does not end itself.
LEMMA HourlyOverlaps ==
    ASSUME IInv, StartHourly \/ HourlyFails \/ Maintenance
    PROVE  overlap'
<1>1. CASE StartHourly
    BY <1>1 DEF StartHourly
<1>2. CASE HourlyFails
    BY <1>2 DEF HourlyFails, IInv, OverlapStamps, meetVars
<1>3. CASE HourlyFillsEnd
    <2>1. UNCHANGED overlap
        BY <1>3 DEF HourlyFillsEnd, FillsFetched
    <2>2. hourly = "fetch"
        BY <1>3 DEF HourlyFillsEnd, IInv, Control
    <2> QED
        BY <2>1, <2>2 DEF IInv, OverlapStamps
<1>4. CASE HourlyApplyOpenOrders
    BY <1>4 DEF HourlyApplyOpenOrders, CommitOpenOrders, IInv, OverlapStamps
<1>5. CASE HourlyApplyAccount
    BY <1>5 DEF HourlyApplyAccount, CommitAccount, IInv, OverlapStamps
<1>6. CASE HourlyFinalize
    BY <1>6 DEF HourlyFinalize, Finalize, IInv, OverlapStamps
<1> QED
    BY <1>1, <1>2, <1>3, <1>4, <1>5, <1>6 DEF Maintenance

\* Only the beginning of a cycle's first refresh ends an overlap.
LEMMA OverlapEnds ==
    ASSUME Next, overlap, ~ overlap'
    PROVE  StartStaged \/ StartEarly
<1>1. ~ (TakeFillLock \/ RefreshFails \/ HourlyFails \/ CalmDown \/ Barrier \/ EndCycle
         \/ EnsureReady \/ StartHalted)
    BY DEF TakeFillLock, RefreshFails, HourlyFails, CalmDown, Barrier, EndCycle,
       EnsureReady, StartHalted, meetVars
<1>2. ~ (PrefetchEnds \/ StagedFillsEnd \/ TailFillsEnd \/ HourlyFillsEnd \/ StartHourly)
    BY DEF PrefetchEnds, StagedFillsEnd, TailFillsEnd, HourlyFillsEnd, FillsFetched,
       StartHourly
<1>3. ~ (ApplyOpenOrders \/ ApplyAccount \/ FinalizeRefresh \/ HourlyApplyOpenOrders
         \/ HourlyApplyAccount \/ HourlyFinalize)
    BY DEF ApplyOpenOrders, ApplyAccount, FinalizeRefresh, HourlyApplyOpenOrders,
       HourlyApplyAccount, HourlyFinalize, CommitOpenOrders, CommitAccount, Finalize
<1>4. ~ (ProtectiveWave \/ RequestAfterBarrier \/ Invalidate)
    BY DEF ProtectiveWave, RequestAfterBarrier, Invalidate, Request
<1> QED
    BY <1>1, <1>2, <1>3, <1>4 DEF Next, Loop, Maintenance

LEMMA AloneKept == IInv /\ [Next]_authVars => (~ overlap => Alone)'
<1> SUFFICES ASSUME IInv, [Next]_authVars, ~ overlap' PROVE Alone'
    OBVIOUS
<1>1. CASE StartStaged \/ StartEarly
    BY <1>1, AloneBegins
<1>2. CASE UNCHANGED authVars
    BY <1>2, AloneUndisturbed DEF IInv, authVars, meetVars
<1>3. CASE Next /\ ~ (StartStaged \/ StartEarly)
    <2>1. Alone
        BY <1>3, OverlapEnds DEF IInv
    <2>2. ~ (StartHourly \/ HourlyFails \/ Maintenance)
        BY HourlyOverlaps
    <2> QED
        BY <1>3, <2>1, <2>2, AloneGuards, AloneFails, AloneTakes, AlonePrefetched,
           AloneFetched, AloneApplies, AloneAccounts, AloneFinalizes, AloneInvalidated,
           AloneOutside, AloneReady, AloneUndisturbed DEF Next, Loop
<1> QED
    BY <1>1, <1>2, <1>3

-----------------------------------------------------------------------------
(* The invariant.                                                           *)

\* _authoritative_execution_barrier_state is the only way to planning and execution.
LEMMA OnlyTheBarrierOpens ==
    ASSUME Next, phase # "ready", phase' = "ready"
    PROVE  Barrier /\ phase = "gate" /\ MissingSurfaces = {}
<1>1. ~ (StartStaged \/ StartEarly \/ StartHalted \/ StartHourly)
    BY DEF StartStaged, StartEarly, StartHalted, StartHourly
<1>2. ~ (RefreshFails \/ HourlyFails \/ TakeFillLock \/ PrefetchEnds \/ StagedFillsEnd
         \/ HourlyFillsEnd \/ TailFillsEnd)
    BY DEF RefreshFails, HourlyFails, TakeFillLock, PrefetchEnds, StagedFillsEnd,
       HourlyFillsEnd, TailFillsEnd, loopVars
<1>3. ~ (ApplyOpenOrders \/ ApplyAccount \/ FinalizeRefresh \/ HourlyApplyOpenOrders
         \/ HourlyApplyAccount \/ HourlyFinalize)
    BY DEF ApplyOpenOrders, ApplyAccount, FinalizeRefresh, HourlyApplyOpenOrders,
       HourlyApplyAccount, HourlyFinalize
<1>4. ~ (EnsureReady \/ RequestAfterBarrier \/ ProtectiveWave \/ Invalidate \/ EndCycle
         \/ CalmDown)
    BY DEF EnsureReady, RequestAfterBarrier, ProtectiveWave, Invalidate, EndCycle, CalmDown,
       loopVars
<1>5. Barrier
    BY <1>1, <1>2, <1>3, <1>4 DEF Next, Loop, Maintenance
<1> QED
    BY <1>5 DEF Barrier

\* Past the barrier the signatures change with a fill refresh or in an overlap only.
LEMMA ExplainedKept == IInv /\ [Next]_authVars => ReadyPositionsExplained'
<1> SUFFICES ASSUME IInv, [Next]_authVars, phase' = "ready", "positions" \in changed',
                    ~ overlap'
             PROVE  "fills" \in changed'
    BY DEF ReadyPositionsExplained
<1>1. CASE UNCHANGED authVars
    BY <1>1 DEF IInv, ReadyPositionsExplained, authVars, loopVars, meetVars, ledgerVars
<1>2. CASE Next /\ phase # "ready"
    <2>1. Barrier /\ phase = "gate" /\ MissingSurfaces = {}
        BY <1>2, OnlyTheBarrierOpens
    <2>2. UNCHANGED <<changed, overlap>>
        BY <2>1 DEF Barrier, ledgerVars, meetVars
    <2>3. next = {}
        BY <2>1, OpenBarrier
    <2>4. ChangesExplained
        BY <2>2 DEF IInv, Alone
    <2> QED
        BY <2>1, <2>2, <2>3, <2>4 DEF ChangesExplained, Decided, Surfaces
<1>3. CASE Next /\ phase = "ready"
    <2>1. ~ (StartHourly \/ HourlyFails \/ Maintenance)
        BY HourlyOverlaps
    <2>2. ~ (StartStaged \/ StartEarly)
        BY <1>3 DEF StartStaged, StartEarly
    <2>3. ~ overlap
        BY <1>3, <2>2, OverlapEnds
    <2>4. "positions" \in changed => "fills" \in changed
        BY <1>3, <2>3 DEF IInv, ReadyPositionsExplained
    <2>5. CASE PrefetchEnds
        <3>1. PICK ok \in BOOLEAN, newEvents \in BOOLEAN :
                FillsFetched("prefetch", ok, newEvents)
            BY <2>5 DEF PrefetchEnds
        <3>2. changed \subseteq changed' /\ changed' \subseteq changed \cup {"fills"}
            BY <3>1, FillsCommitted DEF Callers, IInv, Committed
        <3> QED
            BY <2>4, <3>2
    <2>6. CASE TakeFillLock \/ RequestAfterBarrier \/ Invalidate \/ CalmDown
        <3>1. UNCHANGED changed
            BY <2>6 DEF TakeFillLock, RequestAfterBarrier, Invalidate, CalmDown, Request,
               ledgerVars
        <3> QED
            BY <2>4, <3>1
    <2>7. ~ (StartHalted \/ StagedFillsEnd \/ TailFillsEnd \/ ApplyOpenOrders \/ ApplyAccount
             \/ FinalizeRefresh \/ EnsureReady \/ Barrier \/ EndCycle \/ RefreshFails
             \/ ProtectiveWave)
        BY <1>3 DEF StartHalted, StagedFillsEnd, TailFillsEnd, ApplyOpenOrders, ApplyAccount,
           FinalizeRefresh, EnsureReady, Barrier, EndCycle, RefreshFails, ProtectiveWave
    <2> QED
        BY <1>3, <2>1, <2>2, <2>5, <2>6, <2>7 DEF Next, Loop
<1> QED
    BY <1>1, <1>2, <1>3

\* Every step, whoever takes it, keeps the invariant.
LEMMA NextKeeps == IInv /\ [Next]_authVars => IInv'
<1> SUFFICES ASSUME IInv, [Next]_authVars PROVE IInv'
    OBVIOUS
<1>1. TypeOK' /\ LockQueue' /\ Control'
    BY TypesKept, QueueKept, ControlKept DEF IInv
<1>2. LatePrefetch' /\ OverlapStamps'
    BY LateKept, OverlapKept DEF IInv
<1>3. UnreadIsPending' /\ ReadyPositionsExplained'
    BY UnreadKept, ExplainedKept
<1>4. (~ overlap => Alone)'
    BY AloneKept
<1> QED
    BY <1>1, <1>2, <1>3, <1>4 DEF IInv

\* A process that has read nothing awaits nothing.
LEMMA InitHolds == Init => IInv
<1> SUFFICES ASSUME Init PROVE IInv
    OBVIOUS
<1>1. TypeOK
    BY DEF Init, TypeOK, Surfaces, Compared, Phases, Owners, Steps, FillTasks, Callers
<1>2. /\ \A c \in Callers : fillTask[c] = "none" /\ before[c] = {}
      /\ fillTask["loop"] = "none" /\ fillTask["hourly"] = "none"
      /\ fillTask["prefetch"] = "none"
    BY DEF Init, Callers
<1>3. LockQueue
    BY <1>2 DEF LockQueue, Queued
<1>4. Control /\ LatePrefetch
    BY <1>2 DEF Init, Control, Reading, LatePrefetch
<1>5. OverlapStamps /\ UnreadIsPending /\ ReadyPositionsExplained
    BY DEF Init, OverlapStamps, UnreadIsPending, ReadyPositionsExplained
<1>6. Alone
    BY <1>2 DEF Init, Alone, Reading, RequestShape, InCycle, ReadsAreCurrent,
       StampsAreCurrent, LockOrder, StagedFills, HaltedWaits, ChangesExplained, Decided
<1> QED
    BY <1>1, <1>3, <1>4, <1>5, <1>6 DEF IInv

\* The two together.
LEMMA Invariance == Spec => []IInv
<1>1. Init => IInv
    BY InitHolds
<1>2. IInv /\ [Next]_authVars => IInv'
    BY NextKeeps
<1> QED
    BY <1>1, <1>2, PTL DEF Spec

-----------------------------------------------------------------------------
(* The theorems.                                                            *)

\* The ledger, the confirmations, both refreshes and the lock keep their types; in
\* particular the callers of update_pnls are never inside the lock together, and no
\* confirmation is both due and awaiting the next epoch.
THEOREM StateTypes == Spec => []TypeOK
<1>1. IInv => TypeOK
    BY DEF IInv
<1> QED
    BY <1>1, Invariance, PTL

\* No invalidation is lost, wherever it lands: a surface whose committed value was read
\* before the last _request_authoritative_confirmation for it is still pending, unless
\* it was stamped while a maintenance refresh overlapped the loop's.
THEOREM NoRequestLost == Spec => []UnreadIsPending
<1>1. IInv => UnreadIsPending
    BY DEF IInv
<1> QED
    BY <1>1, Invariance, PTL

\* The loop plans and executes only in cycles in which a changed position came with a
\* changed fill history (_finalize_authoritative_refresh_consistency), or into which a
\* maintenance refresh ran.
THEOREM PositionsExplained == Spec => []ReadyPositionsExplained
<1>1. IInv => ReadyPositionsExplained
    BY DEF IInv
<1> QED
    BY <1>1, Invariance, PTL

\* The barrier opens only when every surface was read after the last request for it, or
\* was stamped while a maintenance refresh overlapped the loop's.
THEOREM OpensConfirmed == Spec => OpensOnConfirmedState
<1>1. IInv /\ [Next]_authVars
          => [phase # "ready" /\ phase' = "ready"
                => Surfaces \ reread \subseteq suspect]_authVars
    <2> SUFFICES ASSUME IInv, Next, phase # "ready", phase' = "ready"
                 PROVE  Surfaces \ reread \subseteq suspect
        BY DEF authVars
    <2> QED
        BY OnlyTheBarrierOpens, OpenBarrier
<1> QED
    BY <1>1, Invariance, PTL DEF Spec, OpensOnConfirmedState
=============================================================================
