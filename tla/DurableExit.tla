----------------------------- MODULE DurableExit -----------------------------
(***************************************************************************)
(* What a process that may die at any moment promises of its exits, on a   *)
(* medium whose writes may fail and which may be damaged between two lives *)
(* of the process: nothing of clocks, rows, quotes or the loop.            *)
(*                                                                         *)
(* Every decision is offered to the medium at once.  As long as the last   *)
(* write arrived (safe), a new life begins where the old one ended.        *)
(***************************************************************************)
CONSTANT Scopes

VARIABLES
    exit,       \* scope -> "none", "running" or "held"
    saved,      \* what the medium would bring back
    safe,       \* the last write arrived
    retired     \* scopes the configuration has taken out of service

vars == <<exit, saved, safe, retired>>

None == [s \in Scopes |-> "none"]

Init ==
    /\ exit = None /\ saved = None
    /\ safe = TRUE
    /\ retired = {}

\* The medium takes all that has been decided, or keeps what it has.
Write ==
    /\ \/ saved' = exit' /\ safe' = TRUE
       \/ saved' = saved /\ safe' = FALSE
    /\ UNCHANGED retired

\* A scope must be left, maybe once more.
Commit(s) == exit' = [exit EXCEPT ![s] = "running"] /\ Write

\* It has been left.
Flat(s) == exit[s] = "running" /\ exit' = [exit EXCEPT ![s] = "held"] /\ Write

\* Another authority answers for it: the only way out of an exit but retirement.
Release(s) == exit[s] = "held" /\ exit' = [exit EXCEPT ![s] = "none"] /\ Write

Retire == exit' = [s \in Scopes |-> IF s \in retired THEN "none" ELSE exit[s]] /\ Write

\* Another attempt to write.
Rewrite == UNCHANGED exit /\ Write

\* A new life, from what was saved, maybe under another configuration ...
Crash ==
    /\ exit' = saved /\ UNCHANGED saved
    /\ safe' = TRUE
    /\ retired' \subseteq Scopes

\* ... or from a medium that brings nothing back, and says so.
Damage ==
    /\ exit' = None /\ saved' = None
    /\ safe' = FALSE
    /\ retired' \subseteq Scopes

Next ==
    \/ Rewrite
    \/ \E s \in Scopes : Commit(s) \/ Flat(s) \/ Release(s)
    \/ Retire
    \/ Crash \/ Damage

Spec == Init /\ [][Next]_vars
=============================================================================
