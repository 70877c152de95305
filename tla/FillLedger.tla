----------------------------- MODULE FillLedger -----------------------------
(***************************************************************************)
(* What a fill history promises its consumers, without files, metadata,    *)
(* requests or crashes.                                                    *)
(***************************************************************************)
CONSTANT Fills

VARIABLES
    made,   \* the fills of the account
    kept,   \* the fills the history holds
    final   \* the fills it vouches for and will not ask for again

Init == made = {} /\ kept = {} /\ final = {}

Trade ==
    /\ \E f \in Fills : made' = made \cup {f}
    /\ UNCHANGED <<kept, final>>

\* The history learns of fills, and never unlearns one.
Learn ==
    /\ kept \subseteq kept' /\ kept' \subseteq made
    /\ UNCHANGED <<made, final>>

\* It may vouch for what it holds only.
Vouch ==
    /\ final' \subseteq kept'
    /\ kept \subseteq kept' /\ kept' \subseteq made
    /\ UNCHANGED made

Next == Trade \/ Learn \/ Vouch

Spec == Init /\ [][Next]_<<made, kept, final>>
=============================================================================
