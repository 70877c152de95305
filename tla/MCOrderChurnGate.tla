-------------------------- MODULE MCOrderChurnGate --------------------------
(* One order of a cohort at three drifting prices, or one of another cohort. *)
EXTENDS OrderChurnGate

CONSTANTS a, b

O(c, p) == [cohort |-> c, price |-> p, qty |-> 1]

MCIdeals == {{O(a, 100)}, {O(a, 101)}, {O(a, 102)}, {O(b, 100)}}
=============================================================================
