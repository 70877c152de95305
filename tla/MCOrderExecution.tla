-------------------------- MODULE MCOrderExecution --------------------------
(* Two resting orders of one symbol: one to replace the other. *)
EXTENDS OrderExecution

CONSTANTS o1, o2, s1

MCSymbolOf == [o \in Orders |-> s1]

=============================================================================
