------------------------- MODULE MCPositionFillSync -------------------------
(***************************************************************************)
(* Two symbols on one position side under an aggregate (pside) HSL scope:  *)
(* a write on either symbol must wait for both keys.                       *)
(***************************************************************************)
EXTENDS PositionFillSync, TLC

Symmetry == Permutations(Symbols)

=============================================================================
