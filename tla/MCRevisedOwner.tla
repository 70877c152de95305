--------------------------- MODULE MCRevisedOwner ---------------------------
(* One scope with one ordinary order and its protective close. *)
EXTENDS RevisedOwner

CONSTANTS e, p
=============================================================================
