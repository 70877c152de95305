--------------------------- MODULE MCHslProtection ---------------------------
(* Small instances of HslProtection: the scopes are model values. *)
EXTENDS HslProtection

CONSTANTS a, b
=============================================================================
