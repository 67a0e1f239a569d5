------------------------- MODULE MCResourceCreation -------------------------
(* ResourceCreation for TLC: a few keys and callers.                       *)
EXTENDS ResourceCreation

CONSTANTS k1, k2, c1, c2
=============================================================================
