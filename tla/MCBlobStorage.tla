---------------------------- MODULE MCBlobStorage ----------------------------
(* BlobStorage for TLC: the replacements are all of the first session.      *)
EXTENDS BlobStorage

CONSTANTS s1, s2, p1, p2, c1, c2

OfFirst == [r \in Replacements |-> s1]
=============================================================================
