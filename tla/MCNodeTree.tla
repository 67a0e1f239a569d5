----------------------------- MODULE MCNodeTree -----------------------------
(* NodeTree for TLC: a few Nodes, batches and sagas.                       *)
EXTENDS NodeTree, TLC

CONSTANTS n1, n2, n3, n4, b1, b2, b3, s1

Symmetry == Permutations(Nodes) \cup Permutations(Batches)
=============================================================================
