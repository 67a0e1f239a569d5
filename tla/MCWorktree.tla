----------------------------- MODULE MCWorktree -----------------------------
(* Worktree for TLC: a few Units, keys and requests.                       *)
EXTENDS Worktree, TLC

CONSTANTS t1, l1, m1, m2, d1, r1, r2

(* Requests are interchangeable: they differ by what they carry only.      *)
Symmetry == Permutations(Reqs)
=============================================================================
