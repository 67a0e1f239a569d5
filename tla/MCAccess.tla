------------------------------ MODULE MCAccess ------------------------------
(* Access for TLC: one personal Space, its owner and one other user.       *)
EXTENDS Access
CONSTANTS n1, n2, b1, owner, u1
=============================================================================
