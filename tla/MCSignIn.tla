------------------------------ MODULE MCSignIn ------------------------------
(* SignIn for TLC: overlapping requests and logins for one address.        *)
EXTENDS SignIn
CONSTANTS c1, c2, l1, l2
=============================================================================
