----------------------------- MODULE AccountsMC -----------------------------
(* Accounts on a small instance: one address, an invite and a reset link for *)
(* it, two requests at a time.                                              *)
EXTENDS Accounts, TLC

CONSTANTS e1, l1, r1, q1, q2

RequestSymmetry == Permutations(Requests)
=============================================================================
