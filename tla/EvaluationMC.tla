---------------------------- MODULE EvaluationMC ----------------------------
(* Evaluation on a small instance: one free-text response, two jobs, one    *)
(* request.                                                                 *)
EXTENDS Evaluation, TLC

CONSTANTS p1, j1, j2, q1
=============================================================================
