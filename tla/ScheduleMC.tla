----------------------------- MODULE ScheduleMC -----------------------------
(* Finite instances of Schedule. *)
EXTENDS Schedule, TLC

CONSTANTS a, b

\* a opens the run and b is its timed follow-up, whose offset is the
\* scenario's, or which was added during the run and is timed by an edit.
BranchInjects == {a, b}
BranchLeads == [i \in BranchInjects |-> IF i = a THEN {b, NoInject} ELSE {NoInject}]
BranchOffset == [i \in BranchInjects |-> IF i = a THEN NoOffset ELSE 1]
ManualOffset == [i \in BranchInjects |-> NoOffset]
EditedOffsets == {1}

Symmetry == Permutations(Requests) \cup Permutations(Jobs)
=============================================================================
