--------------------------- MODULE ExerciseRunMC ---------------------------
(* Finite instances of ExerciseRun. *)
EXTENDS ExerciseRun, TLC

CONSTANTS u1, u2, g1, n1, n2, i1, i2, x

\* A branching start node: one option leads to n2, the other ends the path.
BranchNodes == {n1, n2}
BranchSuccessors == [n \in BranchNodes |-> IF n = n1 THEN {n2, NoNode} ELSE {NoNode}]

\* i1 opens the run for everybody, i2 is its timed follow-up for team g1 and
\* x an ad hoc inject.
BranchInjects == {i1, i2, x}
BranchNodeOf == [i \in BranchInjects |->
                    CASE i = i1 -> n1 [] i = i2 -> n2 [] OTHER -> NoNode]
BranchAudience == [i \in BranchInjects |-> IF i = i2 THEN {g1} ELSE {}]

Symmetry == Permutations(Requests) \cup Permutations(Users)
=============================================================================
