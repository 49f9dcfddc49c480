---------------------------- MODULE RunContract ----------------------------
(***************************************************************************)
(* What one exercise promises the people taking part, with no database,    *)
(* no requests and no stale reads: a run moves through its lifecycle, an   *)
(* inject is opened once, while the run is live, to a non-empty audience   *)
(* fixed at that moment, and each member of that audience closes its own   *)
(* path at most once.  ExerciseRun is checked and proved to implement it.  *)
(***************************************************************************)
CONSTANTS Injects,   \* the injects of the exercise
          Contexts   \* the paths through it: one per team, and the shared one

VARIABLES phase,     \* lifecycle phase of the run
          audience,  \* audience[i]: contexts inject i was opened to
          answered   \* answered[i]: contexts that have closed their path

vars == <<phase, audience, answered>>

\* The moves the lifecycle allows.
Moves == { <<"draft", "active">>, <<"active", "paused">>,
           <<"paused", "active">>, <<"active", "completed">>,
           <<"paused", "completed">> }

Init == /\ phase = "draft"
        /\ audience = [i \in Injects |-> {}]
        /\ answered = [i \in Injects |-> {}]

Move(to) == /\ <<phase, to>> \in Moves
            /\ phase' = to
            /\ UNCHANGED <<audience, answered>>

\* Opening is for a live run only, to somebody, and once.
Open(i) == /\ phase = "active"
           /\ audience[i] = {}
           /\ \E A \in (SUBSET Contexts) \ {{}} :
                 audience' = [audience EXCEPT ![i] = A]
           /\ UNCHANGED <<phase, answered>>

\* Nobody outside the audience closes a path, and nobody closes one twice.
Answer(i, c) == /\ phase # "draft"
                /\ c \in audience[i] \ answered[i]
                /\ answered' = [answered EXCEPT ![i] = @ \cup {c}]
                /\ UNCHANGED <<phase, audience>>

Next == \/ \E to \in {"active", "paused", "completed"} : Move(to)
        \/ \E i \in Injects : Open(i)
        \/ \E i \in Injects, c \in Contexts : Answer(i, c)

Spec == Init /\ [][Next]_vars
=============================================================================
