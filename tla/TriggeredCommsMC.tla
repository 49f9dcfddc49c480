-------------------------- MODULE TriggeredCommsMC --------------------------
(* Finite instances of TriggeredComms. *)
EXTENDS TriggeredComms

CONSTANTS teamA, teamB, msg

\* One message of a node that was seeded once for each of two teams.
TeamFires == [t \in Triggers |-> Injects]
TeamDelay == [t \in Triggers |-> 1]
=============================================================================
