----------------------------- MODULE DeliveryMC -----------------------------
(* Delivery on small instances: a row for team red and a row for the        *)
(* console; the console's page and the page of a participant of team red.   *)
EXTENDS Delivery, TLC

CONSTANTS r1, r2, boss, player, released, edited

MCItem ==
    [e \in Events |->
       [kind |-> IF e = released THEN "inject_released" ELSE "inject_updated",
        groups |-> IF e = released THEN {"red"} ELSE {},
        author |-> "u1", team |-> NoGroup]]

MCViewer ==
    [c \in Clients |->
       IF c = boss THEN [user |-> "u1", role |-> "facilitator", group |-> NoGroup]
       ELSE [user |-> "u2", role |-> "participant", group |-> "red"]]

\* The replicas run the same program.
MCSymmetry == Permutations(Replicas)
=============================================================================
