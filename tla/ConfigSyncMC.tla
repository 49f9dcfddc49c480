---------------------------- MODULE ConfigSyncMC ----------------------------
EXTENDS ConfigSync, TLC
CONSTANTS r1, q1, q2

\* A proxy change, and the two OIDC changes that are each valid alone.
MCPatches ==
    {[scope |-> "proxy", field |-> "selected", value |-> TRUE],
     [scope |-> "oidc", field |-> "selected", value |-> TRUE],
     [scope |-> "oidc", field |-> "supported", value |-> FALSE]}
=============================================================================
