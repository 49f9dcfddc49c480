---------------------------- MODULE ExerciseRun ----------------------------
(***************************************************************************)
(* One exercise from draft to completed, as its database rows and the HTTP *)
(* requests and queue jobs that change them (app/services/exercise_service,*)
(* inject_service, progression_service, response_service and the routers   *)
(* above them).                                                            *)
(*                                                                         *)
(* A handler that reads first and locks or writes later is an action per   *)
(* read, which leaves what it saw in req[r], and a *Commit action that is  *)
(* its transaction.  Between any two anything may commit.  The             *)
(* transactions are single steps because the row locks they take exclude   *)
(* one another: release, roster and configuration edits hold Exercise FOR  *)
(* UPDATE; a response's INSERT takes FOR KEY SHARE on the same row, which  *)
(* that lock excludes, and locks its inject; a lifecycle change is one     *)
(* conditional UPDATE.                                                     *)
(***************************************************************************)
EXTENDS Integers, Sequences, FiniteSets

CONSTANTS
    Users,          \* accounts that can be enrolled
    Groups,         \* the scenario's participant teams
    NoGroup,        \* group_id NULL: the shared path
    Nodes,          \* scenario nodes
    NoNode,         \* scenario_node_id / current_node_id NULL
    StartNode,      \* definition.start_inject_id
    Successors,     \* Successors[n]: nodes (or NoNode) an answer at n can lead to
    Injects,        \* inject rows that may exist in the exercise
    NoInject,       \* current_inject_id NULL
    NodeOf,         \* NodeOf[i]: the inject's scenario node, or NoNode when ad hoc
    Audience,       \* Audience[i]: teams the inject targets, {} for everyone
    Seeded,         \* injects created from the scenario with the exercise
    Scheduled,      \* injects that carry a release_offset_minutes
    Requests,       \* slots for in-flight requests and jobs
    MaxTransitions  \* bound on lifecycle changes explored

Contexts == Groups \cup {NoGroup}

ASSUME ConstantsAssumption ==
    /\ NoGroup \notin Groups
    /\ NoNode \notin Nodes
    /\ StartNode \in Nodes
    /\ NoInject \notin Injects
    /\ Successors \in [Nodes -> SUBSET (Nodes \cup {NoNode})]
    /\ NodeOf \in [Injects -> Nodes \cup {NoNode}]
    /\ Audience \in [Injects -> SUBSET Groups]
    /\ Seeded \subseteq Injects
    /\ Scheduled \subseteq Injects
    /\ MaxTransitions \in Nat

VARIABLES
    state,      \* Exercise.state
    history,    \* ExerciseStateTransition rows, oldest first
    roster,     \* roster[u]: the user's ExerciseMember row
    inject,     \* inject[i]: Inject.state, or "absent" / "deleted" for no row
    duringRun,  \* injects whose created_during_run is true
    snapshot,   \* injects in the frozen launch snapshot
    progress,   \* progress[i][c]: InjectProgress.state, "none" for no row
    cursor,     \* cursor[c]: the ExerciseProgress row of context c
    responses,  \* Response rows
    req         \* req[r]: what request r has read and not yet acted on

vars == <<state, history, roster, inject, duringRun, snapshot, progress,
          cursor, responses, req>>

-----------------------------------------------------------------------------
(* Row types.                                                              *)

States == {"draft", "active", "paused", "completed"}
NotEnrolled == [group |-> NoGroup, role |-> "none"]
Membership == [group : Contexts, role : {"participant", "other"}] \cup {NotEnrolled}
InjectStates == {"absent", "pending", "released", "resolved", "deleted"}
ProgressStates == {"none", "released", "resolved"}
Cursor == [node : Nodes \cup {NoNode}, inject : Injects \cup {NoInject}]
Response == [user : Users, inject : Injects, group : Contexts]

Idle == [op |-> "idle"]
Request ==
    {Idle}
    \cup [op : {"transition"}, seen : States, target : States]
    \cup [op : {"release"}, inject : Injects, scheduled : BOOLEAN]
    \cup [op : {"access", "member"}, user : Users]
    \cup [op : {"inject", "visible"}, user : Users, inject : Injects]
    \cup [op : {"respond"}, user : Users, inject : Injects, group : Contexts,
          next : Nodes \cup {NoNode}]

TypeOK ==
    /\ state \in States
    /\ history \in Seq(States \X States)
    /\ roster \in [Users -> Membership]
    /\ inject \in [Injects -> InjectStates]
    /\ duringRun \in SUBSET Injects
    /\ snapshot \in SUBSET Injects
    /\ progress \in [Injects -> [Contexts -> ProgressStates]]
    /\ cursor \in [Contexts -> Cursor]
    /\ responses \in SUBSET Response
    /\ req \in [Requests -> Request]

-----------------------------------------------------------------------------
(* What the handlers compute.                                              *)

ValidTransitions ==
    { <<"draft", "active">>, <<"active", "paused">>, <<"active", "completed">>,
      <<"paused", "active">>, <<"paused", "completed">> }

\* UPDATE ... WHERE state = :observed RETURNING id found its row.
\* BlindTransition is the variant that writes the state unconditionally.
BlindTransition(seen) == TRUE
TransitionWins(seen) == state = seen

\* release_inject reads the state again from the row it has locked
\* (#265); NoRecheck trusts the route's earlier check.
NoRecheck == TRUE
StillActive == state = "active"

\* DELETE ... WHERE state = 'pending' RETURNING id found its row;
\* DeleteAny is the variant without the condition.
DeleteAny(i) == inject[i] \notin {"absent", "deleted"}
DeleteWins(i) == inject[i] = "pending"

\* Contexts of the enrolled participants, by their role at enrolment.
ParticipantContexts ==
    { roster[u].group : u \in { v \in Users : roster[v].role = "participant" } }

Targets(i, c) == Audience[i] = {} \/ c \in Audience[i]

AudienceContexts(i) == { c \in ParticipantContexts : Targets(i, c) }

\* Nodes some branch of the scenario links to.
Referenced == (UNION { Successors[n] : n \in Nodes }) \ {NoNode}

\* Gate variant with the clock exempt from the branch check as well.
UngatedClock(i, scheduled) ==
    \/ scheduled
    \/ NodeOf[i] = NoNode
    \/ \E c \in Contexts : cursor[c].node = NodeOf[i]

\* The cursor gate.  A clock may open a node nothing links to at any time, a
\* facilitator only until some team has advanced.
ReleaseIsAllowed(i, scheduled) ==
    \/ NodeOf[i] = NoNode
    \/ \E c \in Contexts : cursor[c].node = NodeOf[i]
    \/ /\ scheduled \/ \A c \in Contexts : cursor[c].inject = NoInject
       /\ NodeOf[i] \notin Referenced

\* InjectProgress rows of i after INSERT ... ON CONFLICT DO NOTHING.
SeededRows(i) ==
    [c \in Contexts |-> IF progress[i][c] = "none" /\ c \in AudienceContexts(i)
                        THEN "released" ELSE progress[i][c]]

\* Variant that takes the exercise lock and forgets to look for a release.
RosterLockOnly == TRUE

RosterChangesAllowed ==
    \A i \in Injects : inject[i] \in {"absent", "deleted", "pending"}

OperationallyMutable == state # "completed"

\* Variant that treats a launch-configured row like a run-time one.
AnyInjectMutable(i) == OperationallyMutable

\* Launch-configured rows of an exact run are frozen; every run here is exact.
InjectConfigurationMutable(i) == state = "draft" \/ i \in duringRun

-----------------------------------------------------------------------------
(* The exercise as create_exercise leaves it: scenario injects pending, one *)
(* cursor per context on the start node, nobody enrolled.                   *)
Init ==
    /\ state = "draft"
    /\ history = << >>
    /\ roster = [u \in Users |-> NotEnrolled]
    /\ inject = [i \in Injects |-> IF i \in Seeded THEN "pending" ELSE "absent"]
    /\ duringRun = {}
    /\ snapshot = {}
    /\ progress = [i \in Injects |-> [c \in Contexts |-> "none"]]
    /\ cursor = [c \in Contexts |-> [node |-> StartNode, inject |-> NoInject]]
    /\ responses = {}
    /\ req = [r \in Requests |-> Idle]

Remember(r, read) ==
    /\ req[r] = Idle
    /\ req' = [req EXCEPT ![r] = read]
    /\ UNCHANGED <<state, history, roster, inject, duringRun, snapshot,
                   progress, cursor, responses>>

Done(r) == req' = [req EXCEPT ![r] = Idle]

\* A request ends with nothing written: refused with 409, rolled back (a
\* deadlock, a lost connection), or gone with its replica.
Drop(r) ==
    /\ req[r] # Idle
    /\ Done(r)
    /\ UNCHANGED <<state, history, roster, inject, duringRun, snapshot,
                   progress, cursor, responses>>

-----------------------------------------------------------------------------
(* Lifecycle.                                                              *)

TransitionRead(r, target) ==
    /\ OperationallyMutable
    /\ Remember(r, [op |-> "transition", seen |-> state, target |-> target])

\* A first launch re-reads the row under its lock and freezes the snapshot;
\* then the conditional UPDATE and the history row commit together.
TransitionCommit(r) ==
    /\ req[r].op = "transition"
    /\ LET move == <<req[r].seen, req[r].target>> IN
       /\ move \in ValidTransitions
       /\ TransitionWins(req[r].seen)
       /\ Len(history) < MaxTransitions
       /\ state' = req[r].target
       /\ history' = Append(history, move)
       /\ snapshot' = IF req[r].seen = "draft"
                      THEN { i \in Injects : inject[i] \notin {"absent", "deleted"} }
                      ELSE snapshot
    /\ Done(r)
    /\ UNCHANGED <<roster, inject, duringRun, progress, cursor, responses>>

-----------------------------------------------------------------------------
(* Release, by hand or by the inject's own clock.                          *)

ReleaseRead(r, i) ==
    /\ state = "active"
    /\ inject[i] \notin {"absent", "deleted"}
    /\ Remember(r, [op |-> "release", inject |-> i, scheduled |-> FALSE])

\* UPDATE ... WHERE state = 'pending' RETURNING id found its row.
ReleaseWins(i) == inject[i] = "pending"

\* Without an eligible participant the release is rolled back;
\* AnyAudience is the variant that releases to nobody.
AnyAudience(i) == TRUE
HasAudience(i) == AudienceContexts(i) # {}

\* The queue job once its offset has come up (Schedule models the clock).
ScheduledReleaseRead(r, i) ==
    /\ i \in Scheduled
    /\ inject[i] = "pending"
    /\ state = "active"
    /\ ReleaseIsAllowed(i, TRUE)
    /\ Remember(r, [op |-> "release", inject |-> i, scheduled |-> TRUE])

\* Under the exercise lock, with the state read again.
ReleaseCommit(r) ==
    /\ req[r].op = "release"
    /\ LET i == req[r].inject IN
       /\ StillActive
       /\ ReleaseIsAllowed(i, req[r].scheduled)
       /\ HasAudience(i)
       /\ ReleaseWins(i)
       /\ inject' = [inject EXCEPT ![i] = "released"]
       /\ progress' = [progress EXCEPT ![i] = SeededRows(i)]
    /\ Done(r)
    /\ UNCHANGED <<state, history, roster, duringRun, snapshot, cursor, responses>>

-----------------------------------------------------------------------------
(* Responses.                                                              *)

\* submit checks one thing after another, each with a query of its own and none
\* under a lock.  The role it checks is the account's current one, which may differ
\* from the role recorded at enrolment.
Proceed(r, read) ==
    /\ req' = [req EXCEPT ![r] = read]
    /\ UNCHANGED <<state, history, roster, inject, duringRun, snapshot,
                   progress, cursor, responses>>

\* The exercise is read first (its state is judged after the membership, by what
\* was read here),
RespondRead(r, u) ==
    /\ state = "active"
    /\ Remember(r, [op |-> "access", user |-> u])

\* then whether the author is a member,
RespondMember(r) ==
    /\ req[r].op = "access"
    /\ roster[req[r].user] # NotEnrolled
    /\ Proceed(r, [op |-> "member", user |-> req[r].user])

\* then the inject,
RespondInject(r, i) ==
    /\ req[r].op = "member"
    /\ inject[i] = "released"
    /\ Proceed(r, [op |-> "inject", user |-> req[r].user, inject |-> i])

Answered(u, i) == \E q \in responses : q.user = u /\ q.inject = i

\* then whether it is for the author's team (no team, for somebody who has been
\* removed meanwhile) and whether there is an answer already,
RespondVisible(r) ==
    LET q == req[r] IN
    /\ q.op = "inject"
    /\ Targets(q.inject, roster[q.user].group)
    /\ ~Answered(q.user, q.inject)
    /\ Proceed(r, [q EXCEPT !.op = "visible"])

\* and last the team again, which is the one the answer is filed under.
RespondGroup(r, next) ==
    LET q == req[r] IN
    /\ q.op = "visible"
    /\ next \in IF NodeOf[q.inject] = NoNode THEN {NoNode} ELSE Successors[NodeOf[q.inject]]
    /\ Proceed(r, [op |-> "respond", user |-> q.user, inject |-> q.inject,
                   group |-> roster[q.user].group, next |-> next])

\* Variants: a row is invented for a context outside the audience (#256); a
\* replayed answer is not told apart from the first.
InventedPath(rows, c) == rows[c] # "resolved"
ReplayedPath(rows, c) == rows[c] # "none"

\* resolve_response_progression answers False for a context outside the
\* release audience and for one that has already been resolved.
OpensPath(rows, c) == rows[c] = "released"

\* An inject without a scenario node is an interruption, not a step on a path.
InterruptionAdvances(i, opens) == opens
AdvancesCursor(i, opens) == opens /\ NodeOf[i] # NoNode

\* The row, the resolution and the cursor commit together; the state of the
\* exercise is not read again.
RespondCommit(r) ==
    /\ req[r].op = "respond"
    /\ LET q == req[r]
           i == q.inject
           rows == SeededRows(i)
           opens == OpensPath(rows, q.group)
           after == IF opens THEN [rows EXCEPT ![q.group] = "resolved"] ELSE rows
       IN
       /\ ~Answered(q.user, i)
       /\ responses' = responses \cup {[user |-> q.user, inject |-> i, group |-> q.group]}
       /\ progress' = [progress EXCEPT ![i] = after]
       /\ inject' = IF opens /\ \A c \in Contexts : after[c] # "released"
                    THEN [inject EXCEPT ![i] = "resolved"] ELSE inject
       /\ cursor' = IF AdvancesCursor(i, opens)
                    THEN [cursor EXCEPT ![q.group] = [node |-> q.next, inject |-> i]]
                    ELSE cursor
    /\ Done(r)
    /\ UNCHANGED <<state, history, roster, duringRun, snapshot>>

-----------------------------------------------------------------------------
(* Roster.  Each of the three takes Scenario and Exercise FOR UPDATE first  *)
(* and reads only afterwards, so it is one step.                            *)

RosterStep(u, member) ==
    /\ OperationallyMutable
    /\ RosterChangesAllowed
    /\ roster' = [roster EXCEPT ![u] = member]
    /\ UNCHANGED <<state, history, inject, duringRun, snapshot, progress,
                   cursor, responses, req>>

EnrolMember(u, g, role) ==
    /\ roster[u] = NotEnrolled
    /\ RosterStep(u, [group |-> g, role |-> role])

\* Variant without the 404 for a user who has no member row.
UpsertMemberGroup(u, g) == RosterStep(u, [group |-> g, role |-> roster[u].role])

UpdateMemberGroup(u, g) ==
    /\ roster[u] # NotEnrolled
    /\ RosterStep(u, [group |-> g, role |-> roster[u].role])

RemoveMember(u) ==
    /\ roster[u] # NotEnrolled
    /\ RosterStep(u, NotEnrolled)

-----------------------------------------------------------------------------
(* Injects added or deleted by the facilitator, under the same locks.       *)

CreateInject(i) ==
    /\ OperationallyMutable
    /\ inject[i] = "absent"
    /\ inject' = [inject EXCEPT ![i] = "pending"]
    /\ duringRun' = IF state = "draft" THEN duringRun ELSE duringRun \cup {i}
    /\ UNCHANGED <<state, history, roster, snapshot, progress, cursor,
                   responses, req>>

DeleteInject(i) ==
    /\ OperationallyMutable
    /\ InjectConfigurationMutable(i)
    /\ DeleteWins(i)
    /\ inject' = [inject EXCEPT ![i] = "deleted"]
    /\ UNCHANGED <<state, history, roster, duringRun, snapshot, progress,
                   cursor, responses, req>>

-----------------------------------------------------------------------------
Lifecycle == \E r \in Requests :
                \/ \E target \in {"active", "paused", "completed"} : TransitionRead(r, target)
                \/ TransitionCommit(r)

Release == \E r \in Requests :
              \/ \E i \in Injects : ReleaseRead(r, i) \/ ScheduledReleaseRead(r, i)
              \/ ReleaseCommit(r)

Respond == \E r \in Requests :
              \/ \E u \in Users : RespondRead(r, u)
              \/ RespondMember(r)
              \/ \E i \in Injects : RespondInject(r, i)
              \/ RespondVisible(r)
              \/ \E next \in Nodes \cup {NoNode} : RespondGroup(r, next)
              \/ RespondCommit(r)

Roster == \E u \in Users :
             \/ \E g \in Contexts, role \in {"participant", "other"} : EnrolMember(u, g, role)
             \/ \E g \in Contexts : UpdateMemberGroup(u, g)
             \/ RemoveMember(u)

Configure == \E i \in Injects : CreateInject(i) \/ DeleteInject(i)

Next == \/ Lifecycle
        \/ Release
        \/ Respond
        \/ Roster
        \/ Configure
        \/ \E r \in Requests : Drop(r)

Spec == Init /\ [][Next]_vars

-----------------------------------------------------------------------------
(* Properties.                                                             *)

Live(i) == inject[i] \in {"released", "resolved"}

\* The lifecycle rows tell one unbroken story: they start at draft, each
\* begins where the one before ended, and the last is the current state
\* (transition_state_with_history: CAS and history row in one transaction).
HistoryIsContiguous ==
    /\ state = IF history = << >> THEN "draft" ELSE history[Len(history)][2]
    /\ \A k \in 1 .. Len(history) :
          /\ history[k] \in ValidTransitions
          /\ history[k][1] = IF k = 1 THEN "draft" ELSE history[k - 1][2]

\* The scalar state of an inject and its per-context rows agree: no rows
\* while it is pending or gone, at least one once released, all resolved
\* exactly when the inject is (resolve_response_progression's closing rule).
ResolvedIffEveryPathResolved ==
    \A i \in Injects :
        /\ Live(i) <=> \E c \in Contexts : progress[i][c] # "none"
        /\ inject[i] = "resolved" <=>
              Live(i) /\ \A c \in Contexts : progress[i][c] # "released"

\* A cursor that has moved stands on a successor of an inject its own
\* context has resolved: no path is advanced from a context outside the
\* release audience (#256) or by an interruption without a node.
CursorFollowsOwnAnswer ==
    \A c \in Contexts :
        LET i == cursor[c].inject IN
        IF i = NoInject THEN cursor[c].node = StartNode
        ELSE /\ progress[i][c] = "resolved"
             /\ NodeOf[i] # NoNode
             /\ cursor[c].node \in Successors[NodeOf[i]]

\* An inject on a node that some branch links to is only ever on screen
\* because the run starts there or a team answered its way to it, however
\* release, response and clock interleave (release_is_allowed, #126, #218).
BranchWasReached ==
    \A i \in Injects :
        Live(i) /\ NodeOf[i] \in Referenced \ {StartNode} =>
            \E j \in Injects, c \in Contexts :
                /\ progress[j][c] = "resolved"
                /\ NodeOf[j] # NoNode
                /\ NodeOf[i] \in Successors[NodeOf[j]]

\* Before launch nothing is frozen and nothing counts as added at run time;
\* after it the launch-configured inject rows are exactly the snapshot: none
\* is added to it, none deleted (freeze_launch_configuration and
\* require_inject_configuration_mutable).
SnapshotIsExact ==
    IF state = "draft" THEN snapshot = {} /\ duringRun = {}
    ELSE snapshot = { i \in Injects : inject[i] \notin {"absent", "deleted"} } \ duringRun

\* Every response is evidence about an inject that was put on screen and is still
\* there, filed under the team its author is in to the end of the run, a team the
\* inject was meant for (delete_pending_inject and the roster lock, #265).  That
\* the author is still enrolled is not so: a member removed after submit's first
\* check, before the first release, answers for no team.
ResponsesKeepTheirContext ==
    \A q \in responses :
        /\ Live(q.inject)
        /\ roster[q.user].group = q.group
        /\ Targets(q.inject, q.group)

\* The audience of an inject on screen is, to the end of the run, what the
\* roster says: nobody joins, leaves or changes team under it and no answer
\* adds a path (lock_exercise_for_audience_snapshot and
\* resolve_response_progression, #256).
AudienceIsFixed ==
    \A i \in Injects :
        Live(i) => /\ state # "draft"
                   /\ \A c \in Contexts :
                         progress[i][c] # "none" <=> c \in AudienceContexts(i)

\* What submit has checked of the inject and of the author's team still holds
\* at every later query and when it commits, though none of it is read again: the
\* inject it saw released closes the roster, so that the team of the second reading
\* is the team the inject was found visible to.  (The state of the exercise and the
\* membership, read before the inject, may be out of date by then.)
ChecksOutliveTheRead ==
    \A r \in Requests :
        LET q == req[r] IN
        /\ q.op \in {"inject", "visible", "respond"} => Live(q.inject)
        /\ q.op = "visible" => Targets(q.inject, roster[q.user].group)
        /\ q.op = "respond" =>
              /\ roster[q.user].group = q.group
              /\ Targets(q.inject, q.group)
              /\ NodeOf[q.inject] # NoNode => q.next \in Successors[NodeOf[q.inject]]

\* Answering moves a team once per inject: a cursor changes only in the step
\* that resolves that context's own row, so the first answer commits the
\* team and a team-mate's later one does not (resolve_response_progression).
CursorMovesOncePerPath ==
    [][\A c \in Contexts :
          cursor'[c] # cursor[c] =>
              LET i == cursor'[c].inject IN
              progress[i][c] = "released" /\ progress'[i][c] = "resolved"]_vars

\* Opening happens only while live, once, to a non-empty audience that never
\* changes; only that audience closes paths, each once (RunContract).
Contract == INSTANCE RunContract WITH
    phase <- state,
    audience <- [i \in Injects |-> { c \in Contexts : progress[i][c] # "none" }],
    answered <- [i \in Injects |-> { c \in Contexts : progress[i][c] = "resolved" }]

ImplementsContract == Contract!Spec

\* What access_control.require_operational_mutability says of a completed
\* exercise: it is preserved as after-action evidence.
CompletedIsPreserved ==
    [][state = "completed" => UNCHANGED <<inject, progress, cursor, responses>>]_vars
=============================================================================
