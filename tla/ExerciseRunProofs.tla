------------------------- MODULE ExerciseRunProofs -------------------------
(***************************************************************************)
(* Theorems about ExerciseRun for every roster, scenario, set of injects    *)
(* and number of concurrent requests.                                       *)
(*                                                                          *)
(* No invariant here is inductive on its own: whether an answer may close a *)
(* path depends on the audience still being the roster's, which depends on  *)
(* the roster lock, which depends on what counts as released.  They are     *)
(* proved in that order, each from the ones before it.                      *)
(***************************************************************************)
EXTENDS ExerciseRun, SequenceTheorems, TLAPS

-----------------------------------------------------------------------------
(* Types.                                                                   *)

\* What a request slot holds, by its operation.
LEMMA RequestFields ==
    ASSUME NEW q \in Request
    PROVE  /\ q.op = "transition" => q.seen \in States /\ q.target \in States
           /\ q.op = "release" => q.inject \in Injects /\ q.scheduled \in BOOLEAN
           /\ q.op \in {"access", "member"} => q.user \in Users
           /\ q.op \in {"inject", "visible"} => q.user \in Users /\ q.inject \in Injects
           /\ q.op = "respond" => /\ q.user \in Users
                                  /\ q.inject \in Injects
                                  /\ q.group \in Contexts
                                  /\ q.next \in Nodes \cup {NoNode}
BY DEF Request, Idle

\* The contexts an inject reaches are contexts.
LEMMA AudienceIsContexts ==
    ASSUME TypeOK, NEW i \in Injects
    PROVE  AudienceContexts(i) \subseteq Contexts
BY DEF TypeOK, AudienceContexts, ParticipantContexts, Membership, NotEnrolled, Contexts

\* Seeding rows keeps them rows.
LEMMA SeededRowsType ==
    ASSUME TypeOK, NEW i \in Injects
    PROVE  SeededRows(i) \in [Contexts -> ProgressStates]
BY DEF TypeOK, SeededRows, ProgressStates

\* Every row keeps its type in the first state.
LEMMA InitType == Init => TypeOK
BY ConstantsAssumption, EmptySeq
   DEF Init, TypeOK, States, NotEnrolled, Membership, InjectStates, Contexts,
       ProgressStates, Cursor, Request, Idle

\* Every row keeps its type in every step.
LEMMA NextType == TypeOK /\ [Next]_vars => TypeOK'
<1> SUFFICES ASSUME TypeOK, [Next]_vars PROVE TypeOK'
  OBVIOUS
<1> USE DEF TypeOK
<1>1. ASSUME NEW r \in Requests, NEW q \in Request, Remember(r, q) PROVE TypeOK'
  BY <1>1 DEF Remember
<1>2. ASSUME NEW r \in Requests, Done(r) PROVE req' \in [Requests -> Request]
  BY <1>2 DEF Done, Request
<1>3. ASSUME NEW r \in Requests, NEW target \in {"active", "paused", "completed"},
             TransitionRead(r, target)
      PROVE  TypeOK'
  <2> DEFINE q == [op |-> "transition", seen |-> state, target |-> target]
  <2>1. q \in Request
    BY DEF Request, States
  <2> QED BY <2>1, <1>1, <1>3 DEF TransitionRead
<1>4. ASSUME NEW r \in Requests, TransitionCommit(r) PROVE TypeOK'
  <2>1. req[r].seen \in States /\ req[r].target \in States
    BY <1>4, RequestFields DEF TransitionCommit
  <2>2. history' \in Seq(States \X States)
    BY <1>4, <2>1, AppendProperties DEF TransitionCommit
  <2>3. snapshot' \in SUBSET Injects
    BY <1>4 DEF TransitionCommit
  <2> QED BY <1>2, <1>4, <2>1, <2>2, <2>3 DEF TransitionCommit
<1>5. ASSUME NEW r \in Requests, NEW i \in Injects, ReleaseRead(r, i) PROVE TypeOK'
  <2>1. [op |-> "release", inject |-> i, scheduled |-> FALSE] \in Request
    BY DEF Request
  <2> QED BY <2>1, <1>1, <1>5 DEF ReleaseRead
<1>6. ASSUME NEW r \in Requests, NEW i \in Injects, ScheduledReleaseRead(r, i)
      PROVE  TypeOK'
  <2>1. [op |-> "release", inject |-> i, scheduled |-> TRUE] \in Request
    BY DEF Request
  <2> QED BY <2>1, <1>1, <1>6 DEF ScheduledReleaseRead
<1>7. ASSUME NEW r \in Requests, ReleaseCommit(r) PROVE TypeOK'
  <2>1. req[r].inject \in Injects
    BY <1>7, RequestFields DEF ReleaseCommit
  <2>2. progress' \in [Injects -> [Contexts -> ProgressStates]]
    BY <1>7, <2>1, SeededRowsType DEF ReleaseCommit
  <2>3. inject' \in [Injects -> InjectStates]
    BY <1>7, <2>1 DEF ReleaseCommit, InjectStates
  <2> QED BY <1>2, <1>7, <2>2, <2>3 DEF ReleaseCommit
<1>8. ASSUME NEW r \in Requests, NEW q \in Request, Proceed(r, q) PROVE TypeOK'
  BY <1>8 DEF Proceed
<1>18. ASSUME NEW r \in Requests, NEW u \in Users, RespondRead(r, u) PROVE TypeOK'
  <2>1. [op |-> "access", user |-> u] \in Request
    BY DEF Request
  <2> QED BY <2>1, <1>1, <1>18 DEF RespondRead
<1>19. ASSUME NEW r \in Requests, RespondMember(r) PROVE TypeOK'
  <2>1. req[r].user \in Users
    BY <1>19, RequestFields DEF RespondMember
  <2>2. [op |-> "member", user |-> req[r].user] \in Request
    BY <2>1 DEF Request
  <2> QED BY <2>2, <1>8, <1>19 DEF RespondMember
<1>20. ASSUME NEW r \in Requests, NEW i \in Injects, RespondInject(r, i) PROVE TypeOK'
  <2>1. req[r].user \in Users
    BY <1>20, RequestFields DEF RespondInject
  <2>2. [op |-> "inject", user |-> req[r].user, inject |-> i] \in Request
    BY <2>1 DEF Request
  <2> QED BY <2>2, <1>8, <1>20 DEF RespondInject
<1>21. ASSUME NEW r \in Requests, RespondVisible(r) PROVE TypeOK'
  <2>1. req[r] \in [op : {"inject", "visible"}, user : Users, inject : Injects]
    BY <1>21 DEF RespondVisible, Request, Idle
  <2>2. [req[r] EXCEPT !.op = "visible"] \in [op : {"inject", "visible"}, user : Users,
                                               inject : Injects]
    BY <2>1
  <2>3. [req[r] EXCEPT !.op = "visible"] \in Request
    BY <2>2 DEF Request
  <2> QED BY <2>3, <1>8, <1>21 DEF RespondVisible
<1>22. ASSUME NEW r \in Requests, NEW next \in Nodes \cup {NoNode}, RespondGroup(r, next)
       PROVE  TypeOK'
  <2>1. req[r].user \in Users /\ req[r].inject \in Injects
    BY <1>22, RequestFields DEF RespondGroup
  <2>2. roster[req[r].user].group \in Contexts
    BY <2>1 DEF Membership, NotEnrolled, Contexts
  <2>3. [op |-> "respond", user |-> req[r].user, inject |-> req[r].inject,
         group |-> roster[req[r].user].group, next |-> next] \in Request
    BY <2>1, <2>2 DEF Request
  <2> QED BY <2>3, <1>8, <1>22 DEF RespondGroup
<1>9. ASSUME NEW r \in Requests, RespondCommit(r) PROVE TypeOK'
  <2> DEFINE q == req[r]
             rows == SeededRows(q.inject)
  <2>1. /\ q.user \in Users /\ q.inject \in Injects
        /\ q.group \in Contexts /\ q.next \in Nodes \cup {NoNode}
    BY <1>9, RequestFields DEF RespondCommit
  <2>2. rows \in [Contexts -> ProgressStates]
    BY <2>1, SeededRowsType
  <2>3. [rows EXCEPT ![q.group] = "resolved"] \in [Contexts -> ProgressStates]
    BY <2>1, <2>2 DEF ProgressStates
  <2>4. progress' \in [Injects -> [Contexts -> ProgressStates]]
    BY <1>9, <2>1, <2>2, <2>3 DEF RespondCommit
  <2>5. inject' \in [Injects -> InjectStates]
    BY <1>9, <2>1 DEF RespondCommit, InjectStates
  <2>6. [node |-> q.next, inject |-> q.inject] \in Cursor
    BY <2>1 DEF Cursor
  <2>7. cursor' \in [Contexts -> Cursor]
    BY <1>9, <2>1, <2>6 DEF RespondCommit
  <2>8. responses' \in SUBSET Response
    BY <1>9, <2>1 DEF RespondCommit, Response
  <2> QED BY <1>2, <1>9, <2>4, <2>5, <2>7, <2>8 DEF RespondCommit
<1>10. ASSUME NEW u \in Users, NEW m \in Membership, RosterStep(u, m) PROVE TypeOK'
  BY <1>10 DEF RosterStep
<1>11. ASSUME NEW u \in Users, NEW g \in Contexts, NEW role \in {"participant", "other"},
              EnrolMember(u, g, role)
       PROVE  TypeOK'
  <2>1. [group |-> g, role |-> role] \in Membership
    BY DEF Membership
  <2> QED BY <2>1, <1>10, <1>11 DEF EnrolMember
<1>12. ASSUME NEW u \in Users, NEW g \in Contexts, UpdateMemberGroup(u, g) PROVE TypeOK'
  <2>1. roster[u] \in [group : Contexts, role : {"participant", "other"}]
    BY <1>12 DEF UpdateMemberGroup, Membership
  <2>2. [group |-> g, role |-> roster[u].role] \in Membership
    BY <2>1 DEF Membership
  <2> QED BY <2>2, <1>10, <1>12 DEF UpdateMemberGroup
<1>13. ASSUME NEW u \in Users, RemoveMember(u) PROVE TypeOK'
  <2>1. NotEnrolled \in Membership
    BY DEF Membership
  <2> QED BY <2>1, <1>10, <1>13 DEF RemoveMember
<1>14. ASSUME NEW i \in Injects, CreateInject(i) PROVE TypeOK'
  BY <1>14 DEF CreateInject, InjectStates
<1>15. ASSUME NEW i \in Injects, DeleteInject(i) PROVE TypeOK'
  BY <1>15 DEF DeleteInject, InjectStates
<1>16. ASSUME NEW r \in Requests, Drop(r) PROVE TypeOK'
  BY <1>2, <1>16 DEF Drop
<1>17. ASSUME UNCHANGED vars PROVE TypeOK'
  BY <1>17 DEF vars
<1> QED
  BY <1>3, <1>4, <1>5, <1>6, <1>7, <1>9, <1>11, <1>12, <1>13, <1>14, <1>15, <1>16,
     <1>17, <1>18, <1>19, <1>20, <1>21, <1>22
     DEF Next, Lifecycle, Release, Respond, Roster, Configure

\* Type correctness of every row and of what requests remember.
THEOREM TypeCorrect == Spec => []TypeOK
<1>1. Init => TypeOK
  BY InitType
<1>2. TypeOK /\ [Next]_vars => TypeOK'
  BY NextType
<1> QED BY <1>1, <1>2, PTL DEF Spec

-----------------------------------------------------------------------------
(* What a step can do.  Most steps touch nothing that is on screen; those   *)
(* that can are named, so that later proofs have five cases and not sixteen.*)

\* What submit checks of the inject it answers.
Checks(r) ==
    \/ \E i \in Injects : RespondInject(r, i)
    \/ RespondVisible(r)
    \/ \E next \in Nodes \cup {NoNode} : RespondGroup(r, next)

\* A check changes nothing but what its own request remembers.
LEMMA ChecksOnlyRead ==
    ASSUME TypeOK, NEW r \in Requests, Checks(r)
    PROVE  /\ UNCHANGED <<state, history, roster, inject, duringRun, snapshot, progress,
                          cursor, responses>>
           /\ \A s \in Requests : s # r => req'[s] = req[s]
BY DEF TypeOK, Checks, RespondInject, RespondVisible, RespondGroup, Proceed

\* A step that leaves the run, its paths and its answers alone.  It may
\* change the roster or a row that is not on screen, and advance no answer.
Backstage ==
    /\ UNCHANGED <<state, history, snapshot, progress, cursor, responses>>
    /\ \A i \in Injects : Live(i) => inject'[i] = inject[i]
    /\ \A i \in Injects : ~Live(i) => inject'[i] \notin {"released", "resolved"}
    /\ (\E i \in Injects : Live(i)) => roster' = roster
    /\ \A r \in Requests : req'[r] = req[r] \/ req'[r].op \notin {"inject", "visible", "respond"}

\* A step is a launch, a release, an answer, a roster change, a new or deleted
\* inject, or it leaves every row but the requests alone.
LEMMA StepCases ==
    ASSUME TypeOK, [Next]_vars
    PROVE  \/ \E r \in Requests : TransitionCommit(r)
           \/ \E r \in Requests : ReleaseCommit(r)
           \/ \E r \in Requests : RespondCommit(r)
           \/ \E r \in Requests : Checks(r)
           \/ Backstage
<1> USE DEF TypeOK
<1>1. ASSUME NEW r \in Requests, NEW q, Remember(r, q) \/ Proceed(r, q),
             q.op \notin {"inject", "visible", "respond"}
      PROVE  Backstage
  BY <1>1 DEF Remember, Proceed, Backstage, Live
<1>11. ASSUME NEW r \in Requests, NEW u \in Users, RespondRead(r, u) PROVE Backstage
  BY <1>1, <1>11 DEF RespondRead
<1>12. ASSUME NEW r \in Requests, RespondMember(r) PROVE Backstage
  BY <1>1, <1>12 DEF RespondMember
<1>2. ASSUME NEW r \in Requests, NEW target \in {"active", "paused", "completed"},
             TransitionRead(r, target)
      PROVE  Backstage
  BY <1>1, <1>2 DEF TransitionRead
<1>3. ASSUME NEW r \in Requests, NEW i \in Injects, ReleaseRead(r, i) PROVE Backstage
  BY <1>1, <1>3 DEF ReleaseRead
<1>4. ASSUME NEW r \in Requests, NEW i \in Injects, ScheduledReleaseRead(r, i)
      PROVE  Backstage
  BY <1>1, <1>4 DEF ScheduledReleaseRead
<1>5. ASSUME NEW u \in Users, NEW m, RosterStep(u, m) PROVE Backstage
  <2>1. \A i \in Injects : ~Live(i)
    BY <1>5 DEF RosterStep, RosterChangesAllowed, Live
  <2> QED BY <1>5, <2>1 DEF RosterStep, Backstage, Live
<1>6. ASSUME NEW u \in Users,
             \/ \E g \in Contexts, role \in {"participant", "other"} : EnrolMember(u, g, role)
             \/ \E g \in Contexts : UpdateMemberGroup(u, g)
             \/ RemoveMember(u)
      PROVE  Backstage
  BY <1>5, <1>6 DEF EnrolMember, UpdateMemberGroup, RemoveMember
<1>7. ASSUME NEW i \in Injects, CreateInject(i) PROVE Backstage
  BY <1>7 DEF CreateInject, Backstage, Live
<1>8. ASSUME NEW i \in Injects, DeleteInject(i) PROVE Backstage
  BY <1>8 DEF DeleteInject, DeleteWins, Backstage, Live
<1>9. ASSUME NEW r \in Requests, Drop(r) PROVE Backstage
  BY <1>9 DEF Drop, Done, Idle, Backstage, Live
<1>10. ASSUME UNCHANGED vars PROVE Backstage
  BY <1>10 DEF vars, Backstage, Live
<1> QED
  BY <1>2, <1>3, <1>4, <1>6, <1>7, <1>8, <1>9, <1>10, <1>11, <1>12
     DEF Next, Lifecycle, Release, Respond, Roster, Configure, Checks

\* Once on screen an inject stays on screen.
LEMMA LiveStays ==
    ASSUME TypeOK, [Next]_vars, NEW i \in Injects, Live(i)
    PROVE  Live(i)'
<1> USE DEF TypeOK, Live
<1>1. ASSUME NEW r \in Requests, TransitionCommit(r) PROVE Live(i)'
  BY <1>1 DEF TransitionCommit
<1>2. ASSUME NEW r \in Requests, ReleaseCommit(r) PROVE Live(i)'
  BY <1>2 DEF ReleaseCommit, ReleaseWins
<1>3. ASSUME NEW r \in Requests, RespondCommit(r) PROVE Live(i)'
  BY <1>3 DEF RespondCommit
<1>4. ASSUME NEW r \in Requests, Checks(r)
      PROVE  Live(i)'
  BY <1>4, ChecksOnlyRead
<1>5. ASSUME Backstage PROVE Live(i)'
  BY <1>5 DEF Backstage
<1> QED BY StepCases, <1>1, <1>2, <1>3, <1>4, <1>5

\* While anything is on screen the roster does not change.
LEMMA RosterStays ==
    ASSUME TypeOK, [Next]_vars, NEW i \in Injects, Live(i)
    PROVE  roster' = roster
<1>1. ASSUME NEW r \in Requests,
             TransitionCommit(r) \/ ReleaseCommit(r) \/ RespondCommit(r)
      PROVE  roster' = roster
  BY <1>1 DEF TransitionCommit, ReleaseCommit, RespondCommit
<1>2. ASSUME NEW r \in Requests, Checks(r)
      PROVE  roster' = roster
  BY <1>2, ChecksOnlyRead
<1> QED BY StepCases, <1>1, <1>2 DEF Backstage

-----------------------------------------------------------------------------
(* What a response read stays true until it commits.                        *)

\* ChecksOutliveTheRead depends only on rows no other step may take back.
LEMMA ChecksOutliveStep ==
    TypeOK /\ ChecksOutliveTheRead /\ [Next]_vars => ChecksOutliveTheRead'
<1> DEFINE Holds(q) ==
             /\ q.op \in {"inject", "visible", "respond"} => Live(q.inject)
             /\ q.op = "visible" => Targets(q.inject, roster[q.user].group)
             /\ q.op = "respond" =>
                   /\ roster[q.user].group = q.group
                   /\ Targets(q.inject, q.group)
                   /\ NodeOf[q.inject] # NoNode => q.next \in Successors[NodeOf[q.inject]]
<1> SUFFICES ASSUME TypeOK, ChecksOutliveTheRead, [Next]_vars, NEW r \in Requests
             PROVE  Holds(req[r])'
  BY DEF ChecksOutliveTheRead
<1> DEFINE q == req[r]
           p == req'[r]
<1>0. Holds(q) /\ q \in Request
  BY DEF ChecksOutliveTheRead, TypeOK
<1>1. CASE p = q
  <2>1. CASE q.op \in {"inject", "visible", "respond"}
    <3>1. q.inject \in Injects /\ Live(q.inject)
      BY <1>0, <2>1, RequestFields
    <3>2. roster' = roster
      BY <3>1, RosterStays
    <3>3. \A i \in Injects : Live(i) => inject'[i] \in {"released", "resolved"}
      BY LiveStays DEF Live
    <3> QED BY <1>0, <1>1, <3>1, <3>2, <3>3 DEF Live, Targets
  <2>2. CASE q.op \notin {"inject", "visible", "respond"}
    BY <1>1, <2>2
  <2> QED BY <2>1, <2>2
<1>2. CASE p # q
  <2>1. CASE p.op \notin {"inject", "visible", "respond"}
    BY <2>1
  <2>2. CASE p.op \in {"inject", "visible", "respond"}
    <3>1. ~Backstage
      BY <1>2, <2>2 DEF Backstage
    <3>2. ASSUME NEW s \in Requests, Done(s) PROVE FALSE
      BY <1>2, <2>2, <3>2 DEF Done, Idle, TypeOK
    <3>3. PICK s \in Requests : Checks(s)
      BY <3>1, <3>2, StepCases DEF TransitionCommit, ReleaseCommit, RespondCommit
    <3>4. s = r /\ UNCHANGED <<inject, roster>>
      BY <1>2, <3>3, ChecksOnlyRead
    <3>5. ASSUME NEW i \in Injects, RespondInject(r, i) PROVE Holds(req[r])'
      <4>1. p = [op |-> "inject", user |-> q.user, inject |-> i] /\ inject[i] = "released"
        BY <3>5 DEF RespondInject, Proceed, TypeOK
      <4> QED BY <3>4, <4>1 DEF Live
    <3>6. ASSUME RespondVisible(r) PROVE Holds(req[r])'
      <4>1. q \in [op : {"inject", "visible"}, user : Users, inject : Injects]
        BY <1>0, <3>6 DEF RespondVisible, Request, Idle
      <4>2. /\ q.op = "inject" /\ p = [q EXCEPT !.op = "visible"]
            /\ Targets(q.inject, roster[q.user].group)
        BY <3>6 DEF RespondVisible, Proceed, TypeOK
      <4> HIDE DEF q, p
      <4>3. p.op = "visible" /\ p.user = q.user /\ p.inject = q.inject
        BY <4>1, <4>2
      <4>4. Live(q.inject)
        BY <1>0, <4>2
      <4> QED BY <3>4, <4>2, <4>3, <4>4 DEF Live, Targets, p
    <3>7. ASSUME NEW next \in Nodes \cup {NoNode}, RespondGroup(r, next)
          PROVE  Holds(req[r])'
      <4>1. /\ p = [op |-> "respond", user |-> q.user, inject |-> q.inject,
                    group |-> roster[q.user].group, next |-> next]
            /\ q.op = "visible"
            /\ NodeOf[q.inject] # NoNode => next \in Successors[NodeOf[q.inject]]
        BY <3>7 DEF RespondGroup, Proceed, TypeOK
      <4>2. Live(q.inject) /\ Targets(q.inject, roster[q.user].group)
        BY <1>0, <4>1
      <4> QED BY <3>4, <4>1, <4>2 DEF Live, Targets
    <3> QED BY <3>3, <3>4, <3>5, <3>6, <3>7 DEF Checks
  <2> QED BY <2>1, <2>2
<1> QED BY <1>1, <1>2

-----------------------------------------------------------------------------
(* Paths: the rows of an inject, its scalar state and the roster agree.     *)

\* A response to an inject on screen seeds no row that is not there already.
LEMMA SeedingIsIdempotent ==
    ASSUME TypeOK, AudienceIsFixed, NEW i \in Injects, Live(i)
    PROVE  SeededRows(i) = progress[i]
BY DEF TypeOK, AudienceIsFixed, SeededRows

\* The audience of an inject is computed from the roster alone.
LEMMA SameRosterSameAudience ==
    ASSUME roster' = roster, NEW i \in Injects
    PROVE  AudienceContexts(i)' = AudienceContexts(i)
BY DEF AudienceContexts, ParticipantContexts, Targets

\* ResolvedIffEveryPathResolved and AudienceIsFixed are inductive together:
\* the first says a pending inject has no rows, so a release gives it exactly
\* its audience; the second says an answer meets exactly those rows.
LEMMA PathsStep ==
    TypeOK /\ ChecksOutliveTheRead /\ ResolvedIffEveryPathResolved
           /\ AudienceIsFixed /\ [Next]_vars
      => ResolvedIffEveryPathResolved' /\ AudienceIsFixed'
<1> SUFFICES ASSUME TypeOK, ChecksOutliveTheRead, ResolvedIffEveryPathResolved,
                    AudienceIsFixed, [Next]_vars, NEW i \in Injects
             PROVE  /\ Live(i)' <=> \E c \in Contexts : progress'[i][c] # "none"
                    /\ inject'[i] = "resolved" <=>
                         Live(i)' /\ \A c \in Contexts : progress'[i][c] # "released"
                    /\ Live(i)' => /\ state' # "draft"
                                   /\ \A c \in Contexts : progress'[i][c] # "none" <=>
                                          c \in AudienceContexts(i)'
  BY DEF ResolvedIffEveryPathResolved, AudienceIsFixed
<1> DEFINE Goal == /\ Live(i)' <=> \E c \in Contexts : progress'[i][c] # "none"
                   /\ inject'[i] = "resolved" <=>
                        Live(i)' /\ \A c \in Contexts : progress'[i][c] # "released"
                   /\ Live(i)' => /\ state' # "draft"
                                  /\ \A c \in Contexts : progress'[i][c] # "none" <=>
                                         c \in AudienceContexts(i)'
<1> USE DEF TypeOK
<1>1. /\ Live(i) <=> \E c \in Contexts : progress[i][c] # "none"
      /\ inject[i] = "resolved" <=>
            Live(i) /\ \A c \in Contexts : progress[i][c] # "released"
      /\ Live(i) => /\ state # "draft"
                    /\ \A c \in Contexts : progress[i][c] # "none" <=>
                           c \in AudienceContexts(i)
  BY DEF ResolvedIffEveryPathResolved, AudienceIsFixed
<1>2. ASSUME roster' = roster PROVE AudienceContexts(i)' = AudienceContexts(i)
  BY <1>2, SameRosterSameAudience
<1>3. ASSUME NEW r \in Requests, TransitionCommit(r) PROVE Goal
  <2>1. state' # "draft"
    BY <1>3 DEF TransitionCommit, ValidTransitions
  <2>2. UNCHANGED <<inject, progress, roster>>
    BY <1>3 DEF TransitionCommit
  <2> QED BY <1>1, <1>2, <2>1, <2>2 DEF Live
<1>4. ASSUME NEW r \in Requests, ReleaseCommit(r) PROVE Goal
  <2>1. req[r].inject \in Injects
    BY <1>4, RequestFields DEF ReleaseCommit
  <2>2. state' # "draft" /\ roster' = roster
    BY <1>4 DEF ReleaseCommit, StillActive
  <2>3. CASE i = req[r].inject
    <3>1. /\ inject[i] = "pending" /\ inject'[i] = "released"
          /\ progress'[i] = SeededRows(i) /\ AudienceContexts(i) # {}
      BY <1>4, <2>1, <2>3 DEF ReleaseCommit, ReleaseWins, HasAudience
    <3>2. \A c \in Contexts : progress[i][c] = "none"
      BY <1>1, <3>1 DEF Live
    <3>3. \A c \in Contexts :
            progress'[i][c] = IF c \in AudienceContexts(i) THEN "released" ELSE "none"
      BY <3>1, <3>2 DEF SeededRows
    <3>4. \E c \in Contexts : c \in AudienceContexts(i)
      BY <3>1, AudienceIsContexts
    <3> QED BY <1>2, <2>2, <3>1, <3>3, <3>4 DEF Live
  <2>4. CASE i # req[r].inject
    <3>1. inject'[i] = inject[i] /\ progress'[i] = progress[i]
      BY <1>4, <2>1, <2>4 DEF ReleaseCommit
    <3> QED BY <1>1, <1>2, <2>2, <3>1 DEF Live
  <2> QED BY <2>3, <2>4
<1>5. ASSUME NEW r \in Requests, RespondCommit(r) PROVE Goal
  <2> DEFINE q == req[r]
  <2>1. q.inject \in Injects /\ q.group \in Contexts
    BY <1>5, RequestFields DEF RespondCommit
  <2>2. state' = state /\ roster' = roster
    BY <1>5 DEF RespondCommit
  <2>3. CASE i = q.inject /\ progress[i][q.group] = "released"
    <3>1. Live(i) /\ SeededRows(i) = progress[i]
      BY <1>5, <2>3, SeedingIsIdempotent DEF RespondCommit, ChecksOutliveTheRead
    <3>2. progress'[i] = [progress[i] EXCEPT ![q.group] = "resolved"]
      BY <1>5, <2>1, <2>3, <3>1 DEF RespondCommit, OpensPath
    <3>3. inject'[i] = IF \A c \in Contexts : progress'[i][c] # "released"
                       THEN "resolved" ELSE inject[i]
      BY <1>5, <2>1, <2>3, <3>1, <3>2 DEF RespondCommit, OpensPath
    <3>4. /\ progress'[i][q.group] = "resolved"
          /\ \A c \in Contexts \ {q.group} : progress'[i][c] = progress[i][c]
      BY <2>1, <3>2
    <3>5. inject[i] = "released" /\ Live(i)'
      BY <1>1, <2>1, <2>3, <3>1, <3>3 DEF Live
    <3> QED BY <1>1, <1>2, <2>1, <2>2, <2>3, <3>1, <3>3, <3>4, <3>5 DEF Live
  <2>4. CASE i = q.inject /\ progress[i][q.group] # "released"
    <3>1. Live(i) /\ SeededRows(i) = progress[i]
      BY <1>5, <2>4, SeedingIsIdempotent DEF RespondCommit, ChecksOutliveTheRead
    <3>2. inject'[i] = inject[i] /\ progress'[i] = progress[i]
      BY <1>5, <2>1, <2>4, <3>1 DEF RespondCommit, OpensPath
    <3> QED BY <1>1, <1>2, <2>2, <3>2 DEF Live
  <2>5. CASE i # q.inject
    <3>1. inject'[i] = inject[i] /\ progress'[i] = progress[i]
      BY <1>5, <2>1, <2>5 DEF RespondCommit
    <3> QED BY <1>1, <1>2, <2>2, <3>1 DEF Live
  <2> QED BY <2>3, <2>4, <2>5
<1>6. ASSUME NEW r \in Requests, Checks(r)
      PROVE  Goal
  <2>1. UNCHANGED <<state, inject, progress, roster>>
    BY <1>6, ChecksOnlyRead
  <2> QED BY <1>1, <1>2, <2>1 DEF Live
<1>7. ASSUME Backstage PROVE Goal
  <2>1. CASE Live(i)
    <3>1. roster' = roster /\ inject'[i] = inject[i] /\ UNCHANGED <<state, progress>>
      BY <1>7, <2>1 DEF Backstage
    <3> QED BY <1>1, <1>2, <3>1 DEF Live
  <2>2. CASE ~Live(i)
    <3>1. inject'[i] \notin {"released", "resolved"} /\ progress' = progress
      BY <1>7, <2>2 DEF Backstage
    <3> QED BY <1>1, <2>2, <3>1 DEF Live
  <2> QED BY <2>1, <2>2
<1> QED BY StepCases, <1>3, <1>4, <1>5, <1>6, <1>7

-----------------------------------------------------------------------------
(* Cursors and branches.                                                    *)

\* A resolved path stays resolved.
LEMMA ResolvedStays ==
    ASSUME TypeOK, [Next]_vars, NEW i \in Injects, NEW c \in Contexts,
           progress[i][c] = "resolved"
    PROVE  progress'[i][c] = "resolved"
<1> USE DEF TypeOK
<1>1. SeededRows(i)[c] = "resolved"
  BY DEF SeededRows
<1>2. ASSUME NEW r \in Requests, ReleaseCommit(r) PROVE progress'[i][c] = "resolved"
  BY <1>1, <1>2 DEF ReleaseCommit
<1>3. ASSUME NEW r \in Requests, RespondCommit(r) PROVE progress'[i][c] = "resolved"
  <2>1. SeededRows(i) \in [Contexts -> ProgressStates]
    BY SeededRowsType
  <2>2. CASE i = req[r].inject
    BY <1>1, <1>3, <2>1, <2>2 DEF RespondCommit
  <2>3. CASE i # req[r].inject
    BY <1>3, <2>3 DEF RespondCommit
  <2> QED BY <2>2, <2>3
<1>4. ASSUME NEW r \in Requests, Checks(r)
      PROVE  progress' = progress
  BY <1>4, ChecksOnlyRead
<1> QED BY StepCases, <1>2, <1>3, <1>4 DEF TransitionCommit, Backstage

\* A step that moves a cursor is a response that resolves its own path.
LEMMA CursorStep ==
    ASSUME TypeOK, AudienceIsFixed, ChecksOutliveTheRead, [Next]_vars,
           NEW c \in Contexts, cursor'[c] # cursor[c]
    PROVE  \E i \in Injects :
              /\ cursor'[c].inject = i
              /\ NodeOf[i] # NoNode
              /\ cursor'[c].node \in Successors[NodeOf[i]]
              /\ progress[i][c] = "released"
              /\ progress'[i][c] = "resolved"
<1> USE DEF TypeOK
<1>1. ASSUME NEW r \in Requests, Checks(r)
      PROVE  cursor' = cursor
  BY <1>1, ChecksOnlyRead
<1>2. PICK r \in Requests : RespondCommit(r)
  BY StepCases, <1>1 DEF TransitionCommit, ReleaseCommit, Backstage
<1> DEFINE q == req[r]
<1>3. q.inject \in Injects /\ q.group \in Contexts
  BY <1>2, RequestFields DEF RespondCommit
<1>4. Live(q.inject) /\ (NodeOf[q.inject] # NoNode => q.next \in Successors[NodeOf[q.inject]])
  BY <1>2 DEF RespondCommit, ChecksOutliveTheRead
<1>5. SeededRows(q.inject) = progress[q.inject]
  BY <1>3, <1>4, SeedingIsIdempotent
<1>6. /\ progress[q.inject][q.group] = "released"
      /\ NodeOf[q.inject] # NoNode
      /\ cursor' = [cursor EXCEPT ![q.group] = [node |-> q.next, inject |-> q.inject]]
  BY <1>2, <1>5 DEF RespondCommit, AdvancesCursor, OpensPath
<1>7. c = q.group /\ cursor'[c] = [node |-> q.next, inject |-> q.inject]
  BY <1>3, <1>6
<1>8. progress'[q.inject][c] = "resolved"
  BY <1>2, <1>3, <1>5, <1>6, <1>7 DEF RespondCommit, OpensPath
<1> QED BY <1>3, <1>4, <1>6, <1>7, <1>8

\* A cursor that moves does so on its own resolved path; one that stays keeps it.
LEMMA CursorFollowsStep ==
    TypeOK /\ AudienceIsFixed /\ ChecksOutliveTheRead
           /\ CursorFollowsOwnAnswer /\ [Next]_vars
      => CursorFollowsOwnAnswer'
<1> SUFFICES ASSUME TypeOK, AudienceIsFixed, ChecksOutliveTheRead,
                    CursorFollowsOwnAnswer, [Next]_vars, NEW c \in Contexts
             PROVE  LET i == cursor'[c].inject IN
                    IF i = NoInject THEN cursor'[c].node = StartNode
                    ELSE /\ progress'[i][c] = "resolved"
                         /\ NodeOf[i] # NoNode
                         /\ cursor'[c].node \in Successors[NodeOf[i]]
  BY DEF CursorFollowsOwnAnswer
<1>1. CASE cursor'[c] = cursor[c]
  <2>1. cursor[c].inject \in Injects \cup {NoInject}
    BY DEF TypeOK, Cursor
  <2> QED BY <1>1, <2>1, ResolvedStays DEF CursorFollowsOwnAnswer
<1>2. CASE cursor'[c] # cursor[c]
  <2>1. PICK i \in Injects : /\ cursor'[c].inject = i
                             /\ NodeOf[i] # NoNode
                             /\ cursor'[c].node \in Successors[NodeOf[i]]
                             /\ progress'[i][c] = "resolved"
    BY <1>2, CursorStep
  <2> QED BY <2>1, ConstantsAssumption
<1> QED BY <1>1, <1>2

\* An inject that comes on screen was pending and let through by the gate.
LEMMA LiveStep ==
    ASSUME TypeOK, ChecksOutliveTheRead, [Next]_vars, NEW i \in Injects,
           ~Live(i), Live(i)'
    PROVE  \E r \in Requests : ReleaseCommit(r) /\ req[r].inject = i
<1> USE DEF TypeOK, Live
<1>1. ASSUME NEW r \in Requests, Checks(r)
      PROVE  FALSE
  BY <1>1, ChecksOnlyRead
<1>2. ASSUME NEW r \in Requests, RespondCommit(r) PROVE FALSE
  <2>1. Live(req[r].inject)
    BY <1>2 DEF RespondCommit, ChecksOutliveTheRead
  <2> QED BY <1>2, <2>1 DEF RespondCommit
<1>3. ASSUME NEW r \in Requests, TransitionCommit(r) PROVE FALSE
  BY <1>3 DEF TransitionCommit
<1>4. ASSUME Backstage PROVE FALSE
  BY <1>4 DEF Backstage
<1>5. PICK r \in Requests : ReleaseCommit(r)
  BY StepCases, <1>1, <1>2, <1>3, <1>4
<1>6. req[r].inject = i
  BY <1>5 DEF ReleaseCommit
<1> QED BY <1>5, <1>6

\* The gate opens a linked node only under a cursor, and a cursor that is
\* not on the start node was put there by an answer.
LEMMA BranchStep ==
    TypeOK /\ ChecksOutliveTheRead /\ CursorFollowsOwnAnswer
           /\ BranchWasReached /\ [Next]_vars
      => BranchWasReached'
<1> SUFFICES ASSUME TypeOK, ChecksOutliveTheRead, CursorFollowsOwnAnswer,
                    BranchWasReached, [Next]_vars, NEW i \in Injects,
                    Live(i)', NodeOf[i] \in Referenced \ {StartNode}
             PROVE  \E j \in Injects, c \in Contexts :
                       /\ progress'[j][c] = "resolved"
                       /\ NodeOf[j] # NoNode
                       /\ NodeOf[i] \in Successors[NodeOf[j]]
  BY DEF BranchWasReached, Referenced
<1>1. \E j \in Injects, c \in Contexts :
         /\ progress[j][c] = "resolved"
         /\ NodeOf[j] # NoNode
         /\ NodeOf[i] \in Successors[NodeOf[j]]
  <2>1. CASE Live(i)
    BY <2>1 DEF BranchWasReached
  <2>2. CASE ~Live(i)
    <3>1. PICK r \in Requests : ReleaseCommit(r) /\ req[r].inject = i
      BY <2>2, LiveStep
    <3>2. PICK c \in Contexts : cursor[c].node = NodeOf[i]
      <4>1. NodeOf[i] # NoNode /\ NodeOf[i] \in Referenced
        BY DEF Referenced
      <4>2. ReleaseIsAllowed(i, req[r].scheduled)
        BY <3>1 DEF ReleaseCommit
      <4> QED BY <4>1, <4>2 DEF ReleaseIsAllowed
    <3>3. cursor[c].inject # NoInject
      BY <3>2 DEF CursorFollowsOwnAnswer
    <3>4. cursor[c].inject \in Injects
      BY <3>3 DEF TypeOK, Cursor
    <3> QED BY <3>2, <3>3, <3>4 DEF CursorFollowsOwnAnswer
  <2> QED BY <2>1, <2>2
<1> QED BY <1>1, ResolvedStays

-----------------------------------------------------------------------------
(* Lifecycle history, launch snapshot and evidence.                         *)

\* The lifecycle row is appended in the step that changes the state.
LEMMA HistoryStep ==
    TypeOK /\ HistoryIsContiguous /\ [Next]_vars => HistoryIsContiguous'
<1> SUFFICES ASSUME TypeOK, HistoryIsContiguous, [Next]_vars PROVE HistoryIsContiguous'
  OBVIOUS
<1>1. ASSUME NEW r \in Requests, TransitionCommit(r) PROVE HistoryIsContiguous'
  <2> DEFINE move == <<req[r].seen, req[r].target>>
  <2>1. /\ move \in ValidTransitions /\ move[1] = state /\ move[2] = state'
        /\ history' = Append(history, move)
    BY <1>1 DEF TransitionCommit, TransitionWins
  <2>2. history \in Seq(States \X States) /\ move \in States \X States
    BY <2>1 DEF TypeOK, ValidTransitions, States
  <2> DEFINE n == Len(history)
  <2>3. /\ n \in Nat /\ Len(history') = n + 1 /\ history'[n + 1] = move
        /\ \A k \in 1 .. n : history'[k] = history[k]
        /\ history' # << >>
    BY <2>1, <2>2, AppendProperties
  <2>4. history = << >> <=> n = 0
    BY <2>2, EmptySeq
  <2>5. state = IF n = 0 THEN "draft" ELSE history[n][2]
    BY <2>4 DEF HistoryIsContiguous
  <2>6. \A k \in 1 .. n : /\ history[k] \in ValidTransitions
                          /\ history[k][1] = IF k = 1 THEN "draft" ELSE history[k - 1][2]
    BY DEF HistoryIsContiguous
  <2>7. ASSUME NEW k \in 1 .. n + 1
        PROVE  /\ history'[k] \in ValidTransitions
               /\ history'[k][1] = IF k = 1 THEN "draft" ELSE history'[k - 1][2]
    <3>1. CASE k = n + 1
      <4>1. CASE n = 0
        BY <2>1, <2>3, <2>5, <3>1, <4>1
      <4>2. CASE n # 0
        <5>1. n \in 1 .. n /\ k - 1 = n /\ k # 1
          BY <2>3, <3>1, <4>2
        <5> QED BY <2>1, <2>3, <2>5, <3>1, <4>2, <5>1
      <4> QED BY <4>1, <4>2
    <3>2. CASE k # n + 1
      <4>1. k \in 1 .. n /\ (k # 1 => k - 1 \in 1 .. n)
        BY <2>3, <3>2
      <4> QED BY <2>3, <2>6, <4>1
    <3> QED BY <3>1, <3>2
  <2> HIDE DEF n, move
  <2> QED BY <2>1, <2>3, <2>7 DEF HistoryIsContiguous
<1>2. ASSUME NEW r \in Requests, ReleaseCommit(r) \/ RespondCommit(r)
      PROVE  UNCHANGED <<state, history>>
  BY <1>2 DEF ReleaseCommit, RespondCommit
<1>3. ASSUME NEW r \in Requests, Checks(r)
      PROVE  UNCHANGED <<state, history>>
  BY <1>3, ChecksOnlyRead
<1>4. ASSUME UNCHANGED <<state, history>> PROVE HistoryIsContiguous'
  BY <1>4 DEF HistoryIsContiguous
<1> QED BY StepCases, <1>1, <1>2, <1>3, <1>4 DEF Backstage

\* A response is only ever added for an inject on screen and the team its author
\* was found in, and neither changes again.
LEMMA EvidenceStep ==
    TypeOK /\ ChecksOutliveTheRead /\ ResponsesKeepTheirContext /\ [Next]_vars
      => ResponsesKeepTheirContext'
<1> SUFFICES ASSUME TypeOK, ChecksOutliveTheRead, ResponsesKeepTheirContext,
                    [Next]_vars, NEW q \in responses'
             PROVE  /\ inject'[q.inject] \in {"released", "resolved"}
                    /\ roster'[q.user].group = q.group
                    /\ Targets(q.inject, q.group)
  BY DEF ResponsesKeepTheirContext, Live, Targets
<1>1. /\ q.inject \in Injects /\ Live(q.inject)
      /\ roster[q.user].group = q.group
      /\ Targets(q.inject, q.group)
  <2>1. CASE q \in responses
    BY <2>1 DEF ResponsesKeepTheirContext, TypeOK, Response
  <2>2. CASE q \notin responses
    <3>1. ASSUME NEW r \in Requests, Checks(r) PROVE FALSE
      BY <2>2, <3>1, ChecksOnlyRead
    <3>2. PICK r \in Requests : RespondCommit(r)
      BY <2>2, <3>1, StepCases DEF TransitionCommit, ReleaseCommit, Backstage
    <3>3. q = [user |-> req[r].user, inject |-> req[r].inject, group |-> req[r].group]
      BY <2>2, <3>2 DEF RespondCommit
    <3>4. req[r].inject \in Injects
      BY <3>2, RequestFields DEF RespondCommit, TypeOK
    <3> QED BY <3>2, <3>3, <3>4 DEF RespondCommit, ChecksOutliveTheRead
  <2> QED BY <2>1, <2>2
<1>2. roster' = roster
  BY <1>1, RosterStays
<1>3. \A i \in Injects : Live(i) => inject'[i] \in {"released", "resolved"}
  BY LiveStays DEF Live
<1> QED BY <1>1, <1>2, <1>3

\* After launch only run-time injects are added and deleted.
LEMMA SnapshotStep ==
    TypeOK /\ ChecksOutliveTheRead /\ SnapshotIsExact /\ [Next]_vars => SnapshotIsExact'
<1> SUFFICES ASSUME TypeOK, ChecksOutliveTheRead, SnapshotIsExact, [Next]_vars
             PROVE  SnapshotIsExact'
  OBVIOUS
<1> USE DEF TypeOK
<1> DEFINE Rows == { i \in Injects : inject[i] \notin {"absent", "deleted"} }
<1>1. ASSUME UNCHANGED <<state, snapshot, duringRun>>,
             \A i \in Injects : inject'[i] \in {"absent", "deleted"} <=>
                                inject[i] \in {"absent", "deleted"}
      PROVE  SnapshotIsExact'
  BY <1>1 DEF SnapshotIsExact
<1>2. ASSUME NEW r \in Requests, TransitionCommit(r) PROVE SnapshotIsExact'
  <2>1. state' # "draft" /\ req[r].seen = state /\ UNCHANGED <<inject, duringRun>>
    BY <1>2 DEF TransitionCommit, ValidTransitions, TransitionWins
  <2>2. snapshot' = IF state = "draft" THEN Rows ELSE snapshot
    BY <1>2, <2>1 DEF TransitionCommit
  <2> QED BY <2>1, <2>2 DEF SnapshotIsExact
<1>3. ASSUME NEW r \in Requests, ReleaseCommit(r) PROVE SnapshotIsExact'
  BY <1>1, <1>3 DEF ReleaseCommit, ReleaseWins
<1>4. ASSUME NEW r \in Requests, RespondCommit(r) PROVE SnapshotIsExact'
  <2>1. Live(req[r].inject)
    BY <1>4 DEF RespondCommit, ChecksOutliveTheRead
  <2> QED BY <1>1, <1>4, <2>1 DEF RespondCommit, Live
<1>5. ASSUME NEW r \in Requests, NEW q, Remember(r, q) PROVE SnapshotIsExact'
  BY <1>1, <1>5 DEF Remember
<1>6. ASSUME NEW u \in Users, NEW m, RosterStep(u, m) PROVE SnapshotIsExact'
  BY <1>1, <1>6 DEF RosterStep
<1>7. ASSUME NEW i \in Injects, CreateInject(i) PROVE SnapshotIsExact'
  <2>1. /\ inject[i] = "absent" /\ inject' = [inject EXCEPT ![i] = "pending"]
        /\ duringRun' = IF state = "draft" THEN duringRun ELSE duringRun \cup {i}
        /\ UNCHANGED <<state, snapshot>>
    BY <1>7 DEF CreateInject
  <2>2. { j \in Injects : inject'[j] \notin {"absent", "deleted"} } = Rows \cup {i}
    BY <2>1
  <2>3. i \notin Rows
    BY <2>1
  <2> QED BY <2>1, <2>2, <2>3 DEF SnapshotIsExact
<1>8. ASSUME NEW i \in Injects, DeleteInject(i) PROVE SnapshotIsExact'
  <2>1. /\ state = "draft" \/ i \in duringRun
        /\ inject' = [inject EXCEPT ![i] = "deleted"]
        /\ UNCHANGED <<state, snapshot, duringRun>>
    BY <1>8 DEF DeleteInject, InjectConfigurationMutable
  <2>2. { j \in Injects : inject'[j] \notin {"absent", "deleted"} } = Rows \ {i}
    BY <2>1
  <2> QED BY <2>1, <2>2 DEF SnapshotIsExact
<1>9. ASSUME NEW r \in Requests, Drop(r) PROVE SnapshotIsExact'
  BY <1>1, <1>9 DEF Drop
<1>10. ASSUME UNCHANGED vars PROVE SnapshotIsExact'
  BY <1>1, <1>10 DEF vars
<1>13. ASSUME NEW r \in Requests, NEW q, Proceed(r, q) PROVE SnapshotIsExact'
  BY <1>1, <1>13 DEF Proceed
<1>11. ASSUME Lifecycle \/ Release \/ Respond PROVE SnapshotIsExact'
  BY <1>2, <1>3, <1>4, <1>5, <1>11, <1>13
     DEF Lifecycle, Release, Respond, TransitionRead, ReleaseRead,
         ScheduledReleaseRead, RespondRead, RespondMember, RespondInject,
         RespondVisible, RespondGroup
<1>12. ASSUME Roster PROVE SnapshotIsExact'
  BY <1>6, <1>12 DEF Roster, EnrolMember, UpdateMemberGroup, RemoveMember
<1> QED BY <1>7, <1>8, <1>9, <1>10, <1>11, <1>12 DEF Next, Configure

-----------------------------------------------------------------------------
(* The theorems.                                                            *)

\* The inductive invariant: the whole of what the rows promise, and what a
\* response in flight may still rely on after each of its queries.
Inv ==
    /\ TypeOK
    /\ HistoryIsContiguous
    /\ ChecksOutliveTheRead
    /\ ResolvedIffEveryPathResolved
    /\ AudienceIsFixed
    /\ CursorFollowsOwnAnswer
    /\ BranchWasReached
    /\ SnapshotIsExact
    /\ ResponsesKeepTheirContext

\* A fresh draft satisfies all of it.
LEMMA InitInv == Init => Inv
<1> SUFFICES ASSUME Init PROVE Inv
  OBVIOUS
<1>1. TypeOK
  BY InitType
<1>2. \A i \in Injects : ~Live(i)
  BY DEF Init, Live
<1>3. HistoryIsContiguous
  BY EmptySeq DEF Init, HistoryIsContiguous
<1>4. ChecksOutliveTheRead
  BY DEF Init, ChecksOutliveTheRead, Idle
<1>5. ResolvedIffEveryPathResolved
  BY <1>2 DEF Init, ResolvedIffEveryPathResolved
<1>6. AudienceIsFixed
  BY <1>2 DEF AudienceIsFixed
<1>7. CursorFollowsOwnAnswer
  BY DEF Init, CursorFollowsOwnAnswer
<1>8. BranchWasReached
  BY <1>2 DEF BranchWasReached
<1>9. SnapshotIsExact
  BY DEF Init, SnapshotIsExact
<1>10. ResponsesKeepTheirContext
  BY DEF Init, ResponsesKeepTheirContext
<1> QED BY <1>1, <1>3, <1>4, <1>5, <1>6, <1>7, <1>8, <1>9, <1>10 DEF Inv

\* The invariant holds in every state a run can reach.
THEOREM Invariant == Spec => []Inv
<1>1. Inv /\ [Next]_vars => Inv'
  BY NextType, HistoryStep, ChecksOutliveStep, PathsStep, CursorFollowsStep,
     BranchStep, SnapshotStep, EvidenceStep
     DEF Inv
<1> QED BY InitInv, <1>1, PTL DEF Spec

\* The lifecycle rows tell one unbroken story.
THEOREM HistoryHolds == Spec => []HistoryIsContiguous
BY Invariant, PTL DEF Inv

\* What submit saw of the inject and of the author's team still holds when it
\* commits.
THEOREM ChecksHold == Spec => []ChecksOutliveTheRead
BY Invariant, PTL DEF Inv

\* An inject's scalar state and its per-team rows always agree.
THEOREM PathsHold == Spec => []ResolvedIffEveryPathResolved
BY Invariant, PTL DEF Inv

\* The audience of an inject on screen is, to the end, what the roster says.
THEOREM AudienceHolds == Spec => []AudienceIsFixed
BY Invariant, PTL DEF Inv

\* No cursor moves but by its own context's answer, along a branch.
THEOREM CursorsHold == Spec => []CursorFollowsOwnAnswer
BY Invariant, PTL DEF Inv

\* A linked node is on screen only because some team answered its way to it.
THEOREM BranchesHold == Spec => []BranchWasReached
BY Invariant, PTL DEF Inv

\* The launch snapshot stays exactly the launch-configured injects.
THEOREM SnapshotHolds == Spec => []SnapshotIsExact
BY Invariant, PTL DEF Inv

\* Every response keeps its inject and stays with its author's team.
THEOREM EvidenceHolds == Spec => []ResponsesKeepTheirContext
BY Invariant, PTL DEF Inv

\* A cursor changes only in the step that resolves its own path.
THEOREM CursorMovesHold == Spec => CursorMovesOncePerPath
<1>1. Inv /\ [Next]_vars =>
         [\A c \in Contexts :
             cursor'[c] # cursor[c] =>
                 LET i == cursor'[c].inject IN
                 progress[i][c] = "released" /\ progress'[i][c] = "resolved"]_vars
  BY CursorStep DEF Inv
<1> QED BY Invariant, <1>1, PTL DEF Spec, CursorMovesOncePerPath

-----------------------------------------------------------------------------
(* Refinement of RunContract.                                               *)

\* A fresh draft is an initial state of the contract.
LEMMA InitRefines == Init => Contract!Init
BY DEF Init, Contract!Init

\* Every step is a step of the contract or leaves what it sees alone.
LEMMA StepRefines ==
    Inv /\ [Next]_vars => [Contract!Next]_(Contract!vars)
<1> SUFFICES ASSUME Inv, [Next]_vars PROVE [Contract!Next]_(Contract!vars)
  OBVIOUS
<1> USE DEF Inv, TypeOK
<1>1. ASSUME UNCHANGED <<state, progress>> PROVE UNCHANGED Contract!vars
  BY <1>1 DEF Contract!vars
<1>2. ASSUME NEW i \in Injects, Contract!Open(i) PROVE Contract!Next
  BY <1>2 DEF Contract!Next
<1>3. ASSUME NEW i \in Injects, NEW c \in Contexts, Contract!Answer(i, c) PROVE Contract!Next
  BY <1>3 DEF Contract!Next
<1>4. ASSUME NEW r \in Requests, TransitionCommit(r) PROVE Contract!Next
  <2>1. /\ <<state, state'>> \in ValidTransitions /\ progress' = progress
    BY <1>4 DEF TransitionCommit, TransitionWins
  <2>2. /\ <<state, state'>> \in Contract!Moves
        /\ state' \in {"active", "paused", "completed"}
    BY <2>1 DEF ValidTransitions, Contract!Moves
  <2>3. Contract!Move(state')
    BY <2>1, <2>2 DEF Contract!Move
  <2> QED BY <2>2, <2>3 DEF Contract!Next
<1>5. ASSUME NEW r \in Requests, ReleaseCommit(r) PROVE Contract!Next
  <2>0. PICK i \in Injects : i = req[r].inject
    BY <1>5, RequestFields DEF ReleaseCommit
  <2>1. /\ i \in Injects
        /\ state = "active" /\ state' = state
        /\ inject[i] = "pending" /\ AudienceContexts(i) # {}
        /\ progress' = [progress EXCEPT ![i] = SeededRows(i)]
    BY <1>5, <2>0 DEF ReleaseCommit, StillActive, ReleaseWins, HasAudience
  <2>2. \A c \in Contexts : progress[i][c] = "none"
    BY <2>1 DEF ResolvedIffEveryPathResolved, Live
  <2>3. \A c \in Contexts : SeededRows(i)[c] =
          IF c \in AudienceContexts(i) THEN "released" ELSE "none"
    BY <2>2 DEF SeededRows
  <2>4. AudienceContexts(i) \subseteq Contexts
    BY <2>1, AudienceIsContexts
  <2>5. \A c \in Contexts : progress'[i][c] =
          IF c \in AudienceContexts(i) THEN "released" ELSE "none"
    BY <2>1, <2>3
  <2>6. \A j \in Injects : j # i => progress'[j] = progress[j]
    BY <2>1
  <2>7. Contract!Open(i)
    <3> DEFINE old == [j \in Injects |-> { c \in Contexts : progress[j][c] # "none" }]
               new == [j \in Injects |-> { c \in Contexts : progress'[j][c] # "none" }]
    <3>1. old[i] = {}
      BY <2>1, <2>2
    <3>2. new = [old EXCEPT ![i] = AudienceContexts(i)]
      <4>1. { c \in Contexts : progress'[i][c] # "none" } = AudienceContexts(i)
        BY <2>4, <2>5
      <4> QED BY <2>1, <2>6, <4>1
    <3>3. AudienceContexts(i) \in (SUBSET Contexts) \ {{}}
      BY <2>1, <2>4
    <3>4. [j \in Injects |-> { c \in Contexts : progress'[j][c] = "resolved" }]
            = [j \in Injects |-> { c \in Contexts : progress[j][c] = "resolved" }]
      <4>1. ASSUME NEW j \in Injects
            PROVE  { c \in Contexts : progress'[j][c] = "resolved" }
                     = { c \in Contexts : progress[j][c] = "resolved" }
        BY <2>2, <2>5, <2>6
      <4> QED BY <4>1
    <3>5. \E A \in (SUBSET Contexts) \ {{}} : new = [old EXCEPT ![i] = A]
      BY <3>2, <3>3
    <3> QED BY <2>1, <3>1, <3>4, <3>5 DEF Contract!Open
  <2> QED BY <1>2, <2>1, <2>7
<1>6. ASSUME NEW r \in Requests, RespondCommit(r)
      PROVE  Contract!Next \/ UNCHANGED Contract!vars
  <2>0. PICK i \in Injects, g \in Contexts : i = req[r].inject /\ g = req[r].group
    BY <1>6, RequestFields DEF RespondCommit
  <2>1. /\ i \in Injects /\ g \in Contexts /\ Live(i) /\ state' = state
    BY <1>6, <2>0 DEF RespondCommit, ChecksOutliveTheRead
  <2>2. SeededRows(i) = progress[i]
    BY <2>1, SeedingIsIdempotent
  <2>3. CASE progress[i][g] # "released"
    <3>1. progress' = progress
      BY <1>6, <2>0, <2>1, <2>2, <2>3 DEF RespondCommit, OpensPath
    <3> QED BY <1>1, <2>1, <3>1
  <2>4. CASE progress[i][g] = "released"
    <3>1. progress' = [progress EXCEPT ![i] = [progress[i] EXCEPT ![g] = "resolved"]]
      BY <1>6, <2>0, <2>1, <2>2, <2>4 DEF RespondCommit, OpensPath
    <3>2. \A j \in Injects, c \in Contexts : progress'[j][c] =
            IF j = i /\ c = g THEN "resolved" ELSE progress[j][c]
      BY <2>1, <3>1
    <3> DEFINE old == [j \in Injects |-> { c \in Contexts : progress[j][c] = "resolved" }]
               new == [j \in Injects |-> { c \in Contexts : progress'[j][c] = "resolved" }]
    <3>3. new = [old EXCEPT ![i] = old[i] \cup {g}]
      <4>1. ASSUME NEW j \in Injects
            PROVE  { c \in Contexts : progress'[j][c] = "resolved" } =
                     IF j = i THEN { c \in Contexts : progress[j][c] = "resolved" } \cup {g}
                     ELSE { c \in Contexts : progress[j][c] = "resolved" }
        BY <2>1, <3>2
      <4> QED BY <2>1, <4>1
    <3>4. [j \in Injects |-> { c \in Contexts : progress'[j][c] # "none" }]
            = [j \in Injects |-> { c \in Contexts : progress[j][c] # "none" }]
      <4>1. ASSUME NEW j \in Injects
            PROVE  { c \in Contexts : progress'[j][c] # "none" }
                     = { c \in Contexts : progress[j][c] # "none" }
        BY <2>4, <3>2
      <4> QED BY <4>1
    <3>5. g \in { c \in Contexts : progress[i][c] # "none" } \ old[i]
      BY <2>1, <2>4
    <3>6. state # "draft"
      BY <2>1 DEF AudienceIsFixed
    <3>7. Contract!Answer(i, g)
      BY <2>1, <3>3, <3>4, <3>5, <3>6 DEF Contract!Answer
    <3> QED BY <1>3, <2>1, <3>7
  <2> QED BY <2>3, <2>4
<1>7. ASSUME NEW r \in Requests, Checks(r)
      PROVE  UNCHANGED Contract!vars
  BY <1>1, <1>7, ChecksOnlyRead
<1>8. ASSUME Backstage PROVE UNCHANGED Contract!vars
  BY <1>1, <1>8 DEF Backstage
<1> QED BY StepCases, <1>4, <1>5, <1>6, <1>7, <1>8

\* A run is a behaviour of the contract: opened once, while live, to a
\* non-empty audience that never changes and alone closes paths, each once.
THEOREM Refinement == Spec => ImplementsContract
<1>1. Inv /\ [Next]_vars => [Contract!Next]_(Contract!vars)
  BY StepRefines
<1> QED BY InitRefines, Invariant, <1>1, PTL DEF Spec, ImplementsContract, Contract!Spec
=============================================================================
