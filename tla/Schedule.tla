------------------------------ MODULE Schedule ------------------------------
(***************************************************************************)
(* Timed releases: the durable jobs that open injects when their offset of  *)
(* running time comes up (services/schedule_service, services/task_queue),  *)
(* on top of the exercise clock.                                            *)
(*                                                                          *)
(* A job is a row of the queue, written in the transaction that makes it    *)
(* due.  A worker fetches it, reads the exercise and the inject, decides,   *)
(* and commits its decision; pausing, completing and editing cancel nothing.*)
(* Start and resume arm the schedule in a second transaction of their own,  *)
(* after the state has been committed, and a crash between the two is       *)
(* repaired by the reconciliation a starting process runs.                  *)
(***************************************************************************)
EXTENDS ExerciseClock

CONSTANTS
    Injects,      \* injects of the exercise, one per scenario node
    NoInject,     \* a cursor that points nowhere
    Start,        \* the inject of the scenario's start node
    Leads,        \* Leads[i]: injects (or NoInject) an answer to i can lead to
    InitialOffset,\* release_offset_minutes each inject is created with
    NoOffset,     \* release_offset_minutes NULL
    Editable,     \* injects created during the run, whose offset may change
    NewOffsets,   \* offsets a facilitator sets
    Jobs,         \* slots for queue jobs that are not finished
    LateRoster,   \* whether participants may be enrolled after the start
    MaxEdits,     \* bound on schedule edits explored
    MaxCrashes    \* bound on crashes explored

ASSUME ScheduleAssumption ==
    /\ NoInject \notin Injects /\ Start \in Injects
    /\ Leads \in [Injects -> SUBSET (Injects \cup {NoInject})]
    /\ NoOffset \notin Nat /\ NewOffsets \subseteq Nat \cup {NoOffset}
    /\ InitialOffset \in [Injects -> Nat \cup {NoOffset}]
    /\ Editable \subseteq Injects
    /\ LateRoster \in BOOLEAN
    /\ MaxEdits \in Nat /\ MaxCrashes \in Nat

VARIABLES
    opened,    \* opened[i]: "pending", or who released it (Inject.released_by)
    offset,    \* Inject.release_offset_minutes
    cursor,    \* the inject whose node the team's cursor is on
    answered,  \* injects the team has answered
    enrolled,  \* whether the roster holds a participant
    jobs,      \* jobs[j]: procrastinate_jobs row, with what its worker decided
    repair,    \* "restart": a process has died and not yet come back up;
               \* "needed": an arming failed that nobody is due to repair
    edits, crashes

scheduleVars == <<opened, offset, cursor, answered, enrolled, jobs, repair, edits, crashes>>
vars == <<clockVars, scheduleVars>>

Free == [at |-> "free"]

-----------------------------------------------------------------------------
(* What the tasks and services compute.                                    *)

\* release_is_allowed for the clock: an unlinked node may open at any time.
Linked == UNION { Leads[i] : i \in Injects }
Gate(i) == cursor = i \/ i \notin Linked

\* seconds_until_due and the time a job is written for, by the exercise row in
\* hand and an offset.
Remaining(x, minutes) == minutes - Elapsed(x)
DueAt(x, minutes) == IF Remaining(x, minutes) > 0 THEN now + Remaining(x, minutes) ELSE now

\* _live_job_args: a job a worker has taken does not count, since it may have
\* read the state before the change that prompts the arming.
LiveOrTaken(i) == \E j \in Jobs : jobs[j] # Free /\ jobs[j].inject = i
HasLiveJob(i) == \E j \in Jobs : jobs[j].at = "todo" /\ jobs[j].inject = i

\* Writes a todo job for each inject of the set I into free slots of the
\* queue; bounded slots are the only reason it can have to wait.
Enqueue(I, x) ==
    \E slot \in [I -> { j \in Jobs : jobs[j] = Free }] :
        /\ \A a, b \in I : slot[a] = slot[b] => a = b
        /\ jobs' = [j \in Jobs |->
                       IF \E i \in I : slot[i] = j
                       THEN LET i == CHOOSE i \in I : slot[i] = j IN
                            [at |-> "todo", inject |-> i, due |-> DueAt(x, offset[i])]
                       ELSE jobs[j]]

Pending == { i \in Injects : opened[i] = "pending" }

\* schedule_exercise_injects: everything pending and timed that has no live
\* job, whether or not a cursor has reached it.
Unarmed == { i \in Pending : offset[i] # NoOffset /\ ~HasLiveJob(i) }

\* arm_cursor_reached_injects: what the cursor now points at, live job or not;
\* the variant matches the inject just answered instead of the node reached.
AnsweredTimed(i, next) == { k \in Pending \cap {i} : offset[k] # NoOffset }
ReachedTimed(i, next) == { k \in Pending \cap {next} : offset[k] # NoOffset }

-----------------------------------------------------------------------------
Init ==
    /\ ClockInit
    /\ opened = [i \in Injects |-> "pending"]
    /\ offset = InitialOffset
    /\ cursor = Start
    /\ answered = {}
    /\ enrolled = FALSE
    /\ jobs = [j \in Jobs |-> Free]
    /\ repair = "none"
    /\ edits = 0 /\ crashes = 0

-----------------------------------------------------------------------------
(* Lifecycle requests.                                                     *)

Time == Tick /\ UNCHANGED scheduleVars

Lifecycle(r) ==
    /\ \/ \E target \in {"active", "paused", "completed"} : TransitionRead(r, target)
       \/ TransitionCommit(r, IF req[r].target = "active" THEN [op |-> "reload"] ELSE Idle)
    /\ UNCHANGED scheduleVars

\* The row is loaded again after the commit, so it may be a later one.
Reload(r) ==
    /\ req[r].op = "reload"
    /\ req' = [req EXCEPT ![r] = [op |-> "arm", seen |-> row]]
    /\ UNCHANGED <<now, row, ran, scheduleVars>>

\* The second transaction of start and resume.
Arm(r) ==
    /\ req[r].op = "arm"
    /\ IF req[r].seen.state = "active" THEN Enqueue(Unarmed, req[r].seen)
       ELSE UNCHANGED jobs
    /\ req' = [req EXCEPT ![r] = Idle]
    /\ UNCHANGED <<now, row, ran, opened, offset, cursor, answered, enrolled,
                   repair, edits, crashes>>

-----------------------------------------------------------------------------
(* The facilitator's and the team's steps that the schedule depends on.     *)

\* Enrolment is open until something has been released (roster_changes_allowed).
Enrol ==
    /\ ~enrolled /\ row.state # "completed" /\ Pending = Injects
    /\ row.state = "draft" \/ LateRoster
    /\ enrolled' = TRUE
    /\ UNCHANGED <<clockVars, opened, offset, cursor, answered, jobs, repair, edits, crashes>>

ReleaseByHand(i) ==
    /\ row.state = "active" /\ i \in Pending /\ enrolled
    /\ cursor = i \/ (i \notin Linked /\ answered = {})
    /\ opened' = [opened EXCEPT ![i] = "hand"]
    /\ UNCHANGED <<clockVars, offset, cursor, answered, enrolled, jobs, repair, edits, crashes>>

AnswerRead(r, i) ==
    /\ req[r] = Idle
    /\ row.state = "active" /\ i \notin Pending \cup answered
    /\ req' = [req EXCEPT ![r] = [op |-> "answer", inject |-> i, seen |-> row]]
    /\ UNCHANGED <<now, row, ran, scheduleVars>>

\* The first answer resolves the path, moves the cursor and arms what it now
\* points at in one transaction; the row it arms by is the one it read.
AnswerCommit(r) ==
    /\ req[r].op = "answer"
    /\ LET i == req[r].inject IN
       /\ i \notin answered
       /\ answered' = answered \cup {i}
       /\ \E next \in Leads[i] :
             /\ cursor' = next
             /\ Enqueue(ReachedTimed(i, next), req[r].seen)
    /\ req' = [req EXCEPT ![r] = Idle]
    /\ UNCHANGED <<now, row, ran, opened, offset, enrolled, repair, edits, crashes>>

\* update_schedule reads everything under the configuration locks.
EditOffset(i, value) ==
    /\ edits < MaxEdits
    /\ i \in Editable \cap Pending
    /\ row.state \notin {"draft", "completed"}
    /\ offset' = [offset EXCEPT ![i] = value]
    /\ IF row.state = "active" /\ value # NoOffset
       THEN \E j \in Jobs :
               /\ jobs[j] = Free
               /\ jobs' = [jobs EXCEPT ![j] =
                              [at |-> "todo", inject |-> i, due |-> DueAt(row, value)]]
       ELSE UNCHANGED jobs
    /\ edits' = edits + 1
    /\ UNCHANGED <<clockVars, opened, cursor, answered, enrolled, repair, crashes>>

-----------------------------------------------------------------------------
(* The worker.                                                             *)

SetJob(j, value) ==
    /\ jobs' = [jobs EXCEPT ![j] = value]
    /\ UNCHANGED <<clockVars, offset, cursor, answered, enrolled, edits>>

Fetch(j) ==
    /\ jobs[j].at = "todo" /\ jobs[j].due <= now
    /\ SetJob(j, [at |-> "fetched", inject |-> jobs[j].inject])
    /\ UNCHANGED <<opened, repair, crashes>>

\* A pause has pushed the deadline out since the job was written; the variant
\* trusts the time it was written for.
TrustsDeadline(i) == FALSE
TooEarly(i) == Remaining(row, offset[i]) > 0

\* release_scheduled_inject up to its decision: leave it at that, come back at
\* the recomputed time, or go on to release.
Decide(j) ==
    /\ jobs[j].at = "fetched"
    /\ LET i == jobs[j].inject IN
       SetJob(j, IF i \notin Pending \/ row.state # "active" \/ offset[i] = NoOffset
                    \/ (~TooEarly(i) /\ ~Gate(i))
                 THEN [at |-> "leaving", inject |-> i]
                 ELSE IF TooEarly(i)
                      THEN [at |-> "redefer", inject |-> i, due |-> DueAt(row, offset[i])]
                 ELSE [at |-> "release", inject |-> i])
    /\ UNCHANGED <<opened, repair, crashes>>

\* The worker that commits may die before it has marked its own job finished.
Finish(j) == SetJob(j, Free) /\ UNCHANGED <<repair, crashes>>
Leave(j) == jobs[j].at = "leaving" /\ Finish(j) /\ UNCHANGED opened
DieFinishing(j) ==
    /\ crashes < MaxCrashes
    /\ SetJob(j, [at |-> "stalled", inject |-> jobs[j].inject])
    /\ repair' = "restart" /\ crashes' = crashes + 1

Redefer(j) ==
    /\ jobs[j].at = "redefer"
    /\ SetJob(j, [jobs[j] EXCEPT !.at = "todo"])
    /\ UNCHANGED <<opened, repair, crashes>>

\* release_inject: state, gate, audience and pending are read again under the
\* exercise lock; a refusal is an exception and the job has failed.
ReleaseByClock(j) ==
    /\ jobs[j].at = "release"
    /\ LET i == jobs[j].inject IN
       opened' = IF row.state = "active" /\ Gate(i) /\ enrolled /\ i \in Pending
                 THEN [opened EXCEPT ![i] = "clock"] ELSE opened
    /\ Finish(j) \/ DieFinishing(j)

\* retry_stalled_jobs, every ten minutes.
RetryStalled(j) ==
    /\ jobs[j].at = "stalled"
    /\ SetJob(j, [at |-> "todo", inject |-> jobs[j].inject, due |-> now])
    /\ UNCHANGED <<opened, repair, crashes>>

\* A process dies with some of the requests and of the jobs in hand.
Crash ==
    /\ crashes < MaxCrashes
    /\ \E R \in SUBSET Requests, J \in SUBSET { j \in Jobs : jobs[j].at \in {"fetched", "leaving", "redefer", "release"} } :
          /\ req' = [r \in Requests |-> IF r \in R THEN Idle ELSE req[r]]
          /\ jobs' = [j \in Jobs |->
                        IF j \in J THEN [at |-> "stalled", inject |-> jobs[j].inject]
                        ELSE jobs[j]]
    /\ repair' = "restart" /\ crashes' = crashes + 1
    /\ UNCHANGED <<now, row, ran, opened, offset, cursor, answered, enrolled, edits>>

\* reconcile_release_jobs in the lifespan of any process that starts.
Reconcile ==
    /\ repair # "none"
    /\ repair' = "none"
    /\ IF row.state = "active" THEN Enqueue(Unarmed, row) ELSE UNCHANGED jobs
    /\ UNCHANGED <<clockVars, opened, offset, cursor, answered, enrolled, edits, crashes>>

\* A request is refused or rolled back.
Refuse(r) ==
    /\ req[r].op \in {"transition", "answer"}
    /\ req' = [req EXCEPT ![r] = Idle]
    /\ UNCHANGED <<now, row, ran, scheduleVars>>

\* The second transaction of start and resume fails after the first has
\* committed, and the process lives on.
ArmFails(r) ==
    /\ req[r].op \in {"reload", "arm"}
    /\ req' = [req EXCEPT ![r] = Idle]
    /\ repair' = IF repair = "restart" THEN repair ELSE "needed"
    /\ UNCHANGED <<now, row, ran, opened, offset, cursor, answered, enrolled,
                   jobs, edits, crashes>>

-----------------------------------------------------------------------------
Worker(j) == Fetch(j) \/ Decide(j) \/ Leave(j) \/ Redefer(j) \/ ReleaseByClock(j)

Next ==
    \/ Time
    \/ \E r \in Requests :
          \/ Lifecycle(r) \/ Reload(r) \/ Arm(r) \/ AnswerCommit(r) \/ Refuse(r) \/ ArmFails(r)
          \/ \E i \in Injects : AnswerRead(r, i)
    \/ Enrol
    \/ \E i \in Injects :
          \/ ReleaseByHand(i)
          \/ \E value \in NewOffsets : EditOffset(i, value)
    \/ \E j \in Jobs : Worker(j) \/ RetryStalled(j)
    \/ Crash
    \/ Reconcile

Spec == Init /\ [][Next]_vars

\* What keeps running: the worker takes and finishes jobs, stalled jobs are
\* retried every ten minutes, a dead process is replaced, a request that has
\* committed its transition goes on to arm or fails, and time passes.
Fairness ==
    /\ WF_vars(Time)
    /\ \A j \in Jobs : WF_vars(Worker(j)) /\ WF_vars(RetryStalled(j))
    /\ \A r \in Requests : WF_vars(Reload(r) \/ Arm(r) \/ ArmFails(r))
    /\ WF_vars(repair = "restart" /\ Reconcile)

FairSpec == Spec /\ Fairness

-----------------------------------------------------------------------------
(* Properties.                                                             *)

Job ==
    {Free}
    \cup [at : {"todo", "redefer"}, inject : Injects, due : Nat]
    \cup [at : {"fetched", "leaving", "release", "stalled"}, inject : Injects]

ScheduleRequest ==
    {Idle, [op |-> "reload"]}
    \cup Transition
    \cup [op : {"arm"}, seen : Row]
    \cup [op : {"answer"}, inject : Injects, seen : Row]

TypeOK ==
    /\ now \in Nat /\ row \in Row /\ ran \in Nat
    /\ req \in [Requests -> ScheduleRequest]
    /\ opened \in [Injects -> {"pending", "hand", "clock"}]
    /\ offset \in [Injects -> Nat \cup {NoOffset}]
    /\ cursor \in Injects \cup {NoInject}
    /\ answered \subseteq Injects
    /\ enrolled \in BOOLEAN
    /\ repair \in {"none", "restart", "needed"}
    /\ jobs \in [Jobs -> Job]
    /\ edits \in 0 .. MaxEdits /\ crashes \in 0 .. MaxCrashes

\* What an active exercise owes its timed injects: the offset and the cursor
\* both allow it, so only a job can be missing.
Owes(i) ==
    /\ row.state = "active" /\ i \in Pending /\ offset[i] # NoOffset
    /\ enrolled /\ Gate(i)

\* No schedule evaporates: a timed inject that the cursor allows has a job on
\* its way, unless the request that will write one is still to come or an
\* arming was lost since the last process started (schedule_service: the
\* transactional enqueue, and reconcile_release_jobs for the rest).
NoStrandedSchedule ==
    \A i \in Injects :
        Owes(i) => \/ \E j \in Jobs :
                         jobs[j] # Free /\ jobs[j].inject = i /\ jobs[j].at # "leaving"
                   \/ repair # "none"
                   \/ \E r \in Requests : req[r].op \in {"reload", "arm"}

\* A stale deadline is only ever early (_live_job_args), so skipping what has
\* a waiting job never costs time: among the jobs of an inject that is owed
\* one is in hand or comes up no later than the inject is due.
ArmedInTime ==
    \A i \in Injects :
        Owes(i) => \/ \E j \in Jobs :
                         /\ jobs[j] # Free /\ jobs[j].inject = i /\ jobs[j].at # "leaving"
                         /\ jobs[j].at = "todo" => jobs[j].due <= DueAt(row, offset[i])
                   \/ repair # "none"
                   \/ \E r \in Requests : req[r].op \in {"reload", "arm"}

\* The clock opens nothing before its offset of running time has passed, in
\* spite of pauses, stale jobs, retries and lost armings.  A start or resume runs
\* from the time it took, which may be before its commit.
NeverEarly ==
    [][\A i \in Injects :
          opened[i] = "pending" /\ opened'[i] = "clock" /\ i \notin Editable =>
              ran >= offset[i]]_vars

\* A timed inject that stays due and allowed is eventually on screen, through
\* worker deaths, restarts and early jobs, unless its arming was lost with no
\* process starting since.
DueIsReleased ==
    \A i \in Injects :
        <>[](Owes(i) /\ Remaining(row, offset[i]) <= 0 /\ repair # "needed")
            => <>(opened[i] # "pending")
=============================================================================
