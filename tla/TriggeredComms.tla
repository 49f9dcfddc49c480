--------------------------- MODULE TriggeredComms ---------------------------
(***************************************************************************)
(* Messages a scenario node triggers some running time after its inject has *)
(* been released (services/schedule_service, services/task_queue,           *)
(* communication_service.deliver_triggered_communication).                  *)
(*                                                                          *)
(* A node seeds one inject per target team and every release of one of them *)
(* writes a job for each trigger of the node; the message is the trigger's, *)
(* so the first job that gets through sends it for all.  How much running   *)
(* time has passed is computed from the stamped lifecycle rows, not from    *)
(* the pacing columns of ExerciseClock.                                     *)
(***************************************************************************)
EXTENDS Integers, Sequences

CONSTANTS
    Injects,      \* injects of the exercise
    Triggers,     \* triggers (node and index) of the scenario
    Fires,        \* Fires[t]: the injects of trigger t's node
    Delay,        \* delay_after_release_seconds of each trigger
    Requests,     \* slots for in-flight lifecycle requests
    Jobs,         \* slots for queue jobs that are not finished
    MaxTime,      \* bound on the clock explored
    MaxMoves,     \* bound on lifecycle changes explored
    MaxCrashes    \* bound on crashes explored

ASSUME CommsAssumption ==
    /\ Fires \in [Triggers -> SUBSET Injects]
    /\ Delay \in [Triggers -> Nat]
    /\ MaxTime \in Nat /\ MaxMoves \in Nat /\ MaxCrashes \in Nat

VARIABLES
    now,       \* wall clock
    state,     \* Exercise.state
    moves,     \* ExerciseStateTransition rows, ordered by transitioned_at
    released,  \* Inject.released_at
    sent,      \* triggers whose trigger_key has a Communication row
    jobs,      \* jobs[j]: procrastinate_jobs row, with what its worker decided
    req,       \* req[r]: what lifecycle request r has read and not yet acted on
    repair,    \* "restart": a process has died and not yet come back up;
               \* "needed": an arming failed that nobody is due to repair
    crashes,
    ran,       \* ticks spent active (observer)
    held,      \* ticks that resumes took from their stamp to their commit (observer)
    ranAt,     \* ranAt[i]: Run when i was released (observer)
    crossed    \* injects of which a lifecycle row is out of its order (observer)

observers == <<ran, held, ranAt, crossed>>
vars == <<now, state, moves, released, sent, jobs, req, repair, crashes, observers>>

\* What a stopwatch shows that each resume starts at the time the request took.
Run == ran + held

NoTime == -1
Idle == [op |-> "idle"]
Free == [at |-> "free"]

ValidTransitions ==
    { <<"draft", "active">>, <<"active", "paused">>, <<"active", "completed">>,
      <<"paused", "active">>, <<"paused", "completed">> }

-----------------------------------------------------------------------------
(* What the services compute.                                              *)

IsReleased(i) == released[i] # NoTime

\* The pauses among the lifecycle rows; rows stamped before the release do
\* not count.
NoSpan == [open |-> NoTime, total |-> 0]
SpanAfter(span, m, since) ==
    IF m.at < since THEN span
    ELSE IF m.to = "paused" THEN [span EXCEPT !.open = m.at]
    ELSE IF m.from = "paused" /\ span.open # NoTime
         THEN [open |-> NoTime, total |-> span.total + (m.at - span.open)]
    ELSE span
PauseSpans(rows, since) ==
    LET upTo[k \in 0 .. Len(rows)] ==
            IF k = 0 THEN NoSpan ELSE SpanAfter(upTo[k - 1], rows[k], since)
    IN  upTo[Len(rows)]

\* _active_elapsed_since, for an exercise that has not ended.
Elapsed(i) ==
    LET span == PauseSpans(moves, released[i])
        open == IF span.open = NoTime THEN 0 ELSE now - span.open
        elapsed == now - released[i] - span.total - open
    IN  IF elapsed < 0 THEN 0 ELSE elapsed

\* The wait a job is written for; the variant starts the delay over again.
FullDelay(t, i) == Delay[t]
Wait(t, i) == IF Delay[t] > Elapsed(i) THEN Delay[t] - Elapsed(i) ELSE 0

\* The live jobs of schedule_exercise_communications: todo only, and keyed on
\* the trigger, not on the inject.
LiveOrTaken(t) == \E j \in Jobs : jobs[j] # Free /\ jobs[j].trigger = t
HasLiveJob(t) == \E j \in Jobs : jobs[j].at = "todo" /\ jobs[j].trigger = t

\* Triggers durable state says are still owed and that have no live job.
Unarmed == { t \in Triggers \ sent : (\E i \in Fires[t] : IsReleased(i)) /\ ~HasLiveJob(t) }

\* The inject a trigger is armed for, the first released.
FirstReleased(t) ==
    { i \in Fires[t] : IsReleased(i)
                       /\ \A k \in Fires[t] : IsReleased(k) => released[i] <= released[k] }

Todo(t, i, wait) == [at |-> "todo", trigger |-> t, inject |-> i, due |-> now + wait]

\* defer_job for each of the new rows, into free slots.
Enqueue(new) ==
    \E slot \in [new -> { j \in Jobs : jobs[j] = Free }] :
        /\ \A x, y \in new : slot[x] = slot[y] => x = y
        /\ jobs' = [j \in Jobs |-> IF \E x \in new : slot[x] = j
                                   THEN CHOOSE x \in new : slot[x] = j ELSE jobs[j]]

\* schedule_exercise_communications for an exercise row read as active or not.
Rearm(active) ==
    IF ~active THEN UNCHANGED jobs
    ELSE \E pick \in [Unarmed -> Injects] :
            /\ \A t \in Unarmed : pick[t] \in FirstReleased(t)
            /\ Enqueue({ Todo(t, pick[t], Wait(t, pick[t])) : t \in Unarmed })

-----------------------------------------------------------------------------
Init ==
    /\ now = 0 /\ ran = 0 /\ held = 0 /\ crossed = {}
    /\ state = "draft" /\ moves = << >>
    /\ released = [i \in Injects |-> NoTime]
    /\ ranAt = [i \in Injects |-> 0]
    /\ sent = {}
    /\ jobs = [j \in Jobs |-> Free]
    /\ req = [r \in Requests |-> Idle]
    /\ repair = "none" /\ crashes = 0

Tick ==
    /\ now < MaxTime
    /\ now' = now + 1
    /\ ran' = IF state = "active" THEN ran + 1 ELSE ran
    /\ UNCHANGED <<state, moves, released, sent, jobs, req, repair, crashes, held, ranAt, crossed>>

-----------------------------------------------------------------------------
(* Lifecycle requests.                                                     *)

TransitionRead(r, target) ==
    /\ req[r] = Idle
    /\ state # "completed"
    /\ req' = [req EXCEPT ![r] =
                  [op |-> "transition", seen |-> state, target |-> target, read |-> now]]
    /\ UNCHANGED <<now, state, moves, released, sent, jobs, repair, crashes, observers>>

\* What the observers make of a row stamped `stamp`: it takes its place among the
\* rows, which puts it out of order for all if a later one is there already and for
\* an inject released in between.
Observe(q, stamp) ==
    /\ held' = IF q.seen = "paused" /\ q.target = "active" THEN held + (now - stamp) ELSE held
    /\ crossed' = IF \E n \in 1 .. Len(moves) : moves[n].at > stamp THEN Injects
                  ELSE crossed \cup { i \in Injects : stamp < released[i] }
    /\ UNCHANGED <<ran, ranAt>>

\* transitioned_at is taken some time after the row was read and before the UPDATE,
\* which may have to wait for it.
TransitionCommit(r) ==
    /\ req[r].op = "transition"
    /\ LET q == req[r] IN
       /\ <<q.seen, q.target>> \in ValidTransitions
       /\ state = q.seen
       /\ Len(moves) < MaxMoves
       /\ state' = q.target
       /\ \E stamp \in q.read .. now, k \in 0 .. Len(moves) :
             /\ \A n \in 1 .. Len(moves) : moves[n].at <= stamp <=> n <= k
             /\ moves' = SubSeq(moves, 1, k)
                            \o <<[from |-> q.seen, to |-> q.target, at |-> stamp]>>
                            \o SubSeq(moves, k + 1, Len(moves))
             /\ Observe(q, stamp)
       /\ req' = [req EXCEPT ![r] = IF q.target = "active" THEN [op |-> "reload"] ELSE Idle]
    /\ UNCHANGED <<now, released, sent, jobs, repair, crashes>>

\* The row is loaded again after the commit, so it may be a later one.
Reload(r) ==
    /\ req[r].op = "reload"
    /\ req' = [req EXCEPT ![r] = [op |-> "arm", active |-> state = "active"]]
    /\ UNCHANGED <<now, state, moves, released, sent, jobs, repair, crashes, observers>>

\* The second transaction of start and resume.
Arm(r) ==
    /\ req[r].op = "arm"
    /\ Rearm(req[r].active)
    /\ req' = [req EXCEPT ![r] = Idle]
    /\ UNCHANGED <<now, state, moves, released, sent, repair, crashes, observers>>

ArmFails(r) ==
    /\ req[r].op \in {"reload", "arm"}
    /\ req' = [req EXCEPT ![r] = Idle]
    /\ repair' = IF repair = "restart" THEN repair ELSE "needed"
    /\ UNCHANGED <<now, state, moves, released, sent, jobs, crashes, observers>>

Refuse(r) ==
    /\ req[r].op = "transition"
    /\ req' = [req EXCEPT ![r] = Idle]
    /\ UNCHANGED <<now, state, moves, released, sent, jobs, repair, crashes, observers>>

-----------------------------------------------------------------------------
\* release_inject, under the exercise lock: the triggers of the inject's node
\* are armed in the transaction that releases it (#211).
Release(i) ==
    /\ state = "active"
    /\ ~IsReleased(i)
    /\ released' = [released EXCEPT ![i] = now]
    /\ Enqueue({ Todo(t, i, Delay[t]) : t \in { t \in Triggers : i \in Fires[t] } })
    /\ ranAt' = [ranAt EXCEPT ![i] = Run]
    /\ UNCHANGED <<now, state, moves, sent, req, repair, crashes, ran, held, crossed>>

-----------------------------------------------------------------------------
(* The worker.                                                             *)

SetJob(j, value) ==
    /\ jobs' = [jobs EXCEPT ![j] = value]
    /\ UNCHANGED <<now, state, moves, released, req, observers>>

Stage(j, at) == [at |-> at, trigger |-> jobs[j].trigger, inject |-> jobs[j].inject]

Fetch(j) ==
    /\ jobs[j].at = "todo" /\ jobs[j].due <= now
    /\ SetJob(j, Stage(j, "fetched"))
    /\ UNCHANGED <<sent, repair, crashes>>

\* The variant trusts the time the job was written for.
TrustsDeadline(t, i) == FALSE
TooEarly(t, i) == Delay[t] > Elapsed(i)

\* deliver_triggered_comm up to its decision.
Decide(j) ==
    /\ jobs[j].at = "fetched"
    /\ LET t == jobs[j].trigger
           i == jobs[j].inject IN
       SetJob(j, IF state # "active" THEN Stage(j, "leaving")
                 ELSE IF TooEarly(t, i)
                      THEN [Todo(t, i, Wait(t, i)) EXCEPT !.at = "redefer"]
                 ELSE Stage(j, "deliver"))
    /\ UNCHANGED <<sent, repair, crashes>>

Finish(j) == SetJob(j, Free) /\ UNCHANGED <<repair, crashes>>
DieFinishing(j) ==
    /\ crashes < MaxCrashes
    /\ SetJob(j, Stage(j, "stalled"))
    /\ repair' = "restart" /\ crashes' = crashes + 1

Leave(j) == jobs[j].at = "leaving" /\ Finish(j) /\ UNCHANGED sent

Redefer(j) ==
    /\ jobs[j].at = "redefer"
    /\ SetJob(j, [jobs[j] EXCEPT !.at = "todo"])
    /\ UNCHANGED <<sent, repair, crashes>>

\* The insert does nothing if the trigger_key is there; the state of the
\* exercise is not read again.
Deliver(j) ==
    /\ jobs[j].at = "deliver"
    /\ sent' = sent \cup {jobs[j].trigger}
    /\ Finish(j) \/ DieFinishing(j)

RetryStalled(j) ==
    /\ jobs[j].at = "stalled"
    /\ SetJob(j, Todo(jobs[j].trigger, jobs[j].inject, 0))
    /\ UNCHANGED <<sent, repair, crashes>>

\* A process dies with some of the requests and of the jobs in hand.
Crash ==
    /\ crashes < MaxCrashes
    /\ \E R \in SUBSET Requests,
          J \in SUBSET { j \in Jobs : jobs[j].at \in {"fetched", "leaving", "redefer", "deliver"} } :
          /\ req' = [r \in Requests |-> IF r \in R THEN Idle ELSE req[r]]
          /\ jobs' = [j \in Jobs |-> IF j \in J THEN Stage(j, "stalled") ELSE jobs[j]]
    /\ repair' = "restart" /\ crashes' = crashes + 1
    /\ UNCHANGED <<now, state, moves, released, sent, observers>>

\* reconcile_release_jobs in the lifespan of any process that starts.
Reconcile ==
    /\ repair # "none"
    /\ Rearm(state = "active")
    /\ repair' = "none"
    /\ UNCHANGED <<now, state, moves, released, sent, req, crashes, observers>>

-----------------------------------------------------------------------------
Worker(j) == Fetch(j) \/ Decide(j) \/ Leave(j) \/ Redefer(j) \/ Deliver(j)

Next ==
    \/ Tick
    \/ \E r \in Requests :
          \/ \E target \in {"active", "paused", "completed"} : TransitionRead(r, target)
          \/ TransitionCommit(r) \/ Reload(r) \/ Arm(r) \/ ArmFails(r) \/ Refuse(r)
    \/ \E i \in Injects : Release(i)
    \/ \E j \in Jobs : Worker(j) \/ RetryStalled(j)
    \/ Crash
    \/ Reconcile

Spec == Init /\ [][Next]_vars

\* As for Schedule: workers work, stalled jobs are retried, a dead process is
\* replaced, a committed start or resume goes on, and time passes.
Fairness ==
    /\ WF_vars(Tick)
    /\ \A j \in Jobs : WF_vars(Worker(j)) /\ WF_vars(RetryStalled(j))
    /\ \A r \in Requests : WF_vars(Reload(r) \/ Arm(r) \/ ArmFails(r))
    /\ WF_vars(repair = "restart" /\ Reconcile)

FairSpec == Spec /\ Fairness

-----------------------------------------------------------------------------
(* Properties.                                                             *)

Owed(t) == state = "active" /\ t \notin sent /\ \E i \in Fires[t] : IsReleased(i)

\* A message is sent only after its delay of running time since the release of one
\* of its node's injects: no pause counts, whatever job gets through
\* (_active_elapsed_since excludes every persisted pause span).  A pause ends at the
\* time its resume took, which may be before the resume's commit.  And the spans are
\* read off rows sorted by their stamps, which is not to be trusted when a request
\* took its time before a release, or before another request's, and committed after.
MessageWaitsItsDelay ==
    [][\A t \in Triggers :
          t \in sent' \ sent =>
              \E i \in Fires[t] :
                 IsReleased(i) /\ (i \in crossed \/ Run - ranAt[i] >= Delay[t])]_vars

\* No message evaporates (#211): one that is owed has a job that has not given
\* up, unless the request that will write one is still to come or an arming
\* was lost since the last process started.
NoLostMessage ==
    \A t \in Triggers :
        Owed(t) => \/ \E j \in Jobs :
                         jobs[j] # Free /\ jobs[j].trigger = t /\ jobs[j].at # "leaving"
                   \/ repair # "none"
                   \/ \E r \in Requests : req[r].op \in {"reload", "arm"}

\* Skipping what has a waiting job costs at most the time between the teams'
\* releases: a job is in hand, or one comes up no later than the last released
\* inject of the node makes the message due, and what resumes took to commit (a job
\* may be written between a resume's stamp and its commit).
ArmedByLastRelease ==
    \A t \in Triggers :
        Owed(t) => \/ \E j \in Jobs :
                         /\ jobs[j] # Free /\ jobs[j].trigger = t /\ jobs[j].at # "leaving"
                         /\ jobs[j].at = "todo" =>
                               \/ jobs[j].due <= now
                               \/ \E i \in Fires[t] :
                                     /\ IsReleased(i)
                                     /\ \/ i \in crossed
                                        \/ jobs[j].due - now <= Delay[t] - Elapsed(i) + held
                   \/ repair # "none"
                   \/ \E r \in Requests : req[r].op \in {"reload", "arm"}

\* A message that stays owed and due is eventually sent, through worker deaths,
\* restarts and early jobs, unless its arming was lost with no process
\* starting since.
OwedIsSent ==
    \A t \in Triggers :
        <>[](/\ Owed(t) /\ repair # "needed"
             /\ \A i \in Fires[t] : IsReleased(i) => ~TooEarly(t, i))
            => <>(t \in sent)
=============================================================================
