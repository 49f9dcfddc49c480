------------------------ MODULE TriggeredCommsProofs ------------------------
(***************************************************************************)
(* For any injects, triggers, delays, queue and number of requests: no      *)
(* triggered message that an active exercise owes is left without a job,    *)
(* none is sent before its delay has run, and none waits longer than its    *)
(* last released inject makes it.                                           *)
(*                                                                          *)
(* NoLostMessage is not inductive: a request about to arm counts only if    *)
(* the exercise it read was active (OwedIsComing).  Of the types the        *)
(* argument needs no more than WellFormed: the order of the lifecycle rows  *)
(* and the running time computed from them play no part in it.              *)
(*                                                                          *)
(* The other two are about that running time.  What the rows add up to is   *)
(* computed by a recursion over them, so it is an induction that shows it   *)
(* to be no more than what has run (Measured), for an inject no row crossed *)
(* and with a resume's wait for its commit counted as running (Run); then   *)
(* every job is written for a time that is not too late, and delivers at    *)
(* one that is not too early (Holds).                                       *)
(***************************************************************************)
EXTENDS TriggeredComms, WellFoundedInduction, SequenceTheorems, TLAPS

\* A job that has not given up on the trigger.
OnItsWay(t) ==
    \E j \in Jobs : jobs[j] # Free /\ jobs[j].trigger = t /\ jobs[j].at # "leaving"
WillArm(r) == \/ req[r].op = "reload"
              \/ req[r].op = "arm" /\ req[r].active = TRUE

OwedIsComing ==
    \A t \in Triggers :
       Owed(t) => OnItsWay(t) \/ repair # "none" \/ \E r \in Requests : WillArm(r)

WellFormed ==
    /\ req = [r \in Requests |-> req[r]]
    /\ \A r \in Requests : req[r].op = "arm" => req[r].active \in BOOLEAN
    /\ jobs = [j \in Jobs |-> jobs[j]]
    /\ \A j \in Jobs :
          jobs[j].at = "redefer" =>
             jobs[j] = [at |-> "redefer", trigger |-> jobs[j].trigger,
                        inject |-> jobs[j].inject, due |-> jobs[j].due]
    /\ released = [i \in Injects |-> released[i]]

Inv == WellFormed /\ OwedIsComing

\* A step that writes waiting jobs into free slots and touches no other.
OnlyAdds ==
    /\ jobs' = [j \in Jobs |-> jobs'[j]]
    /\ \A j \in Jobs : jobs'[j] = jobs[j]
                       \/ (jobs[j] = Free /\ jobs'[j] # Free /\ jobs'[j].at = "todo")

-----------------------------------------------------------------------------
(* The queue.                                                              *)

\* Enqueue gives each new job a slot and touches no other.
LEMMA Enqueued ==
    ASSUME WellFormed, NEW new, Enqueue(new), \A x \in new : x.at = "todo"
    PROVE  OnlyAdds /\ \A x \in new : \E j \in Jobs : jobs'[j] = x
<1>1. PICK slot \in [new -> { j \in Jobs : jobs[j] = Free }] :
         /\ \A x, y \in new : slot[x] = slot[y] => x = y
         /\ jobs' = [j \in Jobs |-> IF \E x \in new : slot[x] = j
                                    THEN CHOOSE x \in new : slot[x] = j ELSE jobs[j]]
  BY DEF Enqueue
<1>2. ASSUME NEW x \in new
      PROVE  slot[x] \in Jobs /\ jobs[slot[x]] = Free /\ jobs'[slot[x]] = x
  <2>1. slot[x] \in Jobs /\ jobs[slot[x]] = Free
    BY <1>1
  <2>2. (CHOOSE y \in new : slot[y] = slot[x]) = x
    BY <1>1
  <2> QED
    BY <1>1, <2>1, <2>2
<1>3. \A j \in Jobs : jobs'[j] = jobs[j] \/ \E x \in new : slot[x] = j
  BY <1>1
<1>4. jobs' = [j \in Jobs |-> jobs'[j]]
  BY <1>1
<1>5. \A x \in new : x # Free
  BY DEF Free
<1> QED
  BY <1>2, <1>3, <1>4, <1>5 DEF OnlyAdds

\* After an arming everything owed has a job.
LEMMA Rearmed ==
    ASSUME WellFormed, Rearm(TRUE)
    PROVE  /\ OnlyAdds
           /\ \A t \in Triggers : Owed(t) => OnItsWay(t)'
<1>1. PICK pick : Enqueue({ Todo(t, pick[t], Wait(t, pick[t])) : t \in Unarmed })
  BY DEF Rearm
<1> DEFINE job(t) == Todo(t, pick[t], Wait(t, pick[t]))
           new == { job(t) : t \in Unarmed }
<1>2. \A t \in Unarmed : job(t).at = "todo" /\ job(t).trigger = t
  BY DEF Todo
<1> HIDE DEF job
<1>3. /\ \A t \in Unarmed : job(t) \in new
      /\ \A x \in new : x.at = "todo"
  BY <1>2
<1> HIDE DEF new
<1>4. OnlyAdds /\ \A x \in new : \E j \in Jobs : jobs'[j] = x
  BY <1>1, <1>3, Enqueued DEF new, job
<1>5. ASSUME NEW t \in Triggers, Owed(t) PROVE OnItsWay(t)'
  <2>1. CASE t \in Unarmed
    <3>1. PICK j \in Jobs : jobs'[j].trigger = t /\ jobs'[j].at = "todo"
      BY <1>2, <1>3, <1>4, <2>1
    <3> QED
      BY <3>1 DEF OnItsWay, Free
  <2>2. CASE t \notin Unarmed
    <3>1. PICK j \in Jobs : jobs[j].at = "todo" /\ jobs[j].trigger = t
      BY <1>5, <2>2 DEF Owed, Unarmed, HasLiveJob
    <3>2. jobs'[j] = jobs[j]
      BY <1>4, <3>1 DEF OnlyAdds, Free
    <3> QED
      BY <3>1, <3>2 DEF OnItsWay, Free
  <2> QED
    BY <2>1, <2>2
<1> QED
  BY <1>4, <1>5

-----------------------------------------------------------------------------
(* What the argument needs of the types.                                   *)

\* Requests and jobs stay records of their stage.
LEMMA WellFormedStays == WellFormed /\ [Next]_vars => WellFormed'
<1> SUFFICES ASSUME WellFormed, [Next]_vars PROVE WellFormed'
  OBVIOUS
<1> USE DEF WellFormed
\* Requests and releases.
<1> DEFINE ReqSound ==
              /\ req' = [r \in Requests |-> req'[r]]
              /\ \A r \in Requests : req'[r].op = "arm" => req'[r].active \in BOOLEAN
<1>1. ReqSound
  <2>1. ASSUME NEW r \in Requests, NEW q, req' = [req EXCEPT ![r] = q],
               q.op = "arm" => q.active \in BOOLEAN
        PROVE  ReqSound
    BY <2>1
  <2>2. ASSUME NEW r \in Requests, NEW target, TransitionRead(r, target) PROVE ReqSound
    BY <2>1, <2>2 DEF TransitionRead
  <2>3. ASSUME NEW r \in Requests, TransitionCommit(r) PROVE ReqSound
    BY <2>1, <2>3 DEF TransitionCommit, Idle
  <2>4. ASSUME NEW r \in Requests, Reload(r) PROVE ReqSound
    BY <2>1, <2>4 DEF Reload
  <2>5. ASSUME NEW r \in Requests, Arm(r) \/ ArmFails(r) \/ Refuse(r) PROVE ReqSound
    BY <2>1, <2>5 DEF Arm, ArmFails, Refuse, Idle
  <2>6. CASE Crash
    BY <2>6 DEF Crash, Idle
  <2>7. CASE UNCHANGED req
    BY <2>7
  <2> QED
    BY <2>2, <2>3, <2>4, <2>5, <2>6, <2>7
       DEF Next, Tick, Release, Worker, Fetch, Decide, Leave, Redefer, Deliver, RetryStalled,
           Finish, DieFinishing, SetJob, Reconcile, vars
<1>2. released' = [i \in Injects |-> released'[i]]
  BY DEF Next, TransitionRead, TransitionCommit, Reload, Arm, ArmFails, Refuse, Tick, Release,
         Worker, Fetch, Decide, Leave, Redefer, Deliver, RetryStalled, Finish, DieFinishing,
         SetJob, Crash, Reconcile, vars
\* The queue.
<1>3. CASE OnlyAdds
  BY <1>3, <1>1, <1>2 DEF OnlyAdds
<1>4. CASE UNCHANGED jobs
  BY <1>4, <1>1, <1>2
<1>5. ASSUME NEW active \in BOOLEAN, Rearm(active) PROVE WellFormed'
  <2>1. CASE active
    BY <1>3, <1>5, <2>1, Rearmed
  <2>2. CASE ~active
    BY <1>4, <1>5, <2>2 DEF Rearm
  <2> QED
    BY <2>1, <2>2
<1>6. ASSUME NEW i \in Injects, Release(i) PROVE WellFormed'
  <2> DEFINE new == { Todo(t, i, Delay[t]) : t \in { t \in Triggers : i \in Fires[t] } }
  <2>1. Enqueue(new)
    BY <1>6 DEF Release
  <2>2. \A x \in new : x.at = "todo"
    BY DEF Todo
  <2> HIDE DEF new
  <2> QED
    BY <1>3, <2>1, <2>2, Enqueued
<1>7. ASSUME NEW j \in Jobs, NEW v, jobs' = [jobs EXCEPT ![j] = v], v.at # "redefer"
      PROVE  WellFormed'
  BY <1>7, <1>1, <1>2
<1>8. ASSUME NEW j \in Jobs, Worker(j) \/ RetryStalled(j) PROVE WellFormed'
  <2>1. CASE Fetch(j)
    BY <2>1, <1>7 DEF Fetch, SetJob, Stage
  <2>2. CASE Decide(j)
    <3> DEFINE t == jobs[j].trigger
               i == jobs[j].inject
    <3>1. PICK v : jobs' = [jobs EXCEPT ![j] = v]
                   /\ (v.at = "redefer" => v = [at |-> "redefer", trigger |-> v.trigger,
                                                inject |-> v.inject, due |-> v.due])
      <4>1. [Todo(t, i, Wait(t, i)) EXCEPT !.at = "redefer"]
               = [at |-> "redefer", trigger |-> t, inject |-> i, due |-> now + Wait(t, i)]
        BY DEF Todo
      <4>2. Stage(j, "leaving").at = "leaving" /\ Stage(j, "deliver").at = "deliver"
        BY DEF Stage
      <4> QED
        BY <2>2, <4>1, <4>2 DEF Decide, SetJob
    <3> QED
      BY <3>1, <1>1, <1>2
  <2>3. CASE Leave(j)
    BY <2>3, <1>7 DEF Leave, Finish, SetJob, Free
  <2>4. CASE Redefer(j)
    <3>1. [jobs[j] EXCEPT !.at = "todo"].at = "todo"
      <4>1. jobs[j] = [at |-> "redefer", trigger |-> jobs[j].trigger,
                       inject |-> jobs[j].inject, due |-> jobs[j].due]
        BY <2>4 DEF Redefer
      <4> QED
        BY <4>1
    <3> QED
      BY <2>4, <3>1, <1>7 DEF Redefer, SetJob
  <2>5. CASE Deliver(j)
    BY <2>5, <1>7 DEF Deliver, Finish, DieFinishing, SetJob, Stage, Free
  <2>6. CASE RetryStalled(j)
    BY <2>6, <1>7 DEF RetryStalled, SetJob, Todo
  <2> QED
    BY <1>8, <2>1, <2>2, <2>3, <2>4, <2>5, <2>6 DEF Worker
<1>9. CASE Crash
  BY <1>9, <1>1, <1>2 DEF Crash, Stage
<1>10. ASSUME NEW r \in Requests, Arm(r) PROVE WellFormed'
  BY <1>10, <1>5 DEF Arm
<1>11. CASE Reconcile
  BY <1>11, <1>5 DEF Reconcile
<1> QED
  BY <1>4, <1>6, <1>8, <1>9, <1>10, <1>11
     DEF Next, Tick, TransitionRead, TransitionCommit, Reload, ArmFails, Refuse, vars

-----------------------------------------------------------------------------
(* Nothing is left without a job.                                          *)

\* What is owed has a job on its way, whatever the step.
LEMMA OwedIsComingStays == Inv /\ [Next]_vars => OwedIsComing'
<1> SUFFICES ASSUME Inv, [Next]_vars PROVE OwedIsComing'
  OBVIOUS
<1>a. WellFormed
  BY DEF Inv
<1>b. \A t \in Triggers : Owed(t) => OnItsWay(t) \/ repair # "none" \/ \E r \in Requests : WillArm(r)
  BY DEF Inv, OwedIsComing
\* It is enough that nothing new is owed and nothing on its way is lost.
<1>c. ASSUME \A t \in Triggers : Owed(t)' => OnItsWay(t)' \/ (Owed(t) /\ (OnItsWay(t) => OnItsWay(t)')),
             repair' = repair,
             \A r \in Requests : WillArm(r) => WillArm(r)'
      PROVE  OwedIsComing'
  BY <1>b, <1>c DEF OwedIsComing
<1>d. ASSUME state' # "active" PROVE OwedIsComing'
  BY <1>d DEF OwedIsComing, Owed
<1>e. ASSUME repair' # "none" PROVE OwedIsComing'
  BY <1>e DEF OwedIsComing
<1>f. ASSUME UNCHANGED <<state, released>>, sent \subseteq sent'
      PROVE  \A t \in Triggers : Owed(t)' => Owed(t)
  BY <1>f DEF Owed, IsReleased
<1>g. ASSUME OnlyAdds \/ UNCHANGED jobs PROVE \A t \in Triggers : OnItsWay(t) => OnItsWay(t)'
  BY <1>g DEF OnItsWay, OnlyAdds
<1>h. ASSUME NEW r \in Requests, ~WillArm(r), NEW q, req' = [req EXCEPT ![r] = q]
      PROVE  \A s \in Requests : WillArm(s) => WillArm(s)'
  BY <1>h, <1>a DEF WillArm, WellFormed
<1>i. ASSUME UNCHANGED req PROVE \A s \in Requests : WillArm(s) => WillArm(s)'
  BY <1>i DEF WillArm
<1>j. ASSUME Rearm(TRUE), UNCHANGED <<state, released, sent>> PROVE OwedIsComing'
  <2>1. \A t \in Triggers : Owed(t) => OnItsWay(t)'
    BY <1>a, <1>j, Rearmed
  <2>2. \A t \in Triggers : Owed(t)' => Owed(t)
    BY <1>f, <1>j
  <2> QED
    BY <2>1, <2>2 DEF OwedIsComing
<1>1. ASSUME Tick \/ UNCHANGED vars PROVE OwedIsComing'
  BY <1>1, <1>c, <1>f, <1>g, <1>i DEF Tick, vars
<1>2. ASSUME NEW r \in Requests, NEW target, TransitionRead(r, target) PROVE OwedIsComing'
  <2>1. ~WillArm(r)
    BY <1>2 DEF TransitionRead, WillArm, Idle
  <2>2. \A s \in Requests : WillArm(s) => WillArm(s)'
    BY <1>2, <2>1, <1>h DEF TransitionRead
  <2> QED
    BY <1>2, <2>2, <1>c, <1>f, <1>g DEF TransitionRead
<1>3. ASSUME NEW r \in Requests, TransitionCommit(r) PROVE OwedIsComing'
  <2>1. CASE req[r].target = "active"
    <3>1. req'[r] = [op |-> "reload"]
      BY <1>3, <1>a, <2>1 DEF TransitionCommit, WellFormed
    <3> QED
      BY <3>1 DEF OwedIsComing, WillArm
  <2>2. CASE req[r].target # "active"
    BY <1>3, <1>d, <2>2 DEF TransitionCommit
  <2> QED
    BY <2>1, <2>2
<1>4. ASSUME NEW r \in Requests, Reload(r) PROVE OwedIsComing'
  <2>1. CASE state = "active"
    <3>1. req'[r] = [op |-> "arm", active |-> TRUE]
      BY <1>4, <1>a, <2>1 DEF Reload, WellFormed
    <3> QED
      BY <3>1 DEF OwedIsComing, WillArm
  <2>2. CASE state # "active"
    BY <1>4, <1>d, <2>2 DEF Reload
  <2> QED
    BY <2>1, <2>2
<1>5. ASSUME NEW r \in Requests, Arm(r) PROVE OwedIsComing'
  <2>1. req[r].active \in BOOLEAN
    BY <1>5, <1>a DEF Arm, WellFormed
  <2>2. CASE req[r].active = TRUE
    BY <1>5, <1>j, <2>2 DEF Arm
  <2>3. CASE req[r].active = FALSE
    <3>1. ~WillArm(r) /\ UNCHANGED jobs
      BY <1>5, <2>3 DEF Arm, WillArm, Rearm
    <3>2. \A s \in Requests : WillArm(s) => WillArm(s)'
      BY <1>5, <3>1, <1>h DEF Arm
    <3> QED
      BY <1>5, <3>1, <3>2, <1>c, <1>f, <1>g DEF Arm
  <2> QED
    BY <2>1, <2>2, <2>3
<1>6. ASSUME NEW r \in Requests, ArmFails(r) PROVE OwedIsComing'
  BY <1>6, <1>e DEF ArmFails
<1>7. ASSUME NEW r \in Requests, Refuse(r) PROVE OwedIsComing'
  <2>1. ~WillArm(r)
    BY <1>7 DEF Refuse, WillArm
  <2>2. \A s \in Requests : WillArm(s) => WillArm(s)'
    BY <1>7, <2>1, <1>h DEF Refuse
  <2> QED
    BY <1>7, <2>2, <1>c, <1>f, <1>g DEF Refuse
<1>8. ASSUME NEW i \in Injects, Release(i) PROVE OwedIsComing'
  <2> DEFINE new == { Todo(t, i, Delay[t]) : t \in { t \in Triggers : i \in Fires[t] } }
  <2>1. Enqueue(new)
    BY <1>8 DEF Release
  <2>2. /\ \A x \in new : x.at = "todo"
        /\ \A t \in Triggers : i \in Fires[t] => Todo(t, i, Delay[t]) \in new
    BY DEF Todo
  <2> HIDE DEF new
  <2>3. OnlyAdds /\ \A x \in new : \E j \in Jobs : jobs'[j] = x
    BY <1>a, <2>1, <2>2, Enqueued
  <2>4. ASSUME NEW t \in Triggers, Owed(t)' PROVE OnItsWay(t)' \/ Owed(t)
    <3>1. CASE i \in Fires[t]
      <4>1. PICK j \in Jobs : jobs'[j] = Todo(t, i, Delay[t])
        BY <2>2, <2>3, <3>1
      <4> QED
        BY <4>1 DEF OnItsWay, Todo, Free
    <3>2. CASE i \notin Fires[t]
      <4>1. PICK k \in Fires[t] : released'[k] # NoTime /\ k # i
        BY <2>4, <3>2 DEF Owed, IsReleased
      <4>2. released[k] # NoTime
        BY <1>8, <1>a, <4>1, CommsAssumption DEF Release, WellFormed
      <4> QED
        BY <1>8, <2>4, <4>1, <4>2 DEF Release, Owed, IsReleased
    <3> QED
      BY <3>1, <3>2
  <2> QED
    BY <1>8, <2>3, <2>4, <1>c, <1>g, <1>i DEF Release
\* What a worker's own step says of its job and its trigger.
<1>9. ASSUME NEW j \in Jobs, NEW v, jobs' = [jobs EXCEPT ![j] = v],
             UNCHANGED <<state, released, repair, req>>, sent \subseteq sent',
             \/ v # Free /\ v.trigger = jobs[j].trigger /\ v.at # "leaving"
             \/ jobs[j].at = "leaving"
             \/ \A t \in Triggers : t = jobs[j].trigger => ~Owed(t)'
      PROVE  OwedIsComing'
  <2>1. \A t \in Triggers : Owed(t)' => Owed(t)
    BY <1>9, <1>f
  <2>2. ASSUME NEW t \in Triggers, Owed(t)', OnItsWay(t) PROVE OnItsWay(t)'
    <3>1. PICK k \in Jobs : jobs[k] # Free /\ jobs[k].trigger = t /\ jobs[k].at # "leaving"
      BY <2>2 DEF OnItsWay
    <3>2. CASE k = j
      <4>1. v # Free /\ v.trigger = t /\ v.at # "leaving"
        BY <1>9, <2>2, <3>1, <3>2
      <4> QED
        BY <1>9, <1>a, <4>1 DEF OnItsWay, WellFormed
    <3>3. CASE k # j
      BY <1>9, <1>a, <3>1, <3>3 DEF OnItsWay, WellFormed
    <3> QED
      BY <3>2, <3>3
  <2> QED
    BY <1>9, <1>c, <1>i, <2>1, <2>2
<1>10. ASSUME NEW j \in Jobs, Worker(j) \/ RetryStalled(j) PROVE OwedIsComing'
  <2>1. CASE Fetch(j)
    BY <2>1, <1>9 DEF Fetch, SetJob, Stage, Free
  <2>2. CASE Decide(j)
    <3>1. CASE state # "active"
      BY <2>2, <3>1, <1>d DEF Decide, SetJob
    <3>2. CASE state = "active"
      <4>1. PICK v : jobs' = [jobs EXCEPT ![j] = v]
                     /\ v # Free /\ v.trigger = jobs[j].trigger /\ v.at # "leaving"
        <5> DEFINE t == jobs[j].trigger
                   i == jobs[j].inject
                   later == [Todo(t, i, Wait(t, i)) EXCEPT !.at = "redefer"]
                   deliver == Stage(j, "deliver")
        <5>1. later = [at |-> "redefer", trigger |-> t, inject |-> i, due |-> now + Wait(t, i)]
          BY DEF Todo
        <5>2. /\ later # Free /\ later.trigger = t /\ later.at # "leaving"
              /\ deliver # Free /\ deliver.trigger = t /\ deliver.at # "leaving"
          BY <5>1 DEF Stage, Free
        <5>3. jobs' = [jobs EXCEPT ![j] = IF TooEarly(t, i) THEN later ELSE deliver]
          BY <2>2, <3>2 DEF Decide, SetJob
        <5> HIDE DEF later, deliver
        <5>4. CASE TooEarly(t, i)
          BY <5>2, <5>3, <5>4
        <5>5. CASE ~TooEarly(t, i)
          BY <5>2, <5>3, <5>5
        <5> QED
          BY <5>4, <5>5
      <4> QED
        BY <2>2, <4>1, <1>9 DEF Decide, SetJob
    <3> QED
      BY <3>1, <3>2
  <2>3. CASE Leave(j)
    BY <2>3, <1>9 DEF Leave, Finish, SetJob
  <2>4. CASE Redefer(j)
    <3>1. PICK v : /\ jobs' = [jobs EXCEPT ![j] = v]
                   /\ v # Free /\ v.trigger = jobs[j].trigger /\ v.at # "leaving"
      <4>1. jobs[j] = [at |-> "redefer", trigger |-> jobs[j].trigger,
                       inject |-> jobs[j].inject, due |-> jobs[j].due]
        BY <2>4, <1>a DEF Redefer, WellFormed
      <4>2. [jobs[j] EXCEPT !.at = "todo"]
               = [at |-> "todo", trigger |-> jobs[j].trigger,
                  inject |-> jobs[j].inject, due |-> jobs[j].due]
        BY <4>1
      <4> QED
        BY <2>4, <4>2 DEF Redefer, SetJob, Free
    <3> QED
      BY <2>4, <3>1, <1>9 DEF Redefer, SetJob
  <2>5. CASE Deliver(j)
    <3>1. CASE DieFinishing(j)
      BY <3>1, <1>e DEF DieFinishing
    <3>2. CASE Finish(j)
      <4>1. sent' = sent \cup {jobs[j].trigger}
        BY <2>5 DEF Deliver
      <4>2. \A t \in Triggers : t = jobs[j].trigger => ~Owed(t)'
        BY <4>1 DEF Owed
      <4> QED
        BY <3>2, <4>1, <4>2, <1>9 DEF Finish, SetJob
    <3> QED
      BY <2>5, <3>1, <3>2 DEF Deliver
  <2>6. CASE RetryStalled(j)
    BY <2>6, <1>9 DEF RetryStalled, SetJob, Todo, Free
  <2> QED
    BY <1>10, <2>1, <2>2, <2>3, <2>4, <2>5, <2>6 DEF Worker
<1>11. CASE Crash
  BY <1>11, <1>e DEF Crash
<1>12. CASE Reconcile
  <2>1. CASE state = "active"
    BY <1>12, <1>j, <2>1 DEF Reconcile
  <2>2. CASE state # "active"
    BY <1>12, <1>d, <2>2 DEF Reconcile
  <2> QED
    BY <2>1, <2>2
<1> QED
  BY <1>1, <1>2, <1>3, <1>4, <1>5, <1>6, <1>7, <1>8, <1>10, <1>11, <1>12 DEF Next

\* Nothing is owed at the start.
LEMMA InitInv == Init => Inv
BY DEF Init, Inv, WellFormed, OwedIsComing, Owed, Idle, Free

\* No message evaporates: one that is owed has a job that has not given up,
\* unless the request that writes one is still to come or an arming was lost
\* since the last process started.
THEOREM NoMessageIsLost == Spec => []NoLostMessage
<1>1. Inv /\ [Next]_vars => Inv'
  BY WellFormedStays, OwedIsComingStays DEF Inv
<1>2. Inv => NoLostMessage
  BY DEF Inv, OwedIsComing, OnItsWay, WillArm, NoLostMessage
<1> QED
  BY InitInv, <1>1, <1>2, PTL DEF Spec

-----------------------------------------------------------------------------
(* Time.                                                                   *)

\* The lifecycle rows: in order, each going on from the one before it, the last
\* one ending in the state of the exercise.
Row == [from : {"draft", "active", "paused"}, to : {"active", "paused", "completed"}, at : Nat]
Ordered ==
    /\ moves \in Seq(Row)
    /\ \A k \in 1 .. Len(moves) :
          /\ moves[k].at <= now
          /\ k > 1 => moves[k - 1].at <= moves[k].at /\ moves[k].from = moves[k - 1].to
    /\ state = IF Len(moves) = 0 THEN "draft" ELSE moves[Len(moves)].to
RowsHold == Injects \subseteq crossed \/ Ordered

\* A request has read its row at some time.
ReadsHold == \A r \in Requests : req[r].op = "transition" => req[r].read \in Nat

\* Nothing is released in the future, or before the start.
TimesHold ==
    /\ now \in Nat /\ ran \in Nat /\ held \in Nat
    /\ released \in [Injects -> Nat \cup {NoTime}] /\ ranAt \in [Injects -> Nat]
    /\ \A i \in Injects : released[i] <= now /\ ranAt[i] <= Run
    /\ state = "draft" => \A i \in Injects : ~IsReleased(i)

\* What pauses leave of the time n - since: the clock runs on when the exercise
\* is active and stands at the last pause when it is paused.
Adds(s, n, since, run, span) ==
    \E total \in Int :
       IF s = "active"
       THEN span = [open |-> NoTime, total |-> total] /\ n - since - total <= run
       ELSE \E open \in Nat :
               span = [open |-> open, total |-> total] /\ open - since - total <= run

\* What the services make of it.
Reading(span, since, n) ==
    LET open == IF span.open = NoTime THEN 0 ELSE n - span.open
        elapsed == n - since - span.total - open
    IN  IF elapsed < 0 THEN 0 ELSE elapsed

\* What the rows add up to is no more than what has run.
Measured ==
    \A i \in Injects :
       IsReleased(i) /\ i \notin crossed /\ state \in {"active", "paused"} =>
          Adds(state, now, released[i], Run - ranAt[i], PauseSpans(moves, released[i]))

\* A waiting job comes up no later than its own inject makes the message due.
Waits(job) == job.at \in {"todo", "redefer"}
InTime(job) ==
    \/ job.inject \in crossed
    \/ /\ job.due \in Int
       /\ \/ job.due <= now
          \/ job.due - now <= Delay[job.trigger] - Elapsed(job.inject) + held
\* What may be relied on about a job.
Holds(job) ==
    job # Free =>
       /\ job.trigger \in Triggers
       /\ job.inject \in Fires[job.trigger] /\ IsReleased(job.inject)
       /\ job.at = "deliver" =>
             \/ job.inject \in crossed
             \/ Run - ranAt[job.inject] >= Delay[job.trigger]
       /\ state \in {"active", "paused"} /\ Waits(job) => InTime(job)
JobsHold == \A j \in Jobs : Holds(jobs[j])

\* The inductive invariant.
TimeInv == WellFormed /\ ReadsHold /\ RowsHold /\ TimesHold /\ Measured /\ JobsHold

-----------------------------------------------------------------------------
(* The recursive sum over the lifecycle rows.  An induction over the natural *)
(* numbers is the statement that a set of them has a least member.           *)

\* A set of natural numbers that is not empty has a least member.
LEMMA LeastMember ==
    ASSUME NEW T \in SUBSET Nat, T # {}
    PROVE  \E x \in T : \A y \in T : x <= y
<1> DEFINE R == { ss \in Nat \X Nat : ss[1] < ss[2] }
<1>1. IsWellFoundedOn(R, Nat)
  BY NatLessThanWellFounded, Zenon DEF OpToRel
<1>2. \A x, y \in Nat : ~(x <= y) => <<y, x>> \in R
  OBVIOUS
<1> HIDE DEF R
<1>3. PICK x \in T : \A y \in T : ~ (<<y, x>> \in R)
  BY <1>1, WFMin
<1> QED BY <1>2, <1>3

\* Induction, for a property that is a set.
LEMMA InductionOverSet ==
    ASSUME NEW S, 0 \in S, \A n \in Nat : n \in S => n + 1 \in S
    PROVE  Nat \subseteq S
<1> SUFFICES ASSUME Nat \ S # {} PROVE FALSE
  OBVIOUS
<1>1. PICK x \in Nat \ S : \A y \in Nat \ S : x <= y
  BY LeastMember
<1>2. x # 0 /\ x - 1 \in Nat /\ x - 1 \in S
  BY <1>1
<1> QED BY <1>1, <1>2

\* f is what the first n rows add up to, one after another.
Sums(f, rows, since, n) ==
    f = [k \in 0 .. n |-> IF k = 0 THEN NoSpan ELSE SpanAfter(f[k - 1], rows[k], since)]

\* There is such a sum, however many rows there are.
LEMMA SumsExist ==
    ASSUME NEW rows, NEW since
    PROVE  \A n \in Nat : \E f : Sums(f, rows, since, n)
<1> DEFINE S == { n \in Nat : \E f : Sums(f, rows, since, n) }
<1>1. 0 \in S
  <2> DEFINE f == [k \in 0 .. 0 |-> NoSpan]
  <2>1. Sums(f, rows, since, 0)
    BY DEF Sums
  <2> QED BY <2>1
<1>2. ASSUME NEW n \in Nat, n \in S PROVE n + 1 \in S
  <2>1. PICK f : Sums(f, rows, since, n)
    BY <1>2
  <2> DEFINE g == [k \in 0 .. n + 1 |-> IF k = n + 1 THEN SpanAfter(f[n], rows[n + 1], since)
                                        ELSE f[k]]
  <2>2. ASSUME NEW k \in 0 .. n + 1
        PROVE  g[k] = IF k = 0 THEN NoSpan ELSE SpanAfter(g[k - 1], rows[k], since)
    <3>1. CASE k = n + 1
      BY <3>1
    <3>2. CASE k \in 0 .. n
      BY <2>1, <3>2 DEF Sums
    <3> QED BY <3>1, <3>2
  <2>3. g = [k \in 0 .. n + 1 |-> g[k]]
    OBVIOUS
  <2> HIDE DEF g
  <2>4. Sums(g, rows, since, n + 1)
    BY <2>2, <2>3 DEF Sums
  <2> QED BY <2>4
<1> HIDE DEF S
<1>3. Nat \subseteq S
  BY <1>1, <1>2, InductionOverSet
<1> QED BY <1>3 DEF S

\* Sums of the same rows agree.
LEMMA SumsAgree ==
    ASSUME NEW rows, NEW other, NEW since, NEW f, NEW g, NEW m \in Nat, NEW n \in Nat,
           m <= n, Sums(f, rows, since, m), Sums(g, other, since, n),
           \A k \in 1 .. m : rows[k] = other[k]
    PROVE  \A k \in 0 .. m : f[k] = g[k]
<1> DEFINE S == { k \in Nat : k <= m => f[k] = g[k] }
<1>1. 0 \in S
  BY DEF Sums
<1>2. ASSUME NEW k \in Nat, k \in S PROVE k + 1 \in S
  <2>1. CASE k + 1 <= m
    <3>1. k + 1 \in 1 .. m /\ k + 1 \in 0 .. n /\ k + 1 # 0 /\ (k + 1) - 1 = k /\ f[k] = g[k]
      BY <1>2, <2>1
    <3>2. f[k + 1] = SpanAfter(f[k], rows[k + 1], since)
      BY <3>1 DEF Sums
    <3>3. g[k + 1] = SpanAfter(g[k], other[k + 1], since)
      BY <3>1 DEF Sums
    <3> QED BY <3>1, <3>2, <3>3
  <2> QED BY <2>1
<1> HIDE DEF S
<1>3. Nat \subseteq S
  BY <1>1, <1>2, InductionOverSet
<1> QED BY <1>3 DEF S

\* PauseSpans is the last entry of a sum of its rows.
LEMMA PauseSpansIsASum ==
    ASSUME NEW rows, NEW since, Len(rows) \in Nat
    PROVE  \E f : Sums(f, rows, since, Len(rows)) /\ PauseSpans(rows, since) = f[Len(rows)]
<1>1. \E f : Sums(f, rows, since, Len(rows))
  BY SumsExist
<1> QED BY <1>1 DEF PauseSpans, Sums

\* One more row.
LEMMA OneMoreRow ==
    ASSUME NEW rows, NEW other, NEW since, Len(rows) \in Nat, Len(other) = Len(rows) + 1,
           \A k \in 1 .. Len(rows) : rows[k] = other[k]
    PROVE  PauseSpans(other, since) = SpanAfter(PauseSpans(rows, since), other[Len(other)], since)
<1>1. PICK f : Sums(f, rows, since, Len(rows)) /\ PauseSpans(rows, since) = f[Len(rows)]
  BY PauseSpansIsASum
<1>2. PICK g : Sums(g, other, since, Len(other)) /\ PauseSpans(other, since) = g[Len(other)]
  BY PauseSpansIsASum
<1>3. f[Len(rows)] = g[Len(rows)]
  <2>1. PICK m \in Nat : m = Len(rows)
    OBVIOUS
  <2>2. PICK n \in Nat : n = Len(other)
    OBVIOUS
  <2>3. /\ Sums(f, rows, since, m) /\ Sums(g, other, since, n)
        /\ m <= n /\ \A k \in 1 .. m : rows[k] = other[k]
    BY <1>1, <1>2, <2>1, <2>2
  <2>4. \A k \in 0 .. m : f[k] = g[k]
    BY <2>3, SumsAgree
  <2> QED BY <2>1, <2>4
<1>4. g[Len(other)] = SpanAfter(g[Len(rows)], other[Len(other)], since)
  BY <1>2 DEF Sums
<1> QED BY <1>1, <1>2, <1>3, <1>4

\* What was stamped up to the release adds up to nothing, when the exercise is
\* running at the release.
LEMMA NothingBefore ==
    ASSUME Ordered, state = "active", now \in Nat
    PROVE  PauseSpans(moves, now) = NoSpan
<1>1. PICK f : Sums(f, moves, now, Len(moves)) /\ PauseSpans(moves, now) = f[Len(moves)]
  BY PauseSpansIsASum DEF Ordered
<1> DEFINE Paused(k) == /\ f[k] = [open |-> now, total |-> 0]
                        /\ k > 0 /\ moves[k].at = now /\ moves[k].to = "paused"
           S == { k \in Nat : k <= Len(moves) => f[k] = NoSpan \/ Paused(k) }
<1>2. 0 \in S
  BY <1>1 DEF Sums, Ordered
<1>3. ASSUME NEW k \in Nat, k \in S PROVE k + 1 \in S
  <2> SUFFICES ASSUME k + 1 <= Len(moves) PROVE f[k + 1] = NoSpan \/ Paused(k + 1)
    OBVIOUS
  <2> DEFINE m == moves[k + 1]
  <2>1. Len(moves) \in Nat /\ k + 1 \in 1 .. Len(moves) /\ k + 1 \in 0 .. Len(moves) /\ (k + 1) - 1 = k
    BY DEF Ordered
  <2>2. f[k + 1] = SpanAfter(f[k], m, now)
    BY <1>1, <2>1 DEF Sums
  <2>3. /\ m.at \in Nat /\ m.at <= now
        /\ k > 0 => moves[k].at <= m.at /\ m.from = moves[k].to
    <3>1. moves[k + 1] \in Row
      BY <2>1 DEF Ordered
    <3>2. moves[k + 1].at <= now
      BY <2>1 DEF Ordered
    <3>3. k > 0 => moves[k].at <= moves[k + 1].at /\ moves[k + 1].from = moves[k].to
      <4>1. k > 0 => k + 1 > 1
        OBVIOUS
      <4> QED BY <2>1, <4>1 DEF Ordered
    <3> QED BY <3>1, <3>2, <3>3 DEF Row
  <2>4. f[k] = NoSpan \/ Paused(k)
    BY <1>3
  <2> HIDE DEF m
  <2>5. CASE m.at < now
    <3>1. ~Paused(k)
      BY <2>3, <2>5
    <3> QED BY <2>2, <2>4, <2>5, <3>1 DEF SpanAfter
  <2>6. CASE m.at = now /\ m.to = "paused"
    <3>1. [f[k] EXCEPT !.open = m.at] = [open |-> now, total |-> 0]
      BY <2>4, <2>6 DEF NoSpan
    <3> QED BY <2>2, <2>6, <3>1 DEF SpanAfter, m
  <2>7. CASE m.at = now /\ m.to # "paused"
    <3>1. CASE f[k] = NoSpan
      <4>1. f[k].open = NoTime
        BY <3>1 DEF NoSpan
      <4> QED BY <2>2, <2>7, <3>1, <4>1 DEF SpanAfter
    <3>2. CASE Paused(k)
      <4>1. f[k].open = now /\ f[k].total = 0 /\ now # NoTime
        BY <3>2 DEF NoTime
      <4>2. m.from = "paused"
        BY <2>3, <3>2
      <4> QED BY <2>2, <2>7, <4>1, <4>2 DEF SpanAfter, NoSpan
    <3> QED BY <2>4, <3>1, <3>2
  <2> QED BY <2>3, <2>5, <2>6, <2>7
<1> HIDE DEF S
<1>4. Len(moves) \in S /\ Len(moves) \in Nat
  <2>1. Nat \subseteq S
    BY <1>2, <1>3, InductionOverSet
  <2> QED BY <2>1 DEF Ordered
<1>5. ~Paused(Len(moves))
  BY <1>4 DEF Ordered
<1> QED BY <1>1, <1>4, <1>5 DEF S

-----------------------------------------------------------------------------
(* Steps.                                                                  *)

\* The services never compute more than has run.
LEMMA ReadingIsBounded ==
    ASSUME NEW s \in {"active", "paused"}, NEW n \in Nat, NEW since \in Nat, NEW run \in Nat,
           NEW span, Adds(s, n, since, run, span)
    PROVE  Reading(span, since, n) \in Nat /\ Reading(span, since, n) <= run
<1>1. CASE s = "active"
  <2>1. PICK total \in Int : span = [open |-> NoTime, total |-> total] /\ n - since - total <= run
    BY <1>1 DEF Adds
  <2>2. span.open = NoTime /\ span.total = total
    BY <2>1
  <2> QED BY <2>1, <2>2 DEF Reading
<1>2. CASE s = "paused"
  <2>1. PICK total \in Int, open \in Nat : /\ span = [open |-> open, total |-> total]
                                           /\ open - since - total <= run
    BY <1>2 DEF Adds
  <2>2. span.open = open /\ span.total = total /\ open # NoTime
    BY <2>1 DEF NoTime
  <2> QED BY <2>1, <2>2 DEF Reading
<1> QED BY <1>1, <1>2

\* Time passes.
LEMMA TimeAdds ==
    ASSUME NEW s \in {"active", "paused"}, NEW n \in Nat, NEW since \in Nat, NEW run \in Int,
           NEW span, Adds(s, n, since, run, span)
    PROVE  /\ Adds(s, n + 1, since, IF s = "active" THEN run + 1 ELSE run, span)
           /\ Reading(span, since, n) \in Int /\ Reading(span, since, n + 1) \in Int
           /\ Reading(span, since, n + 1) <= Reading(span, since, n) + 1
<1>1. CASE s = "active"
  <2>1. PICK total \in Int : span = [open |-> NoTime, total |-> total] /\ n - since - total <= run
    BY <1>1 DEF Adds
  <2>2. span.open = NoTime /\ span.total = total
    BY <2>1
  <2>3. Adds(s, n + 1, since, run + 1, span)
    BY <1>1, <2>1 DEF Adds
  <2>4. /\ Reading(span, since, n) \in Int /\ Reading(span, since, n + 1) \in Int
        /\ Reading(span, since, n + 1) <= Reading(span, since, n) + 1
    BY <2>2 DEF Reading
  <2> QED BY <1>1, <2>3, <2>4
<1>2. CASE s = "paused"
  <2>1. PICK total \in Int, open \in Nat : /\ span = [open |-> open, total |-> total]
                                           /\ open - since - total <= run
    BY <1>2 DEF Adds
  <2>2. span.open = open /\ span.total = total /\ open # NoTime
    BY <2>1 DEF NoTime
  <2>3. Adds(s, n + 1, since, run, span)
    BY <1>2, <2>1 DEF Adds
  <2>4. /\ Reading(span, since, n) \in Int /\ Reading(span, since, n + 1) \in Int
        /\ Reading(span, since, n + 1) <= Reading(span, since, n) + 1
    BY <2>2 DEF Reading
  <2> QED BY <1>2, <2>3, <2>4
<1> QED BY <1>1, <1>2

\* A pause.
LEMMA PauseAdds ==
    ASSUME NEW n \in Nat, NEW since \in Nat, NEW run \in Int, NEW span,
           Adds("active", n, since, run, span),
           NEW m, m.at \in Nat, ~(m.at < since), m.at <= n, m.to = "paused"
    PROVE  LET after == SpanAfter(span, m, since) IN
           /\ Adds("paused", n, since, run, after)
           /\ Reading(span, since, n) \in Int /\ Reading(after, since, n) \in Int
           /\ Reading(after, since, n) <= Reading(span, since, n)
<1>1. PICK total \in Int : span = [open |-> NoTime, total |-> total] /\ n - since - total <= run
  BY DEF Adds
<1>2. span.open = NoTime /\ span.total = total
  BY <1>1
<1> DEFINE after == SpanAfter(span, m, since)
<1>3. after = [open |-> m.at, total |-> total]
  BY <1>1 DEF SpanAfter
<1>4. after.open = m.at /\ after.total = total /\ m.at # NoTime
  BY <1>3 DEF NoTime
<1> HIDE DEF after
<1>5. m.at - since - total <= run
  BY <1>1
<1>6. Adds("paused", n, since, run, after)
  BY <1>3, <1>5 DEF Adds
<1>7. /\ Reading(span, since, n) \in Int /\ Reading(after, since, n) \in Int
      /\ Reading(after, since, n) <= Reading(span, since, n)
  BY <1>2, <1>4 DEF Reading
<1> QED BY <1>6, <1>7 DEF after

\* A resume, which counts as running from the time it took.
LEMMA ResumeAdds ==
    ASSUME NEW n \in Nat, NEW since \in Nat, NEW run \in Int, NEW span,
           Adds("paused", n, since, run, span),
           NEW m, m.at \in Nat, ~(m.at < since), m.at <= n, m.to # "paused", m.from = "paused"
    PROVE  LET after == SpanAfter(span, m, since) IN
           /\ Adds("active", n, since, run + (n - m.at), after)
           /\ Reading(span, since, n) \in Int /\ Reading(after, since, n) \in Int
           /\ Reading(after, since, n) <= Reading(span, since, n) + (n - m.at)
<1>1. PICK total \in Int, open \in Nat : /\ span = [open |-> open, total |-> total]
                                         /\ open - since - total <= run
  BY DEF Adds
<1>2. span.open = open /\ span.total = total /\ open # NoTime
  BY <1>1 DEF NoTime
<1> DEFINE after == SpanAfter(span, m, since)
           longer == total + (m.at - open)
<1>3. after = [open |-> NoTime, total |-> longer]
  BY <1>2 DEF SpanAfter
<1>4. after.open = NoTime /\ after.total = longer
  BY <1>3
<1> HIDE DEF after
<1>5. longer \in Int /\ n - since - longer <= run + (n - m.at)
  BY <1>1
<1>6. Adds("active", n, since, run + (n - m.at), after)
  <2> HIDE DEF longer
  <2> QED BY <1>3, <1>5 DEF Adds
<1>7. /\ Reading(span, since, n) \in Int /\ Reading(after, since, n) \in Int
      /\ Reading(after, since, n) <= Reading(span, since, n) + (n - m.at)
  BY <1>1, <1>2, <1>4 DEF Reading
<1> QED BY <1>6, <1>7 DEF after

\* So of an inject no row crossed they compute no more than has run.
LEMMA ElapsedIsBounded ==
    ASSUME TimesHold, Measured, NEW i \in Injects, IsReleased(i), i \notin crossed,
           state \in {"active", "paused"}
    PROVE  Elapsed(i) \in Nat /\ Elapsed(i) <= Run - ranAt[i]
<1>1. /\ now \in Nat /\ released[i] \in Nat /\ Run - ranAt[i] \in Nat
  BY DEF TimesHold, IsReleased, Run
<1>2. Adds(state, now, released[i], Run - ranAt[i], PauseSpans(moves, released[i]))
  BY DEF Measured
<1>3. Elapsed(i) = Reading(PauseSpans(moves, released[i]), released[i], now)
  BY DEF Elapsed, Reading
<1> QED BY <1>1, <1>2, <1>3, ReadingIsBounded

\* A lifecycle change goes where it may.
LEMMA CommitIsValid ==
    ASSUME NEW r \in Requests, TransitionCommit(r)
    PROVE  /\ <<state, state'>> \in ValidTransitions
           /\ req[r].seen = state /\ req[r].target = state'
           /\ UNCHANGED <<now, released, ran, ranAt>>
BY DEF TransitionCommit, Observe

\* It adds its row at the end, at the time its request took, unless it puts the
\* rows out of order for all.
LEMMA CommitAppends ==
    ASSUME Ordered, TimesHold, ReadsHold, NEW r \in Requests, TransitionCommit(r),
           ~(Injects \subseteq crossed')
    PROVE  \E stamp \in Nat :
              /\ stamp <= now
              /\ moves' = Append(moves, [from |-> state, to |-> state', at |-> stamp])
              /\ \A n \in 1 .. Len(moves) : moves[n].at <= stamp
              /\ held' = IF state = "paused" /\ state' = "active" THEN held + (now - stamp) ELSE held
              /\ \A i \in Injects : i \in crossed => i \in crossed'
              /\ \A i \in Injects : i \notin crossed' => ~(stamp < released[i])
<1>1. /\ <<state, state'>> \in ValidTransitions
      /\ req[r].seen = state /\ req[r].target = state'
  BY CommitIsValid
<1>2. PICK stamp \in req[r].read .. now, k \in 0 .. Len(moves) :
         /\ \A n \in 1 .. Len(moves) : moves[n].at <= stamp <=> n <= k
         /\ moves' = SubSeq(moves, 1, k)
                        \o <<[from |-> state, to |-> state', at |-> stamp]>>
                        \o SubSeq(moves, k + 1, Len(moves))
         /\ Observe(req[r], stamp)
  BY <1>1 DEF TransitionCommit
<1>3. stamp \in Nat /\ stamp <= now
  <2>1. req[r].read \in Nat /\ now \in Nat
    BY DEF ReadsHold, TransitionCommit, TimesHold
  <2> QED BY <1>2, <2>1
<1>4. Len(moves) \in Nat /\ \A n \in 1 .. Len(moves) : moves[n].at \in Nat
  <2>1. \A n \in 1 .. Len(moves) : moves[n] \in Row
    BY DEF Ordered
  <2> QED BY <2>1 DEF Ordered, Row
<1>5. ~ \E n \in 1 .. Len(moves) : moves[n].at > stamp
  BY <1>2 DEF Observe
<1>6. \A n \in 1 .. Len(moves) : moves[n].at <= stamp
  BY <1>3, <1>4, <1>5
<1>7. crossed' = crossed \cup { i \in Injects : stamp < released[i] }
  BY <1>2, <1>5 DEF Observe
<1>8. held' = IF state = "paused" /\ state' = "active" THEN held + (now - stamp) ELSE held
  BY <1>1, <1>2 DEF Observe
<1> DEFINE x == [from |-> state, to |-> state', at |-> stamp]
<1>9. x \in Row
  BY <1>1, <1>3 DEF Row, ValidTransitions
<1> HIDE DEF x
<1>10. k = Len(moves)
  BY <1>2, <1>4, <1>6
<1>11. SubSeq(moves, 1, k) = moves
  BY <1>10, SubSeqFull DEF Ordered
<1>12. SubSeq(moves, k + 1, Len(moves)) = << >>
  BY <1>10, SubSeqEmpty DEF Ordered
<1>13. moves' = (moves \o <<x>>) \o << >>
  BY <1>2, <1>11, <1>12 DEF x
<1>14. moves' = Append(moves, x)
  BY <1>9, <1>13 DEF Ordered
<1> QED BY <1>3, <1>6, <1>7, <1>8, <1>14 DEF x

\* Time, the state and the rows change in three kinds of step only.
LEMMA TimeKinds ==
    ASSUME [Next]_vars
    PROVE  \/ Tick
           \/ \E r \in Requests : TransitionCommit(r)
           \/ \E i \in Injects : Release(i)
           \/ UNCHANGED <<now, state, moves, released, observers>>
BY DEF Next, vars, TransitionRead, Reload, Arm, ArmFails, Refuse, Worker, Fetch, Decide, Leave, Redefer,
       Deliver, RetryStalled, Crash, Reconcile, SetJob, Finish, DieFinishing

\* Every lifecycle request has read its row at some time.
LEMMA ReadsStay ==
    ASSUME WellFormed, TimesHold, ReadsHold, [Next]_vars
    PROVE  ReadsHold'
<1>1. ASSUME NEW r \in Requests, NEW q, req' = [req EXCEPT ![r] = q],
             q.op = "transition" => q.read \in Nat
      PROVE  ReadsHold'
  BY <1>1 DEF ReadsHold, WellFormed
<1>2. ASSUME NEW r \in Requests, NEW target, TransitionRead(r, target) PROVE ReadsHold'
  <2> DEFINE q == [op |-> "transition", seen |-> state, target |-> target, read |-> now]
  <2>1. req' = [req EXCEPT ![r] = q]
    BY <1>2 DEF TransitionRead
  <2>2. q.read \in Nat
    BY DEF TimesHold
  <2> HIDE DEF q
  <2> QED BY <1>1, <2>1, <2>2
<1>3. ASSUME NEW r \in Requests, TransitionCommit(r) PROVE ReadsHold'
  <2> DEFINE q == IF req[r].target = "active" THEN [op |-> "reload"] ELSE Idle
  <2>1. req' = [req EXCEPT ![r] = q]
    BY <1>3 DEF TransitionCommit
  <2>2. q.op # "transition"
    BY DEF Idle
  <2> HIDE DEF q
  <2> QED BY <1>1, <2>1, <2>2
<1>4. ASSUME NEW r \in Requests, Reload(r) PROVE ReadsHold'
  <2> DEFINE q == [op |-> "arm", active |-> state = "active"]
  <2>1. req' = [req EXCEPT ![r] = q]
    BY <1>4 DEF Reload
  <2>2. q.op # "transition"
    OBVIOUS
  <2> HIDE DEF q
  <2> QED BY <1>1, <2>1, <2>2
<1>5. ASSUME NEW r \in Requests, Arm(r) \/ ArmFails(r) \/ Refuse(r) PROVE ReadsHold'
  <2>1. req' = [req EXCEPT ![r] = Idle] /\ Idle.op # "transition"
    BY <1>5 DEF Arm, ArmFails, Refuse, Idle
  <2> QED BY <1>1, <2>1
<1>6. CASE Crash
  <2>1. \A r \in Requests : req'[r] = Idle \/ req'[r] = req[r]
    BY <1>6 DEF Crash
  <2> QED BY <2>1 DEF ReadsHold, Idle
<1>7. ASSUME UNCHANGED req PROVE ReadsHold'
  BY <1>7 DEF ReadsHold
<1>8. \/ Tick \/ Reconcile \/ UNCHANGED vars
      \/ \E i \in Injects : Release(i)
      \/ \E j \in Jobs : Worker(j) \/ RetryStalled(j)
      => UNCHANGED req
  BY DEF Tick, Reconcile, vars, Release, Worker, Fetch, Decide, Leave, Redefer, Deliver, RetryStalled,
         SetJob, Finish, DieFinishing
<1> QED BY <1>2, <1>3, <1>4, <1>5, <1>6, <1>7, <1>8 DEF Next

\* What was crossed stays so.
LEMMA CrossedGrows == ASSUME [Next]_vars PROVE \A i \in Injects : i \in crossed => i \in crossed'
<1>1. ASSUME NEW r \in Requests, TransitionCommit(r)
      PROVE  \A i \in Injects : i \in crossed => i \in crossed'
  <2>1. PICK stamp : Observe(req[r], stamp)
    BY <1>1 DEF TransitionCommit
  <2> QED BY <2>1 DEF Observe
<1>2. Tick \/ (\E i \in Injects : Release(i)) \/ UNCHANGED observers => crossed' = crossed
  BY DEF Tick, Release, observers
<1> QED BY <1>1, <1>2, TimeKinds

\* The rows stay in order and tell one story.
LEMMA RowsStay ==
    ASSUME ReadsHold, RowsHold, TimesHold, [Next]_vars
    PROVE  RowsHold'
<1> SUFFICES ASSUME ~(Injects \subseteq crossed') PROVE Ordered'
  BY DEF RowsHold
<1>o. Ordered
  BY CrossedGrows DEF RowsHold
<1>1. ASSUME UNCHANGED <<state, moves>>, now <= now', now' \in Nat PROVE Ordered'
  <2>1. \A k \in 1 .. Len(moves) : moves[k] \in Row
    BY <1>o DEF Ordered
  <2>2. \A k \in 1 .. Len(moves) : moves[k].at \in Nat
    BY <2>1 DEF Row
  <2> QED BY <1>o, <1>1, <2>2 DEF Ordered, TimesHold
<1>2. CASE Tick
  BY <1>1, <1>2 DEF Tick, TimesHold
<1>3. ASSUME NEW r \in Requests, TransitionCommit(r) PROVE Ordered'
  <2> DEFINE n == Len(moves)
  <2>1. PICK stamp \in Nat :
           /\ stamp <= now
           /\ moves' = Append(moves, [from |-> state, to |-> state', at |-> stamp])
           /\ \A k \in 1 .. Len(moves) : moves[k].at <= stamp
    BY <1>o, <1>3, CommitAppends
  <2> DEFINE x == [from |-> state, to |-> state', at |-> stamp]
  <2>2. <<state, state'>> \in ValidTransitions /\ now' = now
    BY <1>3, CommitIsValid
  <2>3. /\ x \in Row /\ x.at = stamp /\ x.from = state /\ x.to = state'
    BY <2>1, <2>2 DEF ValidTransitions, Row
  <2>4. moves' = Append(moves, x)
    BY <2>1
  <2> HIDE DEF x
  <2>5. /\ moves' \in Seq(Row) /\ n \in Nat /\ Len(moves') = n + 1
        /\ moves'[n + 1] = x /\ \A k \in 1 .. n : moves'[k] = moves[k]
    BY <1>o, <2>3, <2>4 DEF Ordered
  <2>6. \A k \in 1 .. n : moves[k].at <= stamp /\ moves[k].at <= now
    BY <1>o, <2>1 DEF Ordered
  <2>7. n > 0 => moves[n].to = state
    BY <1>o DEF Ordered
  <2>8. \A k \in 1 .. n : k > 1 => /\ moves[k - 1].at <= moves[k].at
                                   /\ moves[k].from = moves[k - 1].to
    BY <1>o DEF Ordered
  <2> HIDE DEF n
  <2>9. ASSUME NEW k \in 1 .. n + 1
        PROVE  /\ moves'[k].at <= now
               /\ k > 1 => /\ moves'[k - 1].at <= moves'[k].at
                           /\ moves'[k].from = moves'[k - 1].to
    <3>1. CASE k = n + 1
      BY <2>1, <2>3, <2>5, <2>6, <2>7, <3>1 DEF TimesHold
    <3>2. CASE k \in 1 .. n
      BY <2>5, <2>6, <2>8, <3>2
    <3> QED BY <2>5, <3>1, <3>2
  <2>10. state' = moves'[n + 1].to
    BY <2>3, <2>5
  <2> QED BY <2>2, <2>5, <2>9, <2>10 DEF Ordered
<1>4. ASSUME NEW i \in Injects, Release(i) PROVE Ordered'
  <2>1. UNCHANGED <<now, state, moves>>
    BY <1>4 DEF Release
  <2> QED BY <1>1, <2>1 DEF TimesHold
<1>5. CASE UNCHANGED <<now, state, moves, released, observers>>
  BY <1>1, <1>5 DEF TimesHold
<1> QED BY <1>2, <1>3, <1>4, <1>5, TimeKinds

\* Arithmetic.
LEMMA SumGrows ==
    ASSUME NEW a \in Nat, NEW b \in Nat, NEW c \in Nat, NEW d \in Nat, a <= c, b <= d
    PROVE  a + b \in Nat /\ c + d \in Nat /\ a + b <= c + d
OBVIOUS

LEMMA DueStays ==
    ASSUME NEW due \in Int, NEW d \in Nat, NEW before \in Int, NEW after \in Int,
           NEW n \in Nat, NEW m \in Nat, NEW h \in Nat, NEW g \in Nat,
           due - n <= d - before + h, after - g - m <= before - h - n
    PROVE  due - m <= d - after + g
OBVIOUS

\* A resume's wait for its commit only adds to what has run.
LEMMA HeldGrows ==
    ASSUME ReadsHold, TimesHold, NEW r \in Requests, TransitionCommit(r)
    PROVE  held' \in Nat /\ held <= held'
<1>1. PICK stamp \in req[r].read .. now : Observe(req[r], stamp)
  BY DEF TransitionCommit
<1>2. req[r].read \in Nat /\ now \in Nat /\ held \in Nat
  BY DEF ReadsHold, TransitionCommit, TimesHold
<1> QED BY <1>1, <1>2 DEF Observe

\* The clocks only go on; nothing is released before it starts.
LEMMA TimesStay ==
    ASSUME ReadsHold, TimesHold, [Next]_vars
    PROVE  TimesHold'
<1>1. CASE Tick
  <2>1. /\ now' = now + 1 /\ ran' \in {ran, ran + 1}
        /\ UNCHANGED <<state, released, ranAt, held>>
    BY <1>1 DEF Tick
  <2>2. now' \in Nat /\ ran' \in Nat /\ now <= now' /\ Run' \in Nat /\ Run <= Run'
    <3>1. now \in Nat /\ ran \in Nat /\ held \in Nat
      BY DEF TimesHold
    <3>2. ran' \in Nat /\ ran <= ran' /\ held' \in Nat /\ held <= held'
      BY <2>1, <3>1
    <3>3. Run' \in Nat /\ Run <= Run'
      BY <3>1, <3>2, SumGrows DEF Run
    <3> QED BY <2>1, <3>1, <3>2, <3>3
  <2>3. \A i \in Injects : released[i] \in Int /\ ranAt[i] \in Nat
    BY DEF TimesHold, NoTime
  <2>4. Run \in Nat /\ now \in Nat
    BY DEF TimesHold, Run
  <2>5. \A i \in Injects : released'[i] <= now' /\ ranAt'[i] <= Run'
    BY <2>1, <2>2, <2>3, <2>4 DEF TimesHold
  <2> QED BY <2>1, <2>2, <2>5 DEF TimesHold, IsReleased
<1>2. ASSUME NEW r \in Requests, TransitionCommit(r) PROVE TimesHold'
  <2>1. state' # "draft" /\ UNCHANGED <<now, released, ran, ranAt>>
    BY <1>2, CommitIsValid DEF ValidTransitions
  <2>2. held' \in Nat /\ held <= held'
    BY <1>2, HeldGrows
  <2>3. \A i \in Injects : ranAt'[i] <= Run'
    BY <2>1, <2>2 DEF TimesHold, Run
  <2> QED BY <2>1, <2>2, <2>3 DEF TimesHold
<1>3. ASSUME NEW i \in Injects, Release(i) PROVE TimesHold'
  <2>1. /\ UNCHANGED <<now, ran, held, state>> /\ state = "active"
        /\ released' = [released EXCEPT ![i] = now] /\ ranAt' = [ranAt EXCEPT ![i] = Run]
    BY <1>3 DEF Release
  <2>2. Run' = Run /\ Run \in Nat
    BY <2>1 DEF Run, TimesHold
  <2> QED BY <2>1, <2>2 DEF TimesHold
<1>4. CASE UNCHANGED <<now, state, moves, released, observers>>
  BY <1>4 DEF TimesHold, observers, IsReleased, Run
<1> QED BY <1>1, <1>2, <1>3, <1>4, TimeKinds

\* What a step leaves as it is, and what it only moves on.
LEMMA Later ==
    ASSUME ReadsHold, TimesHold, [Next]_vars
    PROVE  /\ now <= now' /\ Run <= Run'
           /\ \A i \in Injects :
                 IsReleased(i) => released'[i] = released[i] /\ ranAt'[i] = ranAt[i]
           /\ state' \in {"active", "paused"} => state \in {"draft", "active", "paused"}
<1>1. CASE Tick
  BY <1>1 DEF Tick, TimesHold, Run
<1>2. ASSUME NEW r \in Requests, TransitionCommit(r)
      PROVE  /\ UNCHANGED <<now, released, ranAt>> /\ Run <= Run'
             /\ state' \in {"active", "paused"} => state \in {"draft", "active", "paused"}
  <2>1. UNCHANGED <<now, released, ran, ranAt>> /\ <<state, state'>> \in ValidTransitions
    BY <1>2, CommitIsValid
  <2>2. held' \in Nat /\ held <= held'
    BY <1>2, HeldGrows
  <2>3. ran \in Nat /\ held \in Nat /\ ran' \in Nat /\ ran <= ran'
    BY <2>1 DEF TimesHold
  <2>4. Run <= Run'
    BY <2>2, <2>3, SumGrows DEF Run
  <2> QED BY <2>1, <2>4 DEF ValidTransitions
<1>3. ASSUME NEW i \in Injects, Release(i)
      PROVE  /\ UNCHANGED <<now, ran, held, state>>
             /\ \A k \in Injects :
                   IsReleased(k) => released'[k] = released[k] /\ ranAt'[k] = ranAt[k]
  BY <1>3 DEF Release, TimesHold
<1>4. now \in Nat /\ Run \in Nat
  BY DEF TimesHold, Run
<1> QED BY <1>1, <1>2, <1>3, <1>4, TimeKinds DEF TimesHold, observers, Run

\* The rows go on adding up to no more than what has run, and what the services
\* compute of an inject gets ahead by no more than the time that passes and what a
\* resume took to commit: a tick, a pause, a resume, a release.
LEMMA SpansStay ==
    ASSUME ReadsHold, RowsHold, TimesHold, Measured, [Next]_vars, NEW i \in Injects,
           i \notin crossed', IsReleased(i)', state' \in {"active", "paused"}
    PROVE  /\ Adds(state', now', released'[i], Run' - ranAt'[i], PauseSpans(moves', released'[i]))
           /\ IsReleased(i) => /\ Elapsed(i) \in Int /\ Elapsed(i)' \in Int
                               /\ Elapsed(i)' - held' - now' <= Elapsed(i) - held - now
<1> DEFINE since == released[i]
           run == Run - ranAt[i]
           span == PauseSpans(moves, since)
<1>t. now \in Nat /\ ran \in Nat /\ held \in Nat /\ ranAt[i] \in Nat /\ Run \in Nat /\ run \in Int
  BY DEF TimesHold, Run
<1>c. i \notin crossed /\ Ordered
  BY CrossedGrows DEF RowsHold
<1>e. /\ Elapsed(i) = Reading(PauseSpans(moves, released[i]), released[i], now)
      /\ Elapsed(i)' = Reading(PauseSpans(moves', released'[i]), released'[i], now')
  BY DEF Elapsed, Reading
\* An inject that was on screen already.
<1>m. IsReleased(i) /\ state \in {"active", "paused"} =>
         since \in Nat /\ since <= now /\ Adds(state, now, since, run, span)
  BY <1>c DEF Measured, TimesHold, IsReleased
<1>1. CASE Tick
  <2>1. UNCHANGED <<state, moves, released, ranAt, held>>
        /\ now' = now + 1 /\ ran' = IF state = "active" THEN ran + 1 ELSE ran
    BY <1>1 DEF Tick
  <2>2. IsReleased(i) /\ state \in {"active", "paused"}
    BY <2>1 DEF IsReleased
  <2>3. Run' - ranAt'[i] = IF state = "active" THEN run + 1 ELSE run
    BY <1>t, <2>1 DEF Run
  <2> HIDE DEF run, since, span
  <2>4. /\ Adds(state, now + 1, since, IF state = "active" THEN run + 1 ELSE run, span)
        /\ Reading(span, since, now) \in Int /\ Reading(span, since, now + 1) \in Int
        /\ Reading(span, since, now + 1) <= Reading(span, since, now) + 1
    BY <1>t, <1>m, <2>2, TimeAdds
  <2>5. /\ Elapsed(i) = Reading(span, since, now) /\ Elapsed(i)' = Reading(span, since, now + 1)
        /\ PauseSpans(moves', released'[i]) = span /\ released'[i] = since
    BY <1>e, <2>1 DEF span, since
  <2> HIDE DEF Adds
  <2>6. Elapsed(i)' - held' - now' <= Elapsed(i) - held - now
    BY <1>t, <2>1, <2>4, <2>5
  <2> QED BY <2>1, <2>3, <2>4, <2>5, <2>6
<1>2. ASSUME NEW r \in Requests, TransitionCommit(r)
      PROVE  /\ Adds(state', now', released'[i], Run' - ranAt'[i], PauseSpans(moves', released'[i]))
             /\ Elapsed(i) \in Int /\ Elapsed(i)' \in Int
             /\ Elapsed(i)' - held' - now' <= Elapsed(i) - held - now
  <2>1. <<state, state'>> \in ValidTransitions /\ UNCHANGED <<now, released, ran, ranAt>>
    BY <1>2, CommitIsValid
  <2>2. PICK stamp \in Nat :
              /\ stamp <= now
              /\ moves' = Append(moves, [from |-> state, to |-> state', at |-> stamp])
              /\ held' = IF state = "paused" /\ state' = "active" THEN held + (now - stamp) ELSE held
              /\ \A k \in Injects : k \notin crossed' => ~(stamp < released[k])
    BY <1>c, <1>2, CommitAppends
  <2> DEFINE x == [from |-> state, to |-> state', at |-> stamp]
             after == SpanAfter(span, x, since)
  <2>3. /\ x \in Row /\ x.at = stamp /\ x.from = state /\ x.to = state'
    BY <2>1, <2>2 DEF ValidTransitions, Row
  <2>4. moves' = Append(moves, x)
    BY <2>2
  <2> HIDE DEF x
  <2>5. /\ Len(moves) \in Nat /\ Len(moves') = Len(moves) + 1 /\ moves'[Len(moves')] = x
        /\ \A k \in 1 .. Len(moves) : moves[k] = moves'[k]
    BY <1>c, <2>3, <2>4 DEF Ordered
  <2>6. PauseSpans(moves', since) = after
    BY <2>5, OneMoreRow
  <2>7. IsReleased(i) /\ state \in {"active", "paused"}
    <3>1. IsReleased(i)
      BY <2>1 DEF IsReleased
    <3> QED BY <2>1, <3>1 DEF TimesHold, ValidTransitions
  <2>8. x.at \in Nat /\ ~(x.at < since) /\ x.at <= now
    BY <1>c, <2>2, <2>3
  <2>9. /\ Elapsed(i) = Reading(span, since, now) /\ Elapsed(i)' = Reading(after, since, now)
        /\ PauseSpans(moves', released'[i]) = after /\ released'[i] = since /\ now' = now
    BY <1>e, <2>1, <2>6
  <2>10. Run' - ranAt'[i] = run + (held' - held)
    <3>1. held' \in Nat
      BY <1>2, HeldGrows
    <3> QED BY <1>t, <2>1, <3>1 DEF Run
  <2> HIDE DEF run, since, span, after, Adds
  <2>11. CASE state = "active"
    <3>1. state' = "paused" /\ held' = held
      BY <2>1, <2>2, <2>11 DEF ValidTransitions
    <3>2. /\ Adds("paused", now, since, run, after)
          /\ Reading(span, since, now) \in Int /\ Reading(after, since, now) \in Int
          /\ Reading(after, since, now) <= Reading(span, since, now)
      BY <1>t, <1>m, <2>3, <2>7, <2>8, <2>11, <3>1, PauseAdds DEF after
    <3>3. Run' - ranAt'[i] = run
      BY <1>t, <2>10, <3>1
    <3>4. Elapsed(i)' - held' - now' <= Elapsed(i) - held - now
      BY <1>t, <2>9, <3>1, <3>2
    <3> QED BY <2>9, <3>1, <3>2, <3>3, <3>4
  <2>12. CASE state = "paused"
    <3>1. state' = "active" /\ held' = held + (now - stamp)
      BY <2>1, <2>2, <2>12 DEF ValidTransitions
    <3>2. /\ Adds("active", now, since, run + (now - stamp), after)
          /\ Reading(span, since, now) \in Int /\ Reading(after, since, now) \in Int
          /\ Reading(after, since, now) <= Reading(span, since, now) + (now - stamp)
      BY <1>t, <1>m, <2>3, <2>7, <2>8, <2>12, <3>1, ResumeAdds DEF after
    <3>3. Run' - ranAt'[i] = run + (now - stamp)
      BY <1>t, <2>10, <3>1
    <3>4. Elapsed(i)' - held' - now' <= Elapsed(i) - held - now
      BY <1>t, <2>9, <3>1, <3>2
    <3> QED BY <2>9, <3>1, <3>2, <3>3, <3>4
  <2> QED BY <2>7, <2>11, <2>12
<1>3. ASSUME NEW k \in Injects, Release(k)
      PROVE  /\ Adds(state', now', released'[i], Run' - ranAt'[i], PauseSpans(moves', released'[i]))
             /\ IsReleased(i) => Elapsed(i) \in Int /\ Elapsed(i)' = Elapsed(i)
             /\ held' = held /\ now' = now
  <2>1. /\ UNCHANGED <<now, ran, held, state, moves>> /\ state = "active" /\ ~IsReleased(k)
        /\ released' = [released EXCEPT ![k] = now] /\ ranAt' = [ranAt EXCEPT ![k] = Run]
    BY <1>3 DEF Release
  <2>2. Run' = Run
    BY <2>1 DEF Run
  <2>3. CASE i = k
    <3>1. PauseSpans(moves, now) = [open |-> NoTime, total |-> 0]
      BY <1>t, <1>c, <2>1, NothingBefore DEF NoSpan
    <3>2. Adds("active", now, now, Run - Run, PauseSpans(moves, now))
      <4>1. now - now - 0 <= Run - Run
        BY <1>t
      <4> QED BY <3>1, <4>1 DEF Adds
    <3>3. released'[i] = now /\ ranAt'[i] = Run
      BY <2>1, <2>3 DEF TimesHold
    <3> QED BY <2>1, <2>2, <2>3, <3>2, <3>3
  <2>4. CASE i # k
    <3>1. released'[i] = released[i] /\ ranAt'[i] = ranAt[i] /\ IsReleased(i)
      BY <2>1, <2>4 DEF TimesHold, IsReleased
    <3>2. Elapsed(i)' = Elapsed(i)
      BY <1>e, <2>1, <3>1
    <3>3. Elapsed(i) \in Int
      BY <1>c, <2>1, <3>1, ElapsedIsBounded
    <3> HIDE DEF Adds
    <3> QED BY <1>m, <2>1, <2>2, <3>1, <3>2, <3>3
  <2> QED BY <2>3, <2>4
<1>4. ASSUME UNCHANGED <<now, state, moves, released, observers>>
      PROVE  /\ Adds(state', now', released'[i], Run' - ranAt'[i], PauseSpans(moves', released'[i]))
             /\ Elapsed(i) \in Int /\ Elapsed(i)' = Elapsed(i) /\ held' = held /\ now' = now
  <2>1. UNCHANGED <<now, state, moves, released, ran, held, ranAt>>
    BY <1>4 DEF observers
  <2>2. IsReleased(i) /\ Run' = Run
    BY <2>1 DEF IsReleased, Run
  <2>3. Elapsed(i)' = Elapsed(i)
    BY <1>e, <2>1
  <2>4. Elapsed(i) \in Int
    BY <1>c, <2>1, <2>2, ElapsedIsBounded
  <2> HIDE DEF Adds
  <2> QED BY <1>m, <2>1, <2>2, <2>3, <2>4
<1> QED BY <1>t, <1>1, <1>2, <1>3, <1>4, TimeKinds

\* So they stay measured.
LEMMA MeasuredStays ==
    ASSUME ReadsHold, RowsHold, TimesHold, Measured, [Next]_vars
    PROVE  Measured'
BY SpansStay DEF Measured

\* What a queue job may rely on, it may rely on from then on.
LEMMA HoldsStays ==
    ASSUME ReadsHold, RowsHold, TimesHold, Measured, [Next]_vars
    PROVE  \A job : Holds(job) => Holds(job)'
<1> SUFFICES ASSUME NEW job, Holds(job), job # Free PROVE Holds(job)'
  BY DEF Holds
<1> DEFINE i == job.inject
           t == job.trigger
<1>1. /\ now <= now' /\ Run <= Run'
      /\ \A k \in Injects :
            IsReleased(k) => released'[k] = released[k] /\ ranAt'[k] = ranAt[k]
      /\ state' \in {"active", "paused"} => state \in {"draft", "active", "paused"}
  BY Later
<1>2. /\ t \in Triggers /\ i \in Fires[t] /\ IsReleased(i)
      /\ job.at = "deliver" => i \in crossed \/ Run - ranAt[i] >= Delay[t]
      /\ state \in {"active", "paused"} /\ Waits(job) => InTime(job)
  BY DEF Holds
<1>3. i \in Injects /\ Delay[t] \in Nat
  BY <1>2, CommsAssumption DEF CommsAssumption
<1>4. /\ now \in Nat /\ Run \in Nat /\ held \in Nat /\ ranAt[i] \in Nat
      /\ now' \in Nat /\ Run' \in Nat /\ held' \in Nat
  BY <1>3, TimesStay DEF TimesHold, Run
<1>5. released'[i] = released[i] /\ ranAt'[i] = ranAt[i] /\ state # "draft"
  BY <1>1, <1>2, <1>3 DEF TimesHold
<1>6. IsReleased(i)'
  BY <1>2, <1>5 DEF IsReleased
<1>c. i \in crossed => i \in crossed'
  BY <1>3, CrossedGrows
<1>7. job.at = "deliver" => i \in crossed' \/ Run' - ranAt'[i] >= Delay[t]
  <2> HIDE DEF i, t
  <2> QED BY <1>1, <1>2, <1>3, <1>4, <1>5, <1>c
<1>8. state' \in {"active", "paused"} /\ Waits(job) => InTime(job)'
  <2> SUFFICES ASSUME state' \in {"active", "paused"}, Waits(job), i \notin crossed' PROVE InTime(job)'
    BY DEF InTime
  <2>1. job.due \in Int /\ (job.due <= now \/ job.due - now <= Delay[t] - Elapsed(i) + held)
    BY <1>1, <1>2, <1>5, <1>c DEF InTime
  <2>2. /\ Elapsed(i) \in Int /\ Elapsed(i)' \in Int
        /\ Elapsed(i)' - held' - now' <= Elapsed(i) - held - now
    BY <1>2, <1>3, <1>6, SpansStay
  <2> DEFINE due == job.due
             before == Elapsed(i)
             after == Elapsed(i)'
  <2>3. due \in Int /\ (due <= now \/ due - now <= Delay[t] - before + held)
    BY <2>1
  <2>4. before \in Int /\ after \in Int /\ after - held' - now' <= before - held - now
    BY <2>2
  <2> HIDE DEF i, t, due, before, after
  <2>t. now <= now'
    BY <1>1
  <2>d. PICK d \in Nat : d = Delay[t]
    BY <1>3
  <2>5. due <= now' \/ due - now' <= Delay[t] - after + held'
    <3>1. CASE due <= now
      BY <1>4, <2>t, <2>3, <3>1
    <3>2. CASE due - now <= d - before + held
      BY <1>4, <2>d, <2>3, <2>4, <3>2, DueStays
    <3> QED BY <2>d, <2>3, <3>1, <3>2
  <2> QED BY <2>1, <2>5 DEF InTime, i, t, due, after
<1> QED BY <1>2, <1>6, <1>7, <1>8 DEF Holds, Waits

\* Written jobs are the ones asked for.
LEMMA EnqueueWrites ==
    ASSUME NEW new, Enqueue(new)
    PROVE  \A j \in Jobs : jobs'[j] = jobs[j] \/ jobs'[j] \in new
<1>1. PICK slot : jobs' = [j \in Jobs |-> IF \E x \in new : slot[x] = j
                                          THEN CHOOSE x \in new : slot[x] = j ELSE jobs[j]]
  BY DEF Enqueue
<1> QED BY <1>1

\* A re-arming writes jobs that come up in time.
LEMMA RearmWrites ==
    ASSUME TimesHold, Measured, NEW active, Rearm(active), WellFormed
    PROVE  \A j \in Jobs : jobs'[j] = jobs[j] \/ Holds(jobs'[j])
<1>1. CASE ~active
  BY <1>1 DEF Rearm
<1>2. CASE active
  <2>1. PICK pick \in [Unarmed -> Injects] :
           /\ \A t \in Unarmed : pick[t] \in FirstReleased(t)
           /\ Enqueue({ Todo(t, pick[t], Wait(t, pick[t])) : t \in Unarmed })
    BY <1>2 DEF Rearm
  <2>2. ASSUME NEW t \in Unarmed PROVE Holds(Todo(t, pick[t], Wait(t, pick[t])))
    <3> DEFINE i == pick[t]
               job == Todo(t, i, Wait(t, i))
    <3>1. t \in Triggers /\ i \in Fires[t] /\ i \in Injects /\ IsReleased(i) /\ Delay[t] \in Nat
      BY <2>1, CommsAssumption DEF Unarmed, FirstReleased, CommsAssumption
    <3>2. /\ job.trigger = t /\ job.inject = i /\ job.at = "todo"
          /\ job.due = now + Wait(t, i)
      BY DEF Todo
    <3>3. now \in Nat /\ held \in Nat
      BY DEF TimesHold
    <3> HIDE DEF job, i
    <3>4. state \in {"active", "paused"} => InTime(job)
      <4> SUFFICES ASSUME state \in {"active", "paused"}, i \notin crossed PROVE InTime(job)
        BY <3>2 DEF InTime
      <4>1. Elapsed(i) \in Nat
        BY <3>1, ElapsedIsBounded
      <4>2. Wait(t, i) = IF Delay[t] > Elapsed(i) THEN Delay[t] - Elapsed(i) ELSE 0
        BY DEF Wait
      <4> QED BY <3>1, <3>2, <3>3, <4>1, <4>2 DEF InTime
    <3> QED BY <3>1, <3>2, <3>4 DEF Holds, job, i
  <2>3. \A j \in Jobs : \/ jobs'[j] = jobs[j]
                        \/ jobs'[j] \in { Todo(t, pick[t], Wait(t, pick[t])) : t \in Unarmed }
    BY <2>1, EnqueueWrites
  <2> QED BY <2>2, <2>3
<1> QED BY <1>1, <1>2

\* Every job stays in time, and one about to deliver is due.
LEMMA JobsStay ==
    ASSUME WellFormed, ReadsHold, RowsHold, TimesHold, Measured, JobsHold, [Next]_vars
    PROVE  JobsHold'
<1>h. \A job : Holds(job) => Holds(job)'
  BY HoldsStays
<1>j. \A j \in Jobs : Holds(jobs[j])
  BY DEF JobsHold
<1>n. now \in Nat /\ jobs = [j \in Jobs |-> jobs[j]]
  BY DEF TimesHold, WellFormed
\* Jobs that are as they were, or as they may be.
<1>g. ASSUME \A j \in Jobs : jobs'[j] = jobs[j] \/ Holds(jobs'[j]) PROVE JobsHold'
  <2>1. \A j \in Jobs : Holds(jobs'[j])
    BY <1>g, <1>j
  <2> QED BY <1>h, <2>1 DEF JobsHold, Holds
\* A job is at another stage of the same work.
<1>s. ASSUME NEW j \in Jobs, jobs[j] # Free, NEW v, v.trigger = jobs[j].trigger,
             v.inject = jobs[j].inject, ~Waits(v), v.at # "deliver"
      PROVE  Holds(v)
  BY <1>j, <1>s DEF Holds
<1>1. ASSUME NEW k \in Injects, Release(k) PROVE JobsHold'
  <2>1. /\ Enqueue({ Todo(t, k, Delay[t]) : t \in { t \in Triggers : k \in Fires[t] } })
        /\ now' = now /\ held' = held /\ released'[k] = now /\ state' = "active" /\ k \in Injects
    BY <1>1 DEF Release, TimesHold
  <2>r. IsReleased(k)'
    BY <1>n, <2>1 DEF IsReleased, NoTime
  <2>2. ASSUME NEW t \in Triggers, k \in Fires[t] PROVE Holds(Todo(t, k, Delay[t]))'
    <3> DEFINE job == Todo(t, k, Delay[t])
    <3>1. PICK v : v = [at |-> "todo", trigger |-> t, inject |-> k, due |-> now + Delay[t]]
      OBVIOUS
    <3>2. v.at = "todo" /\ v.trigger = t /\ v.inject = k /\ v.due = now + Delay[t]
      BY <3>1
    <3>3. Delay[t] \in Nat /\ held \in Nat
      BY CommsAssumption DEF CommsAssumption, TimesHold
    <3>4. InTime(v)'
      <4> SUFFICES ASSUME k \notin crossed' PROVE InTime(v)'
        BY <3>2 DEF InTime
      <4>1. Elapsed(k)' = 0
        <5>1. PauseSpans(moves', released'[k]) = NoSpan
          <6>1. UNCHANGED <<moves, crossed>> /\ state = "active"
            BY <1>1 DEF Release
          <6>2. Ordered
            BY <2>1, <6>1 DEF RowsHold
          <6> QED BY <1>n, <2>1, <6>1, <6>2, NothingBefore
        <5>2. Elapsed(k)' = Reading(NoSpan, now, now)
          BY <2>1, <5>1 DEF Elapsed, Reading
        <5>3. NoSpan.open = NoTime /\ NoSpan.total = 0
          BY DEF NoSpan
        <5> QED BY <1>n, <5>2, <5>3 DEF Reading
      <4> QED BY <1>n, <2>1, <3>2, <3>3, <4>1 DEF InTime
    <3>6. Holds(v)'
      BY <2>1, <2>2, <2>r, <3>2, <3>4 DEF Holds
    <3>7. Todo(t, k, Delay[t])' = v
      BY <2>1, <3>1 DEF Todo
    <3> QED BY <3>6, <3>7 DEF Holds, InTime, Waits
  <2>3. \A j \in Jobs : \/ jobs'[j] = jobs[j]
                        \/ jobs'[j] \in { Todo(t, k, Delay[t]) : t \in { t \in Triggers : k \in Fires[t] } }
    BY <2>1, EnqueueWrites
  <2>4. ASSUME NEW j \in Jobs PROVE Holds(jobs[j])'
    <3>1. CASE jobs'[j] = jobs[j]
      BY <1>h, <1>j, <3>1 DEF Holds
    <3>2. CASE jobs'[j] # jobs[j]
      <4>1. PICK t \in Triggers : k \in Fires[t] /\ jobs'[j] = Todo(t, k, Delay[t])
        BY <2>3, <3>2
      <4>2. jobs'[j] = Todo(t, k, Delay[t])'
        BY <2>1, <4>1 DEF Todo
      <4> QED BY <2>2, <4>1, <4>2 DEF Holds, InTime, Waits
    <3> QED BY <3>1, <3>2
  <2> QED BY <2>4 DEF JobsHold
<1>2. ASSUME NEW r \in Requests, Arm(r) PROVE JobsHold'
  BY <1>2, <1>g, RearmWrites DEF Arm
<1>3. CASE Reconcile
  BY <1>3, <1>g, RearmWrites DEF Reconcile
<1>4. ASSUME NEW j \in Jobs, jobs[j] # Free, NEW v, jobs' = [jobs EXCEPT ![j] = v], Holds(v) PROVE JobsHold'
  BY <1>4, <1>g, <1>n
<1>5. \A j \in Jobs : \A at :
         /\ Stage(j, at).at = at /\ Stage(j, at).trigger = jobs[j].trigger
         /\ Stage(j, at).inject = jobs[j].inject
  BY DEF Stage
<1>f. Holds(Free) /\ Free.at = "free"
  BY DEF Holds, Free
<1>6. ASSUME NEW j \in Jobs, Fetch(j) PROVE JobsHold'
  <2>1. jobs' = [jobs EXCEPT ![j] = Stage(j, "fetched")] /\ jobs[j] # Free
    BY <1>6 DEF Fetch, SetJob, Free
  <2>2. Holds(Stage(j, "fetched"))
    BY <1>5, <1>s, <2>1 DEF Waits
  <2> QED BY <1>4, <2>1, <2>2
<1>7. ASSUME NEW j \in Jobs, Finish(j) \/ DieFinishing(j), jobs[j] # Free PROVE JobsHold'
  <2>1. CASE Finish(j)
    BY <1>7, <2>1, <1>4, <1>f DEF Finish, SetJob
  <2>2. CASE DieFinishing(j)
    <3>1. jobs' = [jobs EXCEPT ![j] = Stage(j, "stalled")]
      BY <2>2 DEF DieFinishing, SetJob
    <3>2. Holds(Stage(j, "stalled"))
      BY <1>5, <1>7, <1>s DEF Waits
    <3> QED BY <1>4, <1>7, <3>1, <3>2
  <2> QED BY <1>7, <2>1, <2>2
<1>8. ASSUME NEW j \in Jobs, Leave(j) \/ Deliver(j) PROVE JobsHold'
  <2>1. (Finish(j) \/ DieFinishing(j)) /\ jobs[j] # Free
    BY <1>8, <1>f DEF Leave, Deliver
  <2> QED BY <1>7, <2>1
<1>9. ASSUME NEW j \in Jobs, Decide(j) PROVE JobsHold'
  <2> DEFINE t == jobs[j].trigger
             i == jobs[j].inject
  <2>1. jobs[j] # Free /\ jobs[j].at = "fetched"
    BY <1>9, <1>f DEF Decide
  <2>2. /\ t \in Triggers /\ i \in Fires[t] /\ IsReleased(i) /\ i \in Injects /\ Delay[t] \in Nat
    BY <1>j, <2>1, CommsAssumption DEF Holds, CommsAssumption
  <2>3. held \in Nat /\ Run \in Nat /\ ranAt[i] \in Nat
    BY <2>2 DEF TimesHold, Run
  <2>4. CASE state # "active"
    <3>1. jobs' = [jobs EXCEPT ![j] = Stage(j, "leaving")]
      BY <1>9, <2>4 DEF Decide, SetJob
    <3>2. Holds(Stage(j, "leaving"))
      BY <1>5, <1>s, <2>1 DEF Waits
    <3> QED BY <1>4, <2>1, <3>1, <3>2
  <2>5. CASE state = "active" /\ ~TooEarly(t, i)
    <3>1. jobs' = [jobs EXCEPT ![j] = Stage(j, "deliver")]
      BY <1>9, <2>5 DEF Decide, SetJob
    <3>2. i \in crossed \/ (Elapsed(i) \in Nat /\ Elapsed(i) <= Run - ranAt[i])
      BY <2>2, <2>5, ElapsedIsBounded
    <3>3. i \in crossed \/ Run - ranAt[i] >= Delay[t]
      BY <2>2, <2>3, <2>5, <3>2 DEF TooEarly
    <3>4. Holds(Stage(j, "deliver"))
      BY <1>5, <2>2, <3>3 DEF Holds, Waits
    <3> QED BY <1>4, <2>1, <3>1, <3>4
  <2>6. CASE state = "active" /\ TooEarly(t, i)
    <3>1. jobs' = [jobs EXCEPT ![j] = [Todo(t, i, Wait(t, i)) EXCEPT !.at = "redefer"]]
      BY <1>9, <2>6 DEF Decide, SetJob
    <3>2. PICK v : v = [at |-> "redefer", trigger |-> t, inject |-> i, due |-> now + Wait(t, i)]
      OBVIOUS
    <3>3. v = [Todo(t, i, Wait(t, i)) EXCEPT !.at = "redefer"]
      BY <3>2 DEF Todo
    <3>4. v.at = "redefer" /\ v.trigger = t /\ v.inject = i /\ v.due = now + Wait(t, i)
      BY <3>2
    <3>5. i \in crossed \/ Elapsed(i) \in Nat
      BY <2>2, <2>6, ElapsedIsBounded
    <3>6. InTime(v)
      <4> SUFFICES ASSUME i \notin crossed PROVE InTime(v)
        BY <3>4 DEF InTime
      <4>1. Wait(t, i) = IF Delay[t] > Elapsed(i) THEN Delay[t] - Elapsed(i) ELSE 0
        BY DEF Wait
      <4> HIDE DEF t, i
      <4> QED BY <1>n, <2>2, <2>3, <3>4, <3>5, <4>1 DEF InTime
    <3>7. Holds(v)
      BY <2>2, <3>4, <3>6 DEF Holds
    <3> QED BY <1>4, <2>1, <3>1, <3>3, <3>7
  <2> QED BY <2>4, <2>5, <2>6
<1>10. ASSUME NEW j \in Jobs, Redefer(j) PROVE JobsHold'
  <2>1. jobs[j] # Free /\ jobs[j].at = "redefer"
    BY <1>10, <1>f DEF Redefer
  <2>2. jobs[j] = [at |-> "redefer", trigger |-> jobs[j].trigger,
                   inject |-> jobs[j].inject, due |-> jobs[j].due]
    BY <2>1 DEF WellFormed
  <2>3. PICK v : v = [at |-> "todo", trigger |-> jobs[j].trigger,
                      inject |-> jobs[j].inject, due |-> jobs[j].due]
    OBVIOUS
  <2>4. v = [jobs[j] EXCEPT !.at = "todo"]
    BY <2>2, <2>3
  <2>5. v.at = "todo" /\ v.trigger = jobs[j].trigger /\ v.inject = jobs[j].inject
        /\ v.due = jobs[j].due
    BY <2>3
  <2>6. Holds(v)
    BY <1>j, <2>1, <2>5 DEF Holds, Waits, InTime
  <2> QED BY <1>10, <1>4, <2>1, <2>4, <2>6 DEF Redefer, SetJob
<1>11. ASSUME NEW j \in Jobs, RetryStalled(j) PROVE JobsHold'
  <2>1. jobs[j] # Free
    BY <1>11, <1>f DEF RetryStalled
  <2>2. PICK v : v = Todo(jobs[j].trigger, jobs[j].inject, 0)
    OBVIOUS
  <2>3. v.at = "todo" /\ v.trigger = jobs[j].trigger /\ v.inject = jobs[j].inject /\ v.due = now + 0
    BY <2>2 DEF Todo
  <2>4. Holds(v)
    BY <1>j, <1>n, <2>1, <2>3 DEF Holds, InTime, Waits
  <2> QED BY <1>11, <1>4, <2>1, <2>2, <2>4 DEF RetryStalled, SetJob
<1>12. CASE Crash
  <2>1. PICK J \in SUBSET { j \in Jobs : jobs[j].at \in {"fetched", "leaving", "redefer", "deliver"} } :
           jobs' = [j \in Jobs |-> IF j \in J THEN Stage(j, "stalled") ELSE jobs[j]]
    BY <1>12 DEF Crash
  <2>2. ASSUME NEW j \in J PROVE j \in Jobs /\ Holds(Stage(j, "stalled"))
    <3>1. j \in Jobs /\ jobs[j] # Free
      BY <1>f, <2>1
    <3> QED BY <1>5, <1>s, <3>1 DEF Waits
  <2> QED BY <1>g, <2>1, <2>2
<1>13. ASSUME UNCHANGED jobs PROVE JobsHold'
  BY <1>13, <1>g
<1>14. \/ Tick \/ UNCHANGED vars
       \/ \E r \in Requests : \/ \E target \in {"active", "paused", "completed"} : TransitionRead(r, target)
                              \/ TransitionCommit(r) \/ Reload(r) \/ ArmFails(r) \/ Refuse(r)
       => UNCHANGED jobs
  BY DEF Tick, vars, TransitionRead, TransitionCommit, Reload, ArmFails, Refuse
<1> QED
  BY <1>1, <1>2, <1>3, <1>6, <1>8, <1>9, <1>10, <1>11, <1>12, <1>13, <1>14 DEF Next, Worker

\* All of it holds in every reachable state.
LEMMA TimeInvHolds == Spec => [](TimeInv /\ OwedIsComing)
<1>1. Init => TimeInv /\ OwedIsComing
  <2> SUFFICES ASSUME Init PROVE TimeInv /\ OwedIsComing
    OBVIOUS
  <2>1. WellFormed /\ OwedIsComing
    BY InitInv DEF Inv
  <2>2. RowsHold
    BY DEF Init, RowsHold, Ordered
  <2>3. ReadsHold /\ TimesHold /\ Measured /\ JobsHold
    BY DEF Init, ReadsHold, TimesHold, Run, Measured, JobsHold, Holds, Idle, IsReleased, NoTime
  <2> QED BY <2>1, <2>2, <2>3 DEF TimeInv
<1>2. TimeInv /\ OwedIsComing /\ [Next]_vars => (TimeInv /\ OwedIsComing)'
  BY WellFormedStays, OwedIsComingStays, ReadsStay, RowsStay, TimesStay, MeasuredStays, JobsStay
     DEF TimeInv, Inv
<1> QED BY <1>1, <1>2, PTL DEF Spec

\* A message is sent only after its delay of running time since the release of
\* one of its node's injects, however often the exercise was paused in between
\* and whatever job gets through, unless a lifecycle row crossed that release or
\* another row; a resume's wait for its commit counts as running.
THEOREM MessagesWaitTheirDelay == Spec => MessageWaitsItsDelay
<1>1. ASSUME TimeInv, [Next]_vars, NEW t \in Triggers, t \in sent' \ sent
      PROVE  \E i \in Fires[t] :
                IsReleased(i) /\ (i \in crossed \/ Run - ranAt[i] >= Delay[t])
  <2>1. PICK j \in Jobs : Deliver(j)
    BY <1>1 DEF Next, vars, Tick, TransitionRead, TransitionCommit, Reload, Arm, ArmFails, Refuse,
                Release, Worker, Fetch, Decide, Leave, Redefer, RetryStalled, Crash, Reconcile,
                SetJob, Finish, DieFinishing
  <2>2. jobs[j].at = "deliver" /\ jobs[j].trigger = t /\ jobs[j] # Free
    BY <1>1, <2>1 DEF Deliver, Free
  <2>3. Holds(jobs[j])
    BY <1>1 DEF TimeInv, JobsHold
  <2> QED BY <2>2, <2>3 DEF Holds
<1>2. TimeInv /\ [Next]_vars => [\A t \in Triggers :
         t \in sent' \ sent =>
            \E i \in Fires[t] :
               IsReleased(i) /\ (i \in crossed \/ Run - ranAt[i] >= Delay[t])]_vars
  BY <1>1
<1> QED BY TimeInvHolds, <1>2, PTL DEF MessageWaitsItsDelay, Spec

\* Skipping what has a waiting job costs at most the time between the teams'
\* releases: whatever is owed has a job in hand, or one that comes up no later
\* than one of the released injects of the node makes the message due (and what
\* resumes took to commit), unless a lifecycle row crossed that inject.
THEOREM OwedIsArmedInTime == Spec => []ArmedByLastRelease
<1>1. TimeInv /\ OwedIsComing => ArmedByLastRelease
  <2> SUFFICES ASSUME TimeInv, OwedIsComing, NEW t \in Triggers, Owed(t), repair = "none",
                      ~ \E r \in Requests : req[r].op \in {"reload", "arm"}
               PROVE  \E j \in Jobs :
                         /\ jobs[j] # Free /\ jobs[j].trigger = t /\ jobs[j].at # "leaving"
                         /\ jobs[j].at = "todo" =>
                               \/ jobs[j].due <= now
                               \/ \E i \in Fires[t] :
                                     /\ IsReleased(i)
                                     /\ \/ i \in crossed
                                        \/ jobs[j].due - now <= Delay[t] - Elapsed(i) + held
    BY DEF ArmedByLastRelease
  <2>1. PICK j \in Jobs : jobs[j] # Free /\ jobs[j].trigger = t /\ jobs[j].at # "leaving"
    BY DEF OwedIsComing, OnItsWay, WillArm
  <2>2. Holds(jobs[j]) /\ state = "active"
    BY DEF TimeInv, JobsHold, Owed
  <2>3. /\ jobs[j].inject \in Fires[t] /\ IsReleased(jobs[j].inject)
        /\ jobs[j].at = "todo" => InTime(jobs[j])
    BY <2>1, <2>2 DEF Holds, Waits
  <2> QED BY <2>1, <2>3 DEF InTime
<1> QED BY TimeInvHolds, <1>1, PTL
=============================================================================
