--------------------------- MODULE ScheduleProofs ---------------------------
(***************************************************************************)
(* First the clock on its own, for any number of racing lifecycle requests *)
(* and any run length: it never runs ahead of the stopwatch.  NeverAhead    *)
(* alone is not inductive: a resume writes what it computed from a row it   *)
(* read earlier, so the rows in flight have to be safe to compute from too. *)
(*                                                                          *)
(* Then the schedule, for any injects, branches, offsets and queue: no      *)
(* timed inject that the cursor allows is left without a job, and the clock *)
(* opens none before its offset of running time.                            *)
(*                                                                          *)
(* NoStrandedSchedule is not inductive: a request about to arm counts only  *)
(* if the row it read was active (OwedIsComing).  NeverEarly needs that a   *)
(* decision to release stays right while the worker holds it (DecidedInTime)*)
(* and, from the clock, that no row runs ahead of the stopwatch.            *)
(*                                                                          *)
(* ArmedInTime rests on every waiting job of a running or paused exercise   *)
(* coming up by the present deadline of its inject (Timely).  That needs    *)
(* what a request has read to be what there is (Current), so requests come  *)
(* one after another, and offsets that stay as they are.                    *)
(***************************************************************************)
EXTENDS Schedule, TLAPS

-----------------------------------------------------------------------------
(* The clock.                                                              *)

\* A request reads its row, and so takes its time, after the pause it finds there.
ReadInTime(q) == q.seen.state = "paused" => q.seen.pausedAt <= q.read

\* What holds of the clock whatever else the requests of a module do: only
\* those in the middle of a transition matter to it.
ClockHolds ==
    /\ now \in Nat /\ row \in Row /\ ran \in Nat
    /\ req = [r \in Requests |-> req[r]]
    /\ \A r \in Requests :
          req[r].op = "transition" =>
             req[r] \in Transition /\ req[r].read <= now /\ ReadInTime(req[r])
    /\ StaleRowsAreSafe /\ NeverAhead

ClockInv == ClockTypeOK /\ ClockHolds

\* A draft has no clock yet, so nothing can be ahead of anything.
LEMMA ClockInitInv == ClockInit => ClockInv
BY DEF ClockInit, ClockInv, ClockTypeOK, ClockHolds, StaleRowsAreSafe, NeverAhead, Measured,
       Row, Times, States, NoTime, Idle

\* Measured survives the passing of time and the run going on.
LEMMA MeasuredStays ==
    ASSUME now \in Nat, ran \in Nat, now' \in Nat, ran' \in Nat,
           now <= now', ran <= ran', NEW x \in Row, Measured(x)
    PROVE  Measured(x)'
BY DEF Measured, Row, Times, NoTime

\* The passing of time.
LEMMA TickHolds == ClockHolds /\ Tick => ClockHolds'
<1> SUFFICES ASSUME ClockHolds, Tick PROVE ClockHolds'
  OBVIOUS
<1> USE DEF ClockHolds
<1>1. /\ now' \in Nat /\ ran' \in Nat /\ now <= now' /\ ran <= ran'
        /\ UNCHANGED <<row, req>>
  BY DEF Tick
<1>2. \A x \in Row : Measured(x) => Measured(x)'
  BY <1>1, MeasuredStays
<1>3. \A r \in Requests : req[r].op = "transition" => req[r].seen \in Row
  BY DEF Transition
<1>r. ASSUME NEW r \in Requests, req[r].op = "transition"
      PROVE  req'[r] \in Transition /\ req'[r].read <= now' /\ ReadInTime(req'[r])
  <2>1. req[r].read \in Nat /\ req[r].read <= now
    BY <1>r DEF Transition
  <2> QED BY <1>1, <1>r, <2>1
<1>4. StaleRowsAreSafe'
  BY <1>1, <1>2, <1>3 DEF StaleRowsAreSafe
<1>5. NeverAhead'
  BY DEF Tick, NeverAhead, Elapsed, StaleRowsAreSafe, Measured, Row, Times
<1> QED BY <1>1, <1>r, <1>4, <1>5

\* A request that is not in the middle of a transition is none of its business.
LEMMA RequestsHold ==
    ASSUME ClockHolds, UNCHANGED <<now, row, ran>>, req' = [r \in Requests |-> req'[r]],
           \A r \in Requests : req'[r].op = "transition" => req'[r] = req[r]
    PROVE  ClockHolds'
<1>1. \A r \in Requests :
         req'[r].op = "transition" => /\ req'[r] = req[r] /\ req[r].op = "transition"
                                     /\ req'[r] \in Transition /\ req'[r].read <= now
                                     /\ ReadInTime(req'[r])
  BY DEF ClockHolds
<1>2. Measured(row)' /\ (\A x : Measured(x) => Measured(x)')
  BY DEF ClockHolds, StaleRowsAreSafe, Measured
<1>3. StaleRowsAreSafe'
  BY <1>1, <1>2 DEF ClockHolds, StaleRowsAreSafe
<1> QED
  BY <1>1, <1>3 DEF ClockHolds, NeverAhead, Elapsed

\* Reading a row for a transition keeps it safe to compute from.
LEMMA ReadHolds ==
    ASSUME ClockHolds, NEW r \in Requests, NEW target \in {"active", "paused", "completed"},
           TransitionRead(r, target)
    PROVE  ClockHolds'
<1> DEFINE q == [op |-> "transition", seen |-> row, target |-> target, read |-> now]
<1>1. /\ req' = [req EXCEPT ![r] = q] /\ UNCHANGED <<now, row, ran>>
  BY DEF TransitionRead
<1>2. q \in Transition /\ q.read <= now /\ ReadInTime(q)
  <2>1. row \in Row /\ now \in Nat /\ Measured(row)
    BY DEF ClockHolds, StaleRowsAreSafe
  <2>2. q.seen = row /\ q.read = now
    OBVIOUS
  <2>3. q \in Transition
    BY <2>1 DEF Transition, States
  <2> HIDE DEF q
  <2> QED BY <1>1, <2>1, <2>2, <2>3 DEF ReadInTime, Measured
<1>r. \A s \in Requests :
         req'[s].op = "transition" =>
            req'[s] \in Transition /\ req'[s].read <= now' /\ ReadInTime(req'[s])
  <2>1. ASSUME NEW s \in Requests, s # r, req'[s].op = "transition"
        PROVE  req'[s] \in Transition /\ req'[s].read <= now /\ ReadInTime(req'[s])
    <3>1. req'[s] = req[s]
      BY <1>1, <2>1 DEF ClockHolds
    <3> QED BY <2>1, <3>1 DEF ClockHolds
  <2>2. req'[r] = q
    BY <1>1 DEF ClockHolds
  <2> HIDE DEF q
  <2> QED BY <1>1, <1>2, <2>1, <2>2
<1>3. StaleRowsAreSafe'
  BY <1>1 DEF ClockHolds, StaleRowsAreSafe, Measured
<1>4. NeverAhead'
  BY <1>1 DEF ClockHolds, NeverAhead, Elapsed
<1> QED BY <1>1, <1>r, <1>3, <1>4 DEF ClockHolds

\* Each commit writes a measured row from a measured one, however stale.
LEMMA CommitHolds ==
    ASSUME ClockHolds, NEW r \in Requests, NEW next, next.op # "transition",
           TransitionCommit(r, next)
    PROVE  ClockHolds'
<1> USE DEF ClockHolds
<1> DEFINE seen == req[r].seen
           target == req[r].target
<1>0. PICK stamp \in req[r].read .. now :
         /\ row' = Paced(seen, target, stamp)
         /\ ran' = IF target = "active" THEN ran + (now - stamp) ELSE ran
  BY DEF TransitionCommit
<1>1. /\ req[r] \in Transition /\ seen \in Row /\ Measured(seen)
      /\ seen.state \in {"active", "paused"} => seen.startedAt = row.startedAt
      /\ <<seen.state, target>> \in ValidTransitions /\ row.state = seen.state
      /\ row' = Paced(seen, target, stamp)
      /\ req' = [req EXCEPT ![r] = next] /\ UNCHANGED now
  BY <1>0 DEF TransitionCommit, StaleRowsAreSafe, Transition
<1>2. Measured(row)
  BY DEF StaleRowsAreSafe
<1>s. /\ stamp \in Nat /\ stamp <= now
      /\ seen.state = "paused" => seen.pausedAt <= stamp
  <2>1. /\ req[r].read \in Nat /\ now \in Nat
        /\ seen.state = "paused" => seen.pausedAt \in Int /\ seen.pausedAt <= req[r].read
    BY <1>1 DEF TransitionCommit, Transition, ReadInTime, Row, Times, NoTime
  <2> HIDE DEF seen
  <2> QED BY <1>0, <2>1
<1>n. ran' \in Nat /\ ran <= ran' /\ now' = now /\ now \in Nat /\ ran \in Nat
  BY <1>0, <1>1, <1>s
<1>r. \A s \in Requests :
         req'[s].op = "transition" =>
            req'[s] \in Transition /\ req'[s].read <= now' /\ ReadInTime(req'[s])
  <2> SUFFICES ASSUME NEW s \in Requests, req'[s].op = "transition"
               PROVE  req'[s] \in Transition /\ req'[s].read <= now' /\ ReadInTime(req'[s])
    OBVIOUS
  <2>1. req'[s] = req[s]
    BY <1>1
  <2> QED BY <1>n, <2>1
\* The rows other requests hold stay measured.
<1>m. \A s \in Requests :
         req'[s].op = "transition" =>
            req'[s] = req[s] /\ req[s].op = "transition" /\ Measured(req[s].seen)'
  <2> SUFFICES ASSUME NEW s \in Requests, req'[s].op = "transition"
               PROVE  req'[s] = req[s] /\ req[s].op = "transition" /\ Measured(req[s].seen)'
    OBVIOUS
  <2>1. req'[s] = req[s] /\ req[s].op = "transition"
    BY <1>1
  <2>2. PICK x \in Row : x = req[s].seen /\ Measured(x)
    BY <2>1 DEF StaleRowsAreSafe, Transition
  <2>3. now <= now'
    BY <1>n
  <2>4. Measured(x)'
    BY <1>n, <2>2, <2>3, MeasuredStays
  <2> QED BY <2>1, <2>2, <2>4 DEF Measured
<1>k. ASSUME row'.startedAt = row.startedAt, Measured(row)' PROVE StaleRowsAreSafe'
  <2>1. ASSUME NEW s \in Requests, req'[s].op = "transition"
        PROVE  req[s].seen.state \in {"active", "paused"} => req[s].seen.startedAt = row'.startedAt
    BY <1>k, <1>m, <2>1 DEF StaleRowsAreSafe
  <2> QED BY <1>k, <1>m, <2>1 DEF StaleRowsAreSafe
<1>3. CASE target = "active" /\ seen.state = "draft"
  <2>1. row' = [state |-> "active", startedAt |-> stamp, pausedAt |-> NoTime, total |-> 0]
    BY <1>1, <1>2, <1>3 DEF Paced, Measured, Row
  <2>2. row' \in Row /\ Measured(row)'
    BY <1>1, <1>s, <2>1 DEF Row, States, Times, NoTime, Measured
  <2>3. NeverAhead'
    <3>1. row'.startedAt = stamp /\ row'.total = 0
      BY <2>1
    <3>2. ran' = ran + (now - stamp)
      BY <1>0, <1>3
    <3>3. Elapsed(row)' = now - stamp - 0
      BY <1>n, <3>1 DEF Elapsed
    <3> QED BY <1>n, <1>s, <3>2, <3>3 DEF NeverAhead
  <2>4. \A s \in Requests :
          req[s].op = "transition" => req[s].seen.state \notin {"active", "paused"}
    BY <1>1, <1>2, <1>3 DEF StaleRowsAreSafe, Measured
  <2>5. StaleRowsAreSafe'
    BY <1>m, <2>2, <2>4 DEF StaleRowsAreSafe
  <2> QED BY <1>1, <1>n, <1>r, <2>2, <2>3, <2>5
<1>4. CASE target = "active" /\ seen.state = "paused"
  <2> DEFINE total == seen.total + (stamp - seen.pausedAt)
  <2>1. row' = [state |-> "active", startedAt |-> row.startedAt, pausedAt |-> NoTime,
                total |-> total]
    BY <1>1, <1>4 DEF Paced, PauseTotal, Measured
  <2>2. total \in Nat
    BY <1>1, <1>s, <1>4 DEF Measured, Row, Times, NoTime
  <2>3. row' \in Row
    BY <2>1, <2>2 DEF Row, States, Times, NoTime
  <2>4. NeverAhead'
    <3>1. PICK start \in Nat, paused \in Nat, before \in Nat :
             /\ start = row.startedAt /\ paused = seen.pausedAt /\ before = seen.total
             /\ paused - start - before <= ran
      BY <1>1, <1>4 DEF Measured, Row, Times
    <3>2. row'.startedAt = start /\ row'.total = before + (stamp - paused)
      BY <2>1, <3>1
    <3>3. ran' = ran + (now - stamp)
      BY <1>0, <1>4
    <3>4. Elapsed(row)' = now - start - (before + (stamp - paused))
      BY <1>n, <3>2 DEF Elapsed
    <3> QED BY <1>n, <1>s, <3>1, <3>3, <3>4 DEF NeverAhead
  <2>5. Measured(row)' /\ row'.startedAt = row.startedAt
    BY <1>1, <1>2, <1>4, <2>1 DEF Measured
  <2> QED BY <1>1, <1>k, <1>n, <1>r, <2>3, <2>4, <2>5
<1>5. CASE target = "paused"
  <2>1. /\ seen.state = "active"
        /\ row' = [state |-> "paused", startedAt |-> row.startedAt, pausedAt |-> stamp,
                   total |-> row.total]
    BY <1>1, <1>5 DEF Paced, ValidTransitions
  <2>2. row' \in Row /\ NeverAhead'
    BY <1>1, <1>s, <2>1 DEF Row, States, Times, NeverAhead
  <2>3. Measured(row)'
    <3>1. /\ row.startedAt \in Nat /\ row.total \in Nat /\ row.startedAt # NoTime
          /\ now - row.startedAt - row.total <= ran
      BY <1>1, <1>2, <2>1 DEF Measured, NeverAhead, Elapsed, Row, Times
    <3>2. stamp - row.startedAt - row.total <= ran' /\ stamp # NoTime /\ stamp <= now'
      BY <1>n, <1>s, <3>1 DEF NoTime
    <3>3. /\ row'.state = "paused" /\ row'.startedAt = row.startedAt
          /\ row'.pausedAt = stamp /\ row'.total = row.total
      BY <2>1
    <3> QED BY <3>1, <3>2, <3>3 DEF Measured
  <2>4. row'.startedAt = row.startedAt
    BY <2>1
  <2> QED BY <1>1, <1>k, <1>n, <1>r, <2>2, <2>3, <2>4
<1>6. CASE target = "completed"
  <2>1. row' = [state |-> "completed", startedAt |-> row.startedAt,
                pausedAt |-> row.pausedAt, total |-> row.total]
    BY <1>1, <1>6 DEF Paced
  <2>2. row' \in Row /\ NeverAhead' /\ Measured(row)' /\ row'.startedAt = row.startedAt
    BY <2>1 DEF Row, States, NeverAhead, Measured
  <2> QED BY <1>1, <1>k, <1>n, <1>r, <2>2
<1> QED BY <1>1, <1>3, <1>4, <1>5, <1>6 DEF ValidTransitions

\* Every step of the clock keeps it measured.
LEMMA ClockStep == ClockInv /\ [ClockNext]_clockVars => ClockInv'
<1> SUFFICES ASSUME ClockInv, [ClockNext]_clockVars PROVE ClockInv'
  OBVIOUS
<1>1. ClockTypeOK /\ ClockHolds /\ Idle.op # "transition"
  BY DEF ClockInv, Idle
<1>2. CASE Tick
  <2>1. ClockHolds'
    BY <1>1, <1>2, TickHolds
  <2> QED
    BY <1>1, <1>2, <2>1 DEF ClockInv, ClockTypeOK, ClockHolds, Tick
<1>3. ASSUME NEW r \in Requests, NEW target \in {"active", "paused", "completed"},
             TransitionRead(r, target)
      PROVE  ClockInv'
  <2>1. ClockHolds'
    BY <1>1, <1>3, ReadHolds
  <2>2. req' \in [Requests -> {Idle} \cup Transition]
    BY <1>1, <1>3 DEF ClockTypeOK, TransitionRead, Transition, States
  <2> QED
    BY <2>1, <2>2 DEF ClockInv, ClockTypeOK, ClockHolds
<1>4. ASSUME NEW r \in Requests, TransitionCommit(r, Idle) PROVE ClockInv'
  <2>1. ClockHolds'
    BY <1>1, <1>4, CommitHolds
  <2>2. req' \in [Requests -> {Idle} \cup Transition]
    BY <1>1, <1>4 DEF ClockTypeOK, TransitionCommit
  <2> QED
    BY <2>1, <2>2 DEF ClockInv, ClockTypeOK, ClockHolds
<1>5. ASSUME NEW r \in Requests, Drop(r) PROVE ClockInv'
  <2>1. req' \in [Requests -> {Idle} \cup Transition]
    BY <1>1, <1>5 DEF ClockTypeOK, Drop
  <2>2. ClockHolds'
    BY <1>1, <1>5, <2>1, RequestsHold DEF Drop, ClockTypeOK
  <2> QED
    BY <2>1, <2>2 DEF ClockInv, ClockTypeOK, ClockHolds
<1>6. CASE UNCHANGED clockVars
  BY <1>1, <1>6 DEF clockVars, ClockInv, ClockTypeOK, ClockHolds, StaleRowsAreSafe, NeverAhead,
                    Elapsed, Measured
<1> QED BY <1>2, <1>3, <1>4, <1>5, <1>6 DEF ClockNext

\* Rows, clock and requests keep their types.
THEOREM ClockTypeCorrect == ClockSpec => []ClockTypeOK
BY ClockInitInv, ClockStep, PTL DEF ClockSpec, ClockInv

\* Nothing becomes due before its offset of running time, whatever races.
THEOREM ClockNeverAhead == ClockSpec => []NeverAhead
BY ClockInitInv, ClockStep, PTL DEF ClockSpec, ClockInv, ClockHolds

\* The rows that requests still hold are safe to compute from.
THEOREM StaleRowsHold == ClockSpec => []StaleRowsAreSafe
BY ClockInitInv, ClockStep, PTL DEF ClockSpec, ClockInv, ClockHolds

-----------------------------------------------------------------------------
(* The schedule.                                                           *)


\* A job that has not given up on the inject.
OnItsWay(i) ==
    \E j \in Jobs : jobs[j] # Free /\ jobs[j].inject = i /\ jobs[j].at # "leaving"
WillArm(r) == \/ req[r].op = "reload"
              \/ req[r].op = "arm" /\ req[r].seen.state = "active"

OwedIsComing ==
    \A i \in Injects :
       Owes(i) => OnItsWay(i) \/ repair # "none" \/ \E r \in Requests : WillArm(r)

\* What a worker has decided to release is due, and stays so.
DecidedInTime ==
    \A j \in Jobs :
       jobs[j].at = "release" /\ jobs[j].inject \notin Editable =>
          /\ offset[jobs[j].inject] \in Nat
          /\ offset[jobs[j].inject] <= ran

Inv == TypeOK /\ ClockHolds /\ DecidedInTime

-----------------------------------------------------------------------------
(* The queue.                                                              *)

\* The deadline of an offset is a time.
LEMMA DueAtIsATime ==
    ASSUME now \in Nat, NEW x \in Row, NEW minutes \in Nat
    PROVE  DueAt(x, minutes) \in Nat
<1>1. Elapsed(x) \in Int
  BY DEF Elapsed, Row, Times, NoTime
<1> HIDE DEF Elapsed
<1> QED
  BY <1>1 DEF DueAt, Remaining

\* Enqueue gives each inject a waiting job and touches no other.
LEMMA Enqueued ==
    ASSUME now \in Nat, jobs \in [Jobs -> Job], NEW I \in SUBSET Injects, NEW x \in Row,
           \A i \in I : offset[i] \in Nat, Enqueue(I, x)
    PROVE  /\ jobs' \in [Jobs -> Job]
           /\ \A j \in Jobs : jobs'[j] = jobs[j]
                              \/ (jobs[j] = Free /\ jobs'[j] # Free /\ jobs'[j].at = "todo")
           /\ \A i \in I : \E j \in Jobs :
                 jobs'[j] # Free /\ jobs'[j].at = "todo" /\ jobs'[j].inject = i
<1> DEFINE new(i) == [at |-> "todo", inject |-> i, due |-> DueAt(x, offset[i])]
<1>1. PICK slot \in [I -> { j \in Jobs : jobs[j] = Free }] :
         /\ \A a, b \in I : slot[a] = slot[b] => a = b
         /\ jobs' = [j \in Jobs |->
                        IF \E i \in I : slot[i] = j
                        THEN LET i == CHOOSE i \in I : slot[i] = j IN new(i)
                        ELSE jobs[j]]
  BY DEF Enqueue
<1>2. \A i \in I : new(i) \in Job /\ new(i) # Free /\ new(i).at = "todo" /\ new(i).inject = i
  BY DueAtIsATime DEF Job, Free
<1> HIDE DEF new
<1>3. \A i \in I : slot[i] \in Jobs /\ jobs[slot[i]] = Free /\ jobs'[slot[i]] = new(i)
  <2> TAKE i \in I
  <2>1. slot[i] \in Jobs /\ jobs[slot[i]] = Free
    BY <1>1
  <2>2. (CHOOSE k \in I : slot[k] = slot[i]) = i
    BY <1>1
  <2> QED
    BY <1>1, <2>1, <2>2
<1>4. \A j \in Jobs : jobs'[j] = jobs[j] \/ \E i \in I : slot[i] = j
  BY <1>1
<1>5. \A j \in Jobs : jobs'[j] \in Job
  BY <1>2, <1>3, <1>4
<1>6. jobs' \in [Jobs -> Job]
  BY <1>1, <1>5
<1> QED
  BY <1>2, <1>3, <1>4, <1>6

\* What arming leaves unarmed has a waiting job already.
LEMMA Rearmed ==
    ASSUME now \in Nat, jobs \in [Jobs -> Job], NEW x \in Row,
           offset \in [Injects -> Nat \cup {NoOffset}], Enqueue(Unarmed, x)
    PROVE  /\ jobs' \in [Jobs -> Job]
           /\ \A j \in Jobs : jobs'[j] = jobs[j]
                              \/ (jobs[j] = Free /\ jobs'[j] # Free /\ jobs'[j].at = "todo")
           /\ \A i \in Pending : offset[i] # NoOffset => OnItsWay(i)'
<1>1. Unarmed \in SUBSET Injects /\ \A i \in Unarmed : offset[i] \in Nat
  BY DEF Unarmed, Pending
<1>2. /\ jobs' \in [Jobs -> Job]
      /\ \A j \in Jobs : jobs'[j] = jobs[j]
                         \/ (jobs[j] = Free /\ jobs'[j] # Free /\ jobs'[j].at = "todo")
      /\ \A i \in Unarmed : \E j \in Jobs :
            jobs'[j] # Free /\ jobs'[j].at = "todo" /\ jobs'[j].inject = i
  BY <1>1, Enqueued
<1>3. ASSUME NEW i \in Pending, offset[i] # NoOffset PROVE OnItsWay(i)'
  <2>1. CASE i \in Unarmed
    BY <1>2, <2>1 DEF OnItsWay
  <2>2. CASE i \notin Unarmed
    <3>1. PICK j \in Jobs : jobs[j].at = "todo" /\ jobs[j].inject = i
      BY <1>3, <2>2 DEF Unarmed, HasLiveJob
    <3>2. jobs[j] # Free
      BY <3>1 DEF Free
    <3> QED
      BY <1>2, <3>1, <3>2 DEF OnItsWay
  <2> QED
    BY <2>1, <2>2
<1> QED
  BY <1>2, <1>3

-----------------------------------------------------------------------------
(* Types.                                                                  *)

\* Every step keeps the types.
LEMMA Typed == TypeOK /\ ClockHolds /\ ClockHolds' /\ [Next]_vars => TypeOK'
<1> SUFFICES ASSUME TypeOK, ClockHolds, ClockHolds', [Next]_vars PROVE TypeOK'
  OBVIOUS
<1>a. /\ now \in Nat /\ row \in Row /\ ran \in Nat
      /\ now' \in Nat /\ row' \in Row /\ ran' \in Nat
  BY DEF ClockHolds
<1>b. req \in [Requests -> ScheduleRequest] /\ jobs \in [Jobs -> Job]
  BY DEF TypeOK
<1>c. offset \in [Injects -> Nat \cup {NoOffset}]
  BY DEF TypeOK
<1>d. opened \in [Injects -> {"pending", "hand", "clock"}]
  BY DEF TypeOK
<1>e. \A j \in Jobs : jobs[j] # Free => jobs[j].inject \in Injects
  BY <1>b DEF Job, Free
<1>1. ASSUME Time PROVE TypeOK'
  BY <1>1, <1>a DEF Time, Tick, scheduleVars, TypeOK
<1>2. ASSUME NEW r \in Requests, Lifecycle(r) PROVE TypeOK'
  <2>1. req' \in [Requests -> ScheduleRequest]
    <3>1. CASE \E target \in {"active", "paused", "completed"} : TransitionRead(r, target)
      BY <1>a, <1>b, <3>1 DEF TransitionRead, ScheduleRequest, Transition, States
    <3>2. CASE TransitionCommit(r, IF req[r].target = "active" THEN [op |-> "reload"] ELSE Idle)
      BY <1>b, <3>2 DEF TransitionCommit, ScheduleRequest
    <3> QED
      BY <1>2, <3>1, <3>2 DEF Lifecycle
  <2> QED
    BY <1>2, <1>a, <2>1 DEF Lifecycle, scheduleVars, TypeOK
<1>3. ASSUME NEW r \in Requests, Reload(r) PROVE TypeOK'
  <2>1. req' \in [Requests -> ScheduleRequest]
    BY <1>3, <1>a, <1>b DEF Reload, ScheduleRequest
  <2> QED
    BY <1>3, <1>a, <2>1 DEF Reload, scheduleVars, TypeOK
<1>4. ASSUME NEW r \in Requests, Arm(r) PROVE TypeOK'
  <2>1. req' \in [Requests -> ScheduleRequest]
    BY <1>4, <1>b DEF Arm, ScheduleRequest
  <2>2. req[r].seen \in Row
    BY <1>4, <1>b DEF Arm, ScheduleRequest, Idle, Transition
  <2>3. jobs' \in [Jobs -> Job]
    <3>1. CASE Enqueue(Unarmed, req[r].seen)
      BY <1>a, <1>b, <1>c, <2>2, <3>1, Rearmed
    <3> QED
      BY <1>4, <1>b, <3>1 DEF Arm
  <2> QED
    BY <1>4, <1>a, <2>1, <2>3 DEF Arm, TypeOK
<1>5. ASSUME NEW r \in Requests, AnswerCommit(r) PROVE TypeOK'
  <2>1. req' \in [Requests -> ScheduleRequest]
    BY <1>5, <1>b DEF AnswerCommit, ScheduleRequest
  <2>2. req[r].inject \in Injects /\ req[r].seen \in Row
    BY <1>5, <1>b DEF AnswerCommit, ScheduleRequest, Idle, Transition
  <2>3. PICK next \in Leads[req[r].inject] :
           cursor' = next /\ Enqueue(ReachedTimed(req[r].inject, next), req[r].seen)
    BY <1>5 DEF AnswerCommit
  <2>4. cursor' \in Injects \cup {NoInject}
    BY <2>2, <2>3, ScheduleAssumption
  <2>5. /\ ReachedTimed(req[r].inject, next) \in SUBSET Injects
        /\ \A k \in ReachedTimed(req[r].inject, next) : offset[k] \in Nat
    BY <1>c DEF ReachedTimed, Pending
  <2>6. jobs' \in [Jobs -> Job]
    BY <1>a, <1>b, <2>2, <2>3, <2>5, Enqueued
  <2>7. answered' \subseteq Injects
    BY <1>5, <2>2 DEF AnswerCommit, TypeOK
  <2> QED
    BY <1>5, <1>a, <2>1, <2>4, <2>6, <2>7 DEF AnswerCommit, TypeOK
<1>6. ASSUME NEW r \in Requests, Refuse(r) \/ ArmFails(r) PROVE TypeOK'
  <2>1. req' \in [Requests -> ScheduleRequest]
    BY <1>6, <1>b DEF Refuse, ArmFails, ScheduleRequest
  <2> QED
    BY <1>6, <1>a, <2>1 DEF Refuse, ArmFails, scheduleVars, TypeOK
<1>7. ASSUME NEW r \in Requests, NEW i \in Injects, AnswerRead(r, i) PROVE TypeOK'
  <2>1. req' \in [Requests -> ScheduleRequest]
    BY <1>7, <1>a, <1>b DEF AnswerRead, ScheduleRequest
  <2> QED
    BY <1>7, <1>a, <2>1 DEF AnswerRead, scheduleVars, TypeOK
<1>8. ASSUME Enrol PROVE TypeOK'
  BY <1>8 DEF Enrol, clockVars, TypeOK
<1>9. ASSUME NEW i \in Injects, ReleaseByHand(i) PROVE TypeOK'
  BY <1>9 DEF ReleaseByHand, clockVars, TypeOK
<1>10. ASSUME NEW i \in Injects, NEW value \in NewOffsets, EditOffset(i, value) PROVE TypeOK'
  <2>1. value \in Nat \cup {NoOffset}
    BY ScheduleAssumption
  <2>2. jobs' \in [Jobs -> Job]
    <3>1. CASE value # NoOffset
      <4>1. [at |-> "todo", inject |-> i, due |-> DueAt(row, value)] \in Job
        BY <1>a, <2>1, <3>1, DueAtIsATime DEF Job
      <4> QED
        BY <1>10, <1>b, <4>1 DEF EditOffset
    <3> QED
      BY <1>10, <1>b, <3>1 DEF EditOffset
  <2>3. edits' \in 0 .. MaxEdits
    BY <1>10, ScheduleAssumption DEF EditOffset, TypeOK
  <2>4. offset' \in [Injects -> Nat \cup {NoOffset}]
    BY <1>10, <1>c, <2>1 DEF EditOffset
  <2> QED
    BY <1>10, <1>a, <2>2, <2>3, <2>4 DEF EditOffset, clockVars, TypeOK
<1>11. ASSUME NEW j \in Jobs, Worker(j) \/ RetryStalled(j) PROVE TypeOK'
  <2>1. jobs[j] # Free
    BY <1>11 DEF Worker, Fetch, Decide, Leave, Redefer, ReleaseByClock, RetryStalled, Free
  <2>2. PICK i \in Injects : i = jobs[j].inject
    BY <1>e, <2>1
  <2>3. PICK value : jobs' = [jobs EXCEPT ![j] = value] /\ value \in Job
    <3>1. CASE Fetch(j)
      <4>1. [at |-> "fetched", inject |-> i] \in Job
        BY DEF Job
      <4> QED
        BY <2>2, <3>1, <4>1 DEF Fetch, SetJob
    <3>2. CASE Decide(j)
      <4>1. [at |-> "leaving", inject |-> i] \in Job /\ [at |-> "release", inject |-> i] \in Job
        BY DEF Job
      <4>2. ASSUME offset[i] # NoOffset
            PROVE  [at |-> "redefer", inject |-> i, due |-> DueAt(row, offset[i])] \in Job
        <5>1. DueAt(row, offset[i]) \in Nat
          BY <1>a, <1>c, <4>2, DueAtIsATime
        <5> QED
          BY <5>1 DEF Job
      <4> QED
        BY <2>2, <3>2, <4>1, <4>2 DEF Decide, SetJob
    <3>3. CASE Leave(j)
      BY <3>3 DEF Leave, Finish, SetJob, Job
    <3>4. CASE Redefer(j)
      <4>1. jobs[j] \in [at : {"todo", "redefer"}, inject : Injects, due : Nat]
        BY <1>b, <3>4 DEF Redefer, Job, Free
      <4> QED
        <5>1. [jobs[j] EXCEPT !.at = "todo"] \in Job
          BY <4>1 DEF Job
        <5> QED
          BY <3>4, <5>1 DEF Redefer, SetJob
    <3>5. CASE ReleaseByClock(j)
      <4>1. Free \in Job /\ [at |-> "stalled", inject |-> i] \in Job
        BY DEF Job
      <4> QED
        BY <2>2, <3>5, <4>1 DEF ReleaseByClock, Finish, DieFinishing, SetJob
    <3>6. CASE RetryStalled(j)
      <4>1. [at |-> "todo", inject |-> i, due |-> now] \in Job
        BY <1>a DEF Job
      <4> QED
        BY <2>2, <3>6, <4>1 DEF RetryStalled, SetJob
    <3> QED
      BY <1>11, <3>1, <3>2, <3>3, <3>4, <3>5, <3>6 DEF Worker
  <2>4. jobs' \in [Jobs -> Job]
    BY <1>b, <2>3
  <2>5. opened' \in [Injects -> {"pending", "hand", "clock"}]
    BY <1>11, <1>d, <2>2
       DEF Worker, Fetch, Decide, Leave, Redefer, ReleaseByClock, RetryStalled
  <2>6. /\ UNCHANGED <<clockVars, offset, cursor, answered, enrolled, edits>>
        /\ repair' \in {"none", "restart", "needed"} /\ crashes' \in 0 .. MaxCrashes
    BY <1>11, ScheduleAssumption
       DEF Worker, Fetch, Decide, Leave, Redefer, ReleaseByClock, RetryStalled, Finish,
           DieFinishing, SetJob, TypeOK
  <2> QED
    BY <2>4, <2>5, <2>6 DEF clockVars, TypeOK
<1>12. ASSUME Crash PROVE TypeOK'
  <2>1. PICK R \in SUBSET Requests,
             J \in SUBSET { j \in Jobs : jobs[j].at \in {"fetched", "leaving", "redefer", "release"} } :
           /\ req' = [r \in Requests |-> IF r \in R THEN Idle ELSE req[r]]
           /\ jobs' = [j \in Jobs |->
                          IF j \in J THEN [at |-> "stalled", inject |-> jobs[j].inject] ELSE jobs[j]]
    BY <1>12 DEF Crash
  <2>2. req' \in [Requests -> ScheduleRequest]
    BY <1>b, <2>1 DEF ScheduleRequest
  <2>3. \A j \in J : [at |-> "stalled", inject |-> jobs[j].inject] \in Job
    BY <1>e, <2>1 DEF Job, Free
  <2>4. jobs' \in [Jobs -> Job]
    BY <1>b, <2>1, <2>3
  <2> QED
    BY <1>12, <1>a, <2>2, <2>4, ScheduleAssumption DEF Crash, TypeOK
<1>13. ASSUME Reconcile PROVE TypeOK'
  <2>1. jobs' \in [Jobs -> Job]
    <3>1. CASE Enqueue(Unarmed, row)
      BY <1>a, <1>b, <1>c, <3>1, Rearmed
    <3> QED
      BY <1>13, <1>b, <3>1 DEF Reconcile
  <2> QED
    BY <1>13, <2>1 DEF Reconcile, clockVars, TypeOK
<1>14. CASE UNCHANGED vars
  BY <1>14 DEF vars, clockVars, scheduleVars, TypeOK
<1> QED
  BY <1>1, <1>2, <1>3, <1>4, <1>5, <1>6, <1>7, <1>8, <1>9, <1>10, <1>11, <1>12, <1>13, <1>14
     DEF Next

-----------------------------------------------------------------------------
(* The clock.                                                              *)

\* None of the schedule's own steps disturbs the clock.
LEMMA ClockUndisturbed == TypeOK /\ ClockHolds /\ [Next]_vars => ClockHolds'
<1> SUFFICES ASSUME TypeOK, ClockHolds, [Next]_vars PROVE ClockHolds'
  OBVIOUS
<1>a. req \in [Requests -> ScheduleRequest]
  BY DEF TypeOK
<1>1. ASSUME Time PROVE ClockHolds'
  BY <1>1, TickHolds DEF Time
<1>2. ASSUME NEW r \in Requests, Lifecycle(r) PROVE ClockHolds'
  <2>1. \A target \in {"active", "paused", "completed"} : TransitionRead(r, target) => ClockHolds'
    BY ReadHolds
  <2>2. ASSUME NEW next, next.op # "transition", TransitionCommit(r, next) PROVE ClockHolds'
    BY <2>2, CommitHolds
  <2>3. (IF req[r].target = "active" THEN [op |-> "reload"] ELSE Idle).op # "transition"
    BY DEF Idle
  <2> QED
    BY <1>2, <2>1, <2>2, <2>3 DEF Lifecycle
<1>3. ASSUME UNCHANGED <<now, row, ran>>, req' = [r \in Requests |-> req'[r]],
             \A r \in Requests : req'[r].op = "transition" => req'[r] = req[r]
      PROVE  ClockHolds'
  BY <1>3, RequestsHold
<1>4. ASSUME NEW r \in Requests, NEW q, q.op # "transition", req' = [req EXCEPT ![r] = q],
             UNCHANGED <<now, row, ran>>
      PROVE  ClockHolds'
  BY <1>a, <1>3, <1>4
<1>5. ASSUME NEW r \in Requests,
             Reload(r) \/ Arm(r) \/ AnswerCommit(r) \/ Refuse(r) \/ ArmFails(r)
      PROVE  ClockHolds'
  BY <1>4, <1>5 DEF Reload, Arm, AnswerCommit, Refuse, ArmFails, Idle
<1>6. ASSUME NEW r \in Requests, NEW i \in Injects, AnswerRead(r, i) PROVE ClockHolds'
  BY <1>4, <1>6 DEF AnswerRead
<1>7. ASSUME Crash PROVE ClockHolds'
  BY <1>3, <1>7 DEF Crash, Idle
<1>8. ASSUME UNCHANGED clockVars PROVE ClockHolds'
  BY <1>3, <1>8, <1>a DEF clockVars
<1> QED
  BY <1>1, <1>2, <1>5, <1>6, <1>7, <1>8
     DEF Next, Enrol, ReleaseByHand, EditOffset, Worker, Fetch, Decide, Leave, Redefer,
         ReleaseByClock, RetryStalled, Finish, DieFinishing, SetJob, Reconcile, vars

-----------------------------------------------------------------------------
(* Nothing opens early.                                                    *)

\* A worker that decides to release has seen that the offset has passed.
LEMMA DecidedInTimeStays == Inv /\ [Next]_vars => DecidedInTime'
<1> SUFFICES ASSUME Inv, [Next]_vars PROVE DecidedInTime'
  OBVIOUS
<1>a. /\ now \in Nat /\ row \in Row /\ ran \in Nat /\ NeverAhead
      /\ offset \in [Injects -> Nat \cup {NoOffset}]
      /\ jobs \in [Jobs -> Job]
  BY DEF Inv, ClockHolds, TypeOK
<1>b. DecidedInTime
  BY DEF Inv
<1>c. \A j \in Jobs : jobs[j] # Free => jobs[j].inject \in Injects
  BY <1>a DEF Job, Free
\* It is enough that offsets stay, time goes on and no decision is new.
<1>d. ASSUME \A i \in Injects \ Editable : offset'[i] = offset[i],
             ran' \in Nat, ran <= ran',
             \A j \in Jobs : jobs'[j].at = "release" => jobs'[j] = jobs[j]
      PROVE  DecidedInTime'
  <2> SUFFICES ASSUME NEW j \in Jobs, jobs'[j].at = "release", jobs'[j].inject \notin Editable
               PROVE  offset'[jobs'[j].inject] \in Nat /\ offset'[jobs'[j].inject] <= ran'
    BY DEF DecidedInTime
  <2>1. jobs'[j] = jobs[j] /\ jobs[j] # Free
    BY <1>d DEF Free
  <2>2. PICK i \in Injects \ Editable : i = jobs[j].inject
    BY <1>c, <2>1
  <2>3. offset[i] \in Nat /\ offset[i] <= ran
    BY <1>b, <2>1, <2>2 DEF DecidedInTime
  <2>4. offset'[i] \in Nat /\ offset'[i] <= ran'
    BY <1>a, <1>d, <2>2, <2>3
  <2> QED
    BY <2>1, <2>2, <2>4
<1>1. CASE Time
  <2>1. ran' \in Nat /\ ran <= ran'
    BY <1>1, <1>a DEF Time, Tick
  <2> QED
    BY <1>1, <1>d, <2>1 DEF Time, scheduleVars
<1>2. ASSUME NEW I \in SUBSET Injects, NEW x \in Row, \A i \in I : offset[i] \in Nat,
             Enqueue(I, x), UNCHANGED <<ran, offset>>
      PROVE  DecidedInTime'
  <2>1. \A j \in Jobs : jobs'[j] = jobs[j] \/ jobs'[j].at = "todo"
    BY <1>2, <1>a, Enqueued
  <2> QED
    BY <1>2, <1>a, <1>d, <2>1
<1>3. ASSUME NEW x \in Row, Enqueue(Unarmed, x), UNCHANGED <<ran, offset>> PROVE DecidedInTime'
  <2>1. Unarmed \in SUBSET Injects /\ \A i \in Unarmed : offset[i] \in Nat
    BY <1>a DEF Unarmed, Pending
  <2> QED
    BY <1>2, <1>3, <2>1
<1>4. CASE UNCHANGED <<ran, offset, jobs>>
  BY <1>4, <1>a, <1>d
<1>5. ASSUME NEW r \in Requests, Arm(r) PROVE DecidedInTime'
  <2>1. req[r].seen \in Row
    BY <1>5 DEF Inv, TypeOK, Arm, ScheduleRequest, Idle, Transition
  <2> QED
    BY <1>3, <1>4, <1>5, <2>1 DEF Arm
<1>6. ASSUME NEW r \in Requests, AnswerCommit(r) PROVE DecidedInTime'
  <2>1. req[r].inject \in Injects /\ req[r].seen \in Row
    BY <1>6 DEF Inv, TypeOK, AnswerCommit, ScheduleRequest, Idle, Transition
  <2>2. PICK next : Enqueue(ReachedTimed(req[r].inject, next), req[r].seen)
    BY <1>6 DEF AnswerCommit
  <2>3. /\ ReachedTimed(req[r].inject, next) \in SUBSET Injects
        /\ \A k \in ReachedTimed(req[r].inject, next) : offset[k] \in Nat
    BY <1>a DEF ReachedTimed, Pending
  <2>4. UNCHANGED <<ran, offset>>
    BY <1>6 DEF AnswerCommit
  <2> QED
    BY <1>2, <2>1, <2>2, <2>3, <2>4
<1>7. ASSUME NEW i \in Injects, NEW value \in NewOffsets, EditOffset(i, value) PROVE DecidedInTime'
  <2>1. ran' = ran /\ \A k \in Injects \ Editable : offset'[k] = offset[k]
    BY <1>7, <1>a DEF EditOffset, clockVars
  <2>2. \A j \in Jobs : jobs'[j] = jobs[j] \/ jobs'[j].at = "todo"
    BY <1>7, <1>a DEF EditOffset
  <2> QED
    BY <1>a, <1>d, <2>1, <2>2
<1>8. ASSUME NEW j \in Jobs, Decide(j) PROVE DecidedInTime'
  <2>1. PICK i \in Injects : i = jobs[j].inject
    BY <1>8, <1>c DEF Decide, Free
  <2>2. /\ UNCHANGED <<ran, offset>>
        /\ \A k \in Jobs \ {j} : jobs'[k] = jobs[k]
        /\ jobs'[j].at = "release" =>
              /\ jobs'[j].inject = i
              /\ row.state = "active" /\ offset[i] # NoOffset /\ ~TooEarly(i)
    BY <1>8, <1>a, <2>1 DEF Decide, SetJob, clockVars
  <2>3. ASSUME row.state = "active", offset[i] # NoOffset, ~TooEarly(i)
        PROVE  offset[i] \in Nat /\ offset[i] <= ran
    <3>1. offset[i] \in Nat /\ Elapsed(row) \in Int /\ Elapsed(row) <= ran
      BY <1>a, <2>3 DEF Elapsed, NeverAhead, Row, Times, NoTime
    <3> HIDE DEF Elapsed
    <3> QED
      BY <1>a, <2>3, <3>1 DEF TooEarly, Remaining
  <2> QED
    BY <1>b, <2>2, <2>3 DEF DecidedInTime
<1>9. ASSUME NEW j \in Jobs, SetJob(j, jobs'[j]), jobs'[j].at # "release" PROVE DecidedInTime'
  BY <1>9, <1>a, <1>d DEF SetJob, clockVars
<1>10. ASSUME NEW j \in Jobs,
              Fetch(j) \/ Leave(j) \/ Redefer(j) \/ ReleaseByClock(j) \/ RetryStalled(j)
       PROVE  DecidedInTime'
  <2>1. SetJob(j, jobs'[j]) /\ jobs'[j].at # "release"
    BY <1>10, <1>a DEF Fetch, Leave, Redefer, ReleaseByClock, RetryStalled, Finish, DieFinishing,
                       SetJob, Free, Job
  <2> QED
    BY <1>9, <2>1
<1>11. CASE Crash
  BY <1>11, <1>a, <1>d DEF Crash
<1>12. CASE Reconcile
  BY <1>12, <1>3, <1>4, <1>a DEF Reconcile, clockVars
<1>13. ASSUME NEW r \in Requests, Lifecycle(r) PROVE DecidedInTime'
  <2>1. UNCHANGED <<offset, jobs>>
    BY <1>13 DEF Lifecycle, scheduleVars
  <2>2. CASE \E target \in {"active", "paused", "completed"} : TransitionRead(r, target)
    BY <2>1, <2>2, <1>4 DEF TransitionRead
  <2>3. CASE TransitionCommit(r, IF req[r].target = "active" THEN [op |-> "reload"] ELSE Idle)
    <3>1. PICK stamp \in req[r].read .. now :
             ran' = IF req[r].target = "active" THEN ran + (now - stamp) ELSE ran
      BY <2>3 DEF TransitionCommit
    <3>2. req[r].read \in Nat
      BY <2>3 DEF TransitionCommit, Inv, ClockHolds, Transition
    <3>3. ran' \in Nat /\ ran <= ran'
      BY <1>a, <3>1, <3>2
    <3> QED BY <1>a, <1>d, <2>1, <3>3
  <2> QED BY <1>13, <2>2, <2>3 DEF Lifecycle
<1> QED
  BY <1>1, <1>4, <1>5, <1>6, <1>7, <1>8, <1>10, <1>11, <1>12, <1>13
     DEF Next, Reload, Refuse, ArmFails, AnswerRead,
         Enrol, ReleaseByHand, Worker, vars, clockVars, scheduleVars

\* The invariant holds at the start,
LEMMA InitInv == Init => Inv
<1> SUFFICES ASSUME Init PROVE Inv
  OBVIOUS
<1>1. ClockHolds
  BY ClockInitInv DEF Init, ClockInv
<1>2. TypeOK
  <2>1. req \in [Requests -> ScheduleRequest] /\ jobs \in [Jobs -> Job]
    BY DEF Init, ClockInit, ScheduleRequest, Job
  <2>2. now \in Nat /\ row \in Row /\ ran \in Nat
    BY <1>1 DEF ClockHolds
  <2>3. edits \in 0 .. MaxEdits /\ crashes \in 0 .. MaxCrashes
    BY ScheduleAssumption DEF Init
  <2> QED
    BY <2>1, <2>2, <2>3, ScheduleAssumption DEF Init, TypeOK
<1>3. DecidedInTime
  BY DEF Init, DecidedInTime, Free
<1> QED
  BY <1>1, <1>2, <1>3 DEF Inv

\* and every step keeps it.
LEMMA Step == Inv /\ [Next]_vars => Inv'
<1>1. Inv /\ [Next]_vars => ClockHolds'
  BY ClockUndisturbed DEF Inv
<1>2. Inv /\ [Next]_vars => TypeOK'
  BY <1>1, Typed DEF Inv
<1> QED
  BY <1>1, <1>2, DecidedInTimeStays DEF Inv

\* Every variable keeps to its set.
THEOREM TypeCorrect == Spec => []TypeOK
BY InitInv, Step, PTL DEF Spec, Inv

\* In the composition too no exercise row runs ahead of the stopwatch.
THEOREM ScheduleNeverAhead == Spec => []NeverAhead
BY InitInv, Step, PTL DEF Spec, Inv, ClockHolds

\* The rows that lifecycle requests still hold are safe to compute from.
THEOREM ScheduleStaleRowsHold == Spec => []StaleRowsAreSafe
BY InitInv, Step, PTL DEF Spec, Inv, ClockHolds

\* What the clock opens has an offset that has run.
LEMMA OpensInTime ==
    Inv /\ [Next]_vars =>
        [\A i \in Injects :
            opened[i] = "pending" /\ opened'[i] = "clock" /\ i \notin Editable =>
                ran >= offset[i]]_vars
<1> SUFFICES ASSUME Inv, Next, NEW i \in Injects,
                    opened[i] = "pending", opened'[i] = "clock", i \notin Editable
             PROVE  ran >= offset[i]
  OBVIOUS
<1>1. opened \in [Injects -> {"pending", "hand", "clock"}] /\ opened' # opened
  BY DEF Inv, TypeOK
<1>2. \A k \in Injects : ~ReleaseByHand(k)
  BY <1>1 DEF ReleaseByHand
<1>3. PICK j \in Jobs : ReleaseByClock(j)
  BY <1>1, <1>2
     DEF Next, Time, Lifecycle, Reload, Arm, AnswerCommit, Refuse, ArmFails, AnswerRead, Enrol,
         EditOffset, Worker, Fetch, Decide, Leave, Redefer, RetryStalled, Crash, Reconcile,
         scheduleVars
<1>4. jobs[j].at = "release" /\ jobs[j].inject = i
  BY <1>1, <1>3 DEF ReleaseByClock
<1> QED
  BY <1>4 DEF Inv, DecidedInTime, TypeOK, ClockHolds

\* The clock opens nothing before its offset of running time.
THEOREM OpensNothingEarly == Spec => NeverEarly
BY InitInv, Step, OpensInTime, PTL DEF Spec, NeverEarly

-----------------------------------------------------------------------------
(* Nothing is left without a job.                                          *)

\* What the cursor allows has a job on its way, whatever the step.
LEMMA OwedIsComingStays ==
    ASSUME LateRoster = FALSE, Inv, OwedIsComing, [Next]_vars
    PROVE  OwedIsComing'
<1>a. /\ now \in Nat /\ row \in Row
      /\ req \in [Requests -> ScheduleRequest]
      /\ jobs \in [Jobs -> Job]
      /\ offset \in [Injects -> Nat \cup {NoOffset}]
      /\ opened \in [Injects -> {"pending", "hand", "clock"}]
  BY DEF Inv, ClockHolds, TypeOK
<1>b. \A i \in Injects : Owes(i) => OnItsWay(i) \/ repair # "none" \/ \E r \in Requests : WillArm(r)
  BY DEF OwedIsComing
\* It is enough that nothing new is owed and nothing on its way is lost.
<1>c. ASSUME \A i \in Injects : Owes(i)' => OnItsWay(i)' \/ (Owes(i) /\ (OnItsWay(i) => OnItsWay(i)')),
             repair' = repair,
             \A r \in Requests : WillArm(r) => WillArm(r)'
      PROVE  OwedIsComing'
  BY <1>b, <1>c DEF OwedIsComing
<1>d. ASSUME row'.state # "active" PROVE OwedIsComing'
  BY <1>d DEF OwedIsComing, Owes
<1>e. ASSUME repair' # "none" PROVE OwedIsComing'
  BY <1>e DEF OwedIsComing
<1>f. ASSUME UNCHANGED <<row, opened, offset, enrolled, cursor>>
      PROVE  \A i \in Injects : Owes(i)' = Owes(i)
  BY <1>f DEF Owes, Pending, Gate
<1>g. ASSUME \A j \in Jobs : jobs'[j] = jobs[j]
                 \/ (jobs[j] = Free /\ jobs'[j] # Free /\ jobs'[j].at = "todo")
      PROVE  \A i \in Injects : OnItsWay(i) => OnItsWay(i)'
  BY <1>g DEF OnItsWay
<1>h. ASSUME NEW r \in Requests, ~WillArm(r), NEW q, req' = [req EXCEPT ![r] = q]
      PROVE  \A s \in Requests : WillArm(s) => WillArm(s)'
  BY <1>h, <1>a DEF WillArm
<1>i. ASSUME UNCHANGED req PROVE \A s \in Requests : WillArm(s) => WillArm(s)'
  BY <1>i DEF WillArm
<1>j. ASSUME \A i \in Pending : offset[i] # NoOffset => OnItsWay(i)', UNCHANGED <<opened, offset>>
      PROVE  OwedIsComing'
  BY <1>j DEF OwedIsComing, Owes, Pending
<1>1. ASSUME Time \/ UNCHANGED vars PROVE OwedIsComing'
  BY <1>1, <1>c, <1>f, <1>g, <1>i DEF Time, Tick, vars, clockVars, scheduleVars
<1>2. ASSUME NEW r \in Requests, Lifecycle(r) PROVE OwedIsComing'
  <2>1. CASE \E target \in {"active", "paused", "completed"} : TransitionRead(r, target)
    <3>1. ~WillArm(r)
      BY <2>1 DEF TransitionRead, WillArm, Idle
    <3>2. PICK target : TransitionRead(r, target)
      BY <2>1
    <3>3. \A s \in Requests : WillArm(s) => WillArm(s)'
      BY <1>h, <3>1, <3>2 DEF TransitionRead
    <3> QED
      BY <1>2, <3>2, <3>3, <1>c, <1>f, <1>g DEF Lifecycle, TransitionRead, scheduleVars
  <2>2. CASE TransitionCommit(r, IF req[r].target = "active" THEN [op |-> "reload"] ELSE Idle)
    <3>1. CASE req[r].target = "active"
      <4>1. req'[r].op = "reload"
        BY <1>a, <2>2, <3>1 DEF TransitionCommit
      <4> QED
        BY <4>1 DEF OwedIsComing, WillArm
    <3>2. CASE req[r].target # "active"
      BY <1>d, <2>2, <3>2 DEF TransitionCommit, Paced
    <3> QED
      BY <3>1, <3>2
  <2> QED
    BY <1>2, <2>1, <2>2 DEF Lifecycle
<1>3. ASSUME NEW r \in Requests, Reload(r) PROVE OwedIsComing'
  <2>1. CASE row.state = "active"
    <3>1. req'[r] = [op |-> "arm", seen |-> row]
      BY <1>3, <1>a DEF Reload
    <3> QED
      BY <2>1, <3>1 DEF OwedIsComing, WillArm
  <2> QED
    BY <1>3, <1>d, <2>1 DEF Reload
<1>4. ASSUME NEW r \in Requests, Arm(r) PROVE OwedIsComing'
  <2>1. CASE req[r].seen.state = "active"
    <3>1. req[r].seen \in Row
      BY <1>4, <1>a DEF Arm, ScheduleRequest, Idle, Transition
    <3>2. \A i \in Pending : offset[i] # NoOffset => OnItsWay(i)'
      BY <1>4, <1>a, <2>1, <3>1, Rearmed DEF Arm
    <3> QED
      BY <1>4, <1>j, <3>2 DEF Arm
  <2>2. CASE req[r].seen.state # "active"
    <3>1. ~WillArm(r)
      BY <1>4, <2>2 DEF Arm, WillArm
    <3> QED
      BY <1>4, <2>2, <3>1, <1>c, <1>f, <1>g, <1>h DEF Arm
  <2> QED
    BY <2>1, <2>2
<1>5. ASSUME NEW r \in Requests, AnswerCommit(r) PROVE OwedIsComing'
  <2>1. req[r].inject \in Injects /\ req[r].seen \in Row /\ ~WillArm(r)
    BY <1>5, <1>a DEF AnswerCommit, ScheduleRequest, Idle, Transition, WillArm
  <2>2. PICK next : cursor' = next /\ Enqueue(ReachedTimed(req[r].inject, next), req[r].seen)
    BY <1>5 DEF AnswerCommit
  <2>3. /\ ReachedTimed(req[r].inject, next) \in SUBSET Injects
        /\ \A k \in ReachedTimed(req[r].inject, next) : offset[k] \in Nat
    BY <1>a DEF ReachedTimed, Pending
  <2>4. /\ \A j \in Jobs : jobs'[j] = jobs[j]
                           \/ (jobs[j] = Free /\ jobs'[j] # Free /\ jobs'[j].at = "todo")
        /\ \A k \in ReachedTimed(req[r].inject, next) : \E j \in Jobs :
              jobs'[j] # Free /\ jobs'[j].at = "todo" /\ jobs'[j].inject = k
    BY <1>a, <2>1, <2>2, <2>3, Enqueued
  <2>5. UNCHANGED <<row, opened, offset, enrolled, repair>>
    BY <1>5 DEF AnswerCommit
  <2>6. ASSUME NEW i \in Injects, Owes(i)', i # next PROVE Owes(i)
    BY <2>2, <2>5, <2>6 DEF Owes, Pending, Gate
  <2>7. ASSUME NEW i \in Injects, Owes(i)', i = next PROVE OnItsWay(i)'
    <3>1. i \in ReachedTimed(req[r].inject, next)
      BY <2>5, <2>7 DEF Owes, Pending, ReachedTimed
    <3> QED
      BY <2>4, <3>1 DEF OnItsWay
  <2> QED
    BY <1>5, <1>c, <1>g, <1>h, <2>1, <2>4, <2>5, <2>6, <2>7 DEF AnswerCommit
<1>6. ASSUME NEW r \in Requests, Refuse(r) PROVE OwedIsComing'
  <2>1. ~WillArm(r)
    BY <1>6 DEF Refuse, WillArm
  <2> QED
    BY <1>6, <2>1, <1>c, <1>f, <1>g, <1>h DEF Refuse, scheduleVars
<1>7. ASSUME NEW r \in Requests, ArmFails(r) PROVE OwedIsComing'
  BY <1>7, <1>e DEF ArmFails
<1>8. ASSUME NEW r \in Requests, NEW i \in Injects, AnswerRead(r, i) PROVE OwedIsComing'
  <2>1. ~WillArm(r)
    BY <1>8 DEF AnswerRead, WillArm, Idle
  <2> QED
    BY <1>8, <2>1, <1>c, <1>f, <1>g, <1>h DEF AnswerRead, scheduleVars
<1>9. CASE Enrol
  BY <1>9, <1>d DEF Enrol, clockVars
<1>10. ASSUME NEW i \in Injects, ReleaseByHand(i) PROVE OwedIsComing'
  <2>1. \A k \in Injects : Owes(k)' => Owes(k)
    BY <1>10, <1>a DEF ReleaseByHand, clockVars, Owes, Pending, Gate
  <2> QED
    BY <1>10, <2>1, <1>c, <1>g, <1>i DEF ReleaseByHand, clockVars
<1>11. ASSUME NEW i \in Injects, NEW value \in NewOffsets, EditOffset(i, value) PROVE OwedIsComing'
  <2>1. UNCHANGED <<row, opened, enrolled, cursor, repair, req>>
    BY <1>11 DEF EditOffset, clockVars
  <2>2. offset' = [offset EXCEPT ![i] = value]
    BY <1>11 DEF EditOffset
  <2>3. \A j \in Jobs : jobs'[j] = jobs[j]
            \/ (jobs[j] = Free /\ jobs'[j] # Free /\ jobs'[j].at = "todo")
    BY <1>11, <1>a DEF EditOffset, Free
  <2>4. ASSUME NEW k \in Injects, Owes(k)', k # i PROVE Owes(k)
    BY <1>a, <2>1, <2>2, <2>4 DEF Owes, Pending, Gate
  <2>5. ASSUME Owes(i)' PROVE OnItsWay(i)'
    <3>1. row.state = "active" /\ value # NoOffset
      BY <1>a, <2>1, <2>2, <2>5 DEF Owes
    <3> QED
      BY <1>11, <1>a, <3>1 DEF EditOffset, OnItsWay, Free
  <2> QED
    BY <1>c, <1>g, <1>i, <2>1, <2>3, <2>4, <2>5
\* What a worker's own step says of its job and its inject.
<1>12. ASSUME NEW j \in Jobs, NEW v, jobs' = [jobs EXCEPT ![j] = v],
              UNCHANGED <<row, offset, enrolled, cursor, repair, req>>,
              \A i \in Injects : opened'[i] = "pending" => opened[i] = "pending",
              \/ v # Free /\ v.inject = jobs[j].inject /\ v.at # "leaving"
              \/ jobs[j].at = "leaving"
              \/ \A i \in Injects : i = jobs[j].inject => ~Owes(i)'
       PROVE  OwedIsComing'
  <2>1. \A i \in Injects : Owes(i)' => Owes(i)
    BY <1>12 DEF Owes, Pending, Gate
  <2>2. ASSUME NEW i \in Injects, Owes(i)', OnItsWay(i) PROVE OnItsWay(i)'
    <3>1. PICK k \in Jobs : jobs[k] # Free /\ jobs[k].inject = i /\ jobs[k].at # "leaving"
      BY <2>2 DEF OnItsWay
    <3>2. CASE k = j
      <4>1. v # Free /\ v.inject = i /\ v.at # "leaving"
        BY <1>12, <2>2, <3>1, <3>2
      <4> QED
        BY <1>12, <1>a, <4>1 DEF OnItsWay
    <3>3. CASE k # j
      BY <1>12, <1>a, <3>1, <3>3 DEF OnItsWay
    <3> QED
      BY <3>2, <3>3
  <2> QED
    BY <1>12, <1>c, <1>i, <2>1, <2>2
<1>13. ASSUME NEW j \in Jobs, Worker(j) \/ RetryStalled(j) PROVE OwedIsComing'
  <2>1. CASE Fetch(j)
    BY <2>1, <1>12 DEF Fetch, SetJob, clockVars, Free
  <2>2. CASE Decide(j)
    <3> DEFINE i == jobs[j].inject
               v == IF i \notin Pending \/ row.state # "active" \/ offset[i] = NoOffset
                       \/ (~TooEarly(i) /\ ~Gate(i))
                    THEN [at |-> "leaving", inject |-> i]
                    ELSE IF TooEarly(i)
                         THEN [at |-> "redefer", inject |-> i, due |-> DueAt(row, offset[i])]
                    ELSE [at |-> "release", inject |-> i]
    <3>1. /\ jobs' = [jobs EXCEPT ![j] = v]
          /\ UNCHANGED <<row, offset, enrolled, cursor, repair, req, opened>>
      BY <2>2 DEF Decide, SetJob, clockVars
    <3>2. v # Free /\ v.inject = i /\ (v.at # "leaving" \/ ~Owes(i))
      BY DEF Owes, Free
    <3>3. \A k \in Injects : Owes(k)' = Owes(k)
      BY <3>1, <1>f
    <3> HIDE DEF v
    <3> QED
      BY <3>1, <3>2, <3>3, <1>12
  <2>3. CASE Leave(j)
    BY <2>3, <1>12 DEF Leave, Finish, SetJob, clockVars
  <2>4. CASE Redefer(j)
    <3>1. jobs[j] \in [at : {"todo", "redefer"}, inject : Injects, due : Nat]
      BY <1>a, <2>4 DEF Redefer, Job, Free
    <3>2. PICK v : /\ jobs' = [jobs EXCEPT ![j] = v]
                   /\ v # Free /\ v.inject = jobs[j].inject /\ v.at # "leaving"
      <4>1. /\ [jobs[j] EXCEPT !.at = "todo"] # Free
            /\ [jobs[j] EXCEPT !.at = "todo"].inject = jobs[j].inject
            /\ [jobs[j] EXCEPT !.at = "todo"].at # "leaving"
        BY <3>1 DEF Free
      <4> QED
        BY <2>4, <4>1 DEF Redefer, SetJob
    <3> QED
      BY <2>4, <3>2, <1>12 DEF Redefer, SetJob, clockVars
  <2>5. CASE ReleaseByClock(j)
    <3>1. CASE DieFinishing(j)
      BY <3>1, <1>e DEF DieFinishing
    <3>2. CASE Finish(j)
      <4>1. /\ jobs' = [jobs EXCEPT ![j] = Free]
            /\ UNCHANGED <<row, offset, enrolled, cursor, repair, req>>
        BY <3>2 DEF Finish, SetJob, clockVars
      <4>2. \A i \in Injects : opened'[i] = "pending" => opened[i] = "pending"
        BY <2>5, <1>a DEF ReleaseByClock
      <4>3. \A i \in Injects : i = jobs[j].inject => ~Owes(i)'
        BY <2>5, <1>a, <4>1 DEF ReleaseByClock, Owes, Pending, Gate
      <4> QED
        BY <1>12, <4>1, <4>2, <4>3
    <3> QED
      BY <2>5, <3>1, <3>2 DEF ReleaseByClock
  <2>6. CASE RetryStalled(j)
    BY <2>6, <1>12 DEF RetryStalled, SetJob, clockVars, Free
  <2> QED
    BY <1>13, <2>1, <2>2, <2>3, <2>4, <2>5, <2>6 DEF Worker
<1>14. CASE Crash
  BY <1>14, <1>e DEF Crash
<1>15. CASE Reconcile
  <2>1. CASE row.state = "active"
    <3>1. \A i \in Pending : offset[i] # NoOffset => OnItsWay(i)'
      BY <1>15, <1>a, <2>1, Rearmed DEF Reconcile
    <3> QED
      BY <1>15, <1>j, <3>1 DEF Reconcile
  <2> QED
    BY <1>15, <1>d, <2>1 DEF Reconcile, clockVars
<1> QED
  BY <1>1, <1>2, <1>3, <1>4, <1>5, <1>6, <1>7, <1>8, <1>9, <1>10, <1>11, <1>13, <1>14, <1>15
     DEF Next

\* With the roster closed at the start, a timed inject that the cursor allows
\* has a job on its way unless the request that writes one is still to come or
\* an arming was lost since the last process started.
THEOREM NoScheduleIsStranded ==
    ASSUME LateRoster = FALSE
    PROVE  Spec => []NoStrandedSchedule
<1>1. Init => OwedIsComing
  BY DEF Init, ClockInit, OwedIsComing, Owes
<1>2. Inv /\ OwedIsComing /\ [Next]_vars => OwedIsComing'
  BY OwedIsComingStays
<1>3. OwedIsComing => NoStrandedSchedule
  BY DEF OwedIsComing, OnItsWay, WillArm, NoStrandedSchedule
<1> QED
  BY <1>1, <1>2, <1>3, InitInv, Step, PTL DEF Spec

-----------------------------------------------------------------------------
(* Jobs are early.  When lifecycle requests come one after another a resume *)
(* only ever lengthens the pauses, and when no offset is edited a job that  *)
(* was written for a deadline comes up no later than the present one.       *)

OneAtATime == \A r, s \in Requests : r = s

\* What a request has read is what there is.
Current ==
    \A r \in Requests :
       /\ req[r].op \in {"transition", "arm", "answer"} => req[r].seen = row
       /\ req[r].op = "answer" => row.state = "active"

Waits(j) == jobs[j].at \in {"todo", "redefer"} /\ offset[jobs[j].inject] # NoOffset
InTime(j) == Waits(j) => \/ jobs[j].due <= now
                         \/ jobs[j].due <= row.startedAt + row.total + offset[jobs[j].inject]
Timely ==
    /\ row.state = "draft" => \A j \in Jobs : jobs[j] = Free
    /\ row.state \in {"active", "paused"} => \A j \in Jobs : InTime(j)

\* The deadline of an active exercise, and what arming writes for it.
LEMMA DueAtDeadline ==
    ASSUME now \in Nat, NEW x \in Row, NEW minutes \in Nat
    PROVE  /\ DueAt(x, minutes) \in Nat
           /\ DueAt(x, minutes) <= now \/ DueAt(x, minutes) <= x.startedAt + x.total + minutes
           /\ now <= DueAt(x, minutes) /\ x.startedAt + x.total + minutes <= DueAt(x, minutes)
<1>1. x.startedAt \in Int /\ x.total \in Nat
  BY DEF Row, Times, NoTime
<1> QED BY <1>1 DEF DueAt, Remaining, Elapsed

\* A written job carries the deadline of its inject.
LEMMA EnqueuedInTime ==
    ASSUME now \in Nat, jobs \in [Jobs -> Job], NEW I \in SUBSET Injects, NEW x \in Row,
           \A i \in I : offset[i] \in Nat, Enqueue(I, x)
    PROVE  \A j \in Jobs :
              \/ jobs'[j] = jobs[j]
              \/ \E i \in I : /\ jobs'[j].at = "todo" /\ jobs'[j].inject = i
                              /\ jobs'[j].due = DueAt(x, offset[i])
<1> DEFINE new(i) == [at |-> "todo", inject |-> i, due |-> DueAt(x, offset[i])]
<1>1. PICK slot \in [I -> { j \in Jobs : jobs[j] = Free }] :
         jobs' = [j \in Jobs |-> IF \E i \in I : slot[i] = j
                                 THEN LET i == CHOOSE i \in I : slot[i] = j IN new(i)
                                 ELSE jobs[j]]
  BY DEF Enqueue
<1>2. \A i \in I : /\ new(i).at = "todo" /\ new(i).inject = i
                   /\ new(i).due = DueAt(x, offset[i])
  OBVIOUS
<1> HIDE DEF new
<1>3. \A j \in Jobs : jobs'[j] = jobs[j] \/ \E i \in I : jobs'[j] = new(i)
  <2> TAKE j \in Jobs
  <2>1. CASE \E i \in I : slot[i] = j
    <3>1. (CHOOSE i \in I : slot[i] = j) \in I
      BY <2>1
    <3> QED BY <1>1, <2>1, <3>1
  <2>2. CASE ~ \E i \in I : slot[i] = j
    BY <1>1, <2>2
  <2> QED BY <2>1, <2>2
<1> QED BY <1>2, <1>3

\* With one request at a time nothing changes the row it has read.
LEMMA CurrentStays ==
    ASSUME OneAtATime, Inv, Current, [Next]_vars
    PROVE  Current'
<1>a. req \in [Requests -> ScheduleRequest]
  BY DEF Inv, TypeOK
<1>1. ASSUME UNCHANGED <<row, req>> PROVE Current'
  BY <1>1 DEF Current
<1>2. ASSUME NEW r \in Requests, NEW q, req' = [req EXCEPT ![r] = q],
             \/ q.op \notin {"transition", "arm", "answer"}
             \/ row' = row /\ q.seen = row /\ (q.op = "answer" => row.state = "active")
      PROVE  Current'
  <2>1. \A s \in Requests : req'[s] = q
    BY <1>2, <1>a DEF OneAtATime
  <2> QED BY <1>2, <2>1 DEF Current
<1>3. ASSUME NEW r \in Requests, Lifecycle(r) PROVE Current'
  <2>1. CASE \E target \in {"active", "paused", "completed"} : TransitionRead(r, target)
    <3>1. PICK target : /\ req' = [req EXCEPT ![r] = [op |-> "transition", seen |-> row,
                                                      target |-> target, read |-> now]]
                        /\ row' = row
      BY <2>1 DEF TransitionRead
    <3> DEFINE q == [op |-> "transition", seen |-> row, target |-> target, read |-> now]
    <3>2. req' = [req EXCEPT ![r] = q]
      BY <3>1
    <3>3. q.seen = row /\ q.op = "transition"
      OBVIOUS
    <3> HIDE DEF q
    <3> QED BY <1>2, <3>1, <3>2, <3>3
  <2>2. CASE TransitionCommit(r, IF req[r].target = "active" THEN [op |-> "reload"] ELSE Idle)
    <3> DEFINE q == IF req[r].target = "active" THEN [op |-> "reload"] ELSE Idle
    <3>1. req' = [req EXCEPT ![r] = q]
      BY <2>2 DEF TransitionCommit
    <3>2. q.op \in {"reload", "idle"}
      BY DEF Idle
    <3> HIDE DEF q
    <3> QED BY <1>2, <3>1, <3>2
  <2> QED BY <1>3, <2>1, <2>2 DEF Lifecycle
<1>4. ASSUME NEW r \in Requests, Reload(r) PROVE Current'
  <2> DEFINE q == [op |-> "arm", seen |-> row]
  <2>1. req' = [req EXCEPT ![r] = q] /\ row' = row
    BY <1>4 DEF Reload
  <2>2. q.op = "arm" /\ q.seen = row
    OBVIOUS
  <2> HIDE DEF q
  <2> QED BY <1>2, <2>1, <2>2
<1>5. ASSUME NEW r \in Requests, Arm(r) \/ AnswerCommit(r) \/ Refuse(r) \/ ArmFails(r) PROVE Current'
  <2>1. req' = [req EXCEPT ![r] = Idle] /\ Idle.op = "idle"
    BY <1>5 DEF Arm, AnswerCommit, Refuse, ArmFails, Idle
  <2> QED BY <1>2, <2>1
<1>6. ASSUME NEW r \in Requests, NEW i \in Injects, AnswerRead(r, i) PROVE Current'
  <2> DEFINE q == [op |-> "answer", inject |-> i, seen |-> row]
  <2>1. req' = [req EXCEPT ![r] = q] /\ row' = row /\ row.state = "active"
    BY <1>6 DEF AnswerRead
  <2>2. q.op = "answer" /\ q.seen = row
    OBVIOUS
  <2> HIDE DEF q
  <2> QED BY <1>2, <2>1, <2>2
<1>7. CASE Crash
  <2>1. row' = row /\ \A r \in Requests : req'[r] = Idle \/ req'[r] = req[r]
    BY <1>7 DEF Crash
  <2> QED BY <2>1 DEF Current, Idle
<1>8. ASSUME \/ Time \/ Enrol \/ Reconcile \/ UNCHANGED vars
             \/ \E i \in Injects : ReleaseByHand(i) \/ \E value \in NewOffsets : EditOffset(i, value)
             \/ \E j \in Jobs : Worker(j) \/ RetryStalled(j)
      PROVE  UNCHANGED <<row, req>>
  BY <1>8 DEF Time, Tick, Enrol, Reconcile, ReleaseByHand, EditOffset, Worker, Fetch, Decide, Leave,
              Redefer, ReleaseByClock, RetryStalled, Finish, DieFinishing, SetJob, vars, clockVars
<1> QED BY <1>1, <1>3, <1>4, <1>5, <1>6, <1>7, <1>8 DEF Next

\* A waiting job stays no later than the deadline, through pauses and resumes.
LEMMA TimelyStays ==
    ASSUME OneAtATime, Editable = {}, Inv, Current, Timely, [Next]_vars
    PROVE  Timely'
<1>a. /\ now \in Nat /\ row \in Row /\ now' \in Nat
      /\ req \in [Requests -> ScheduleRequest] /\ jobs \in [Jobs -> Job]
      /\ offset \in [Injects -> Nat \cup {NoOffset}]
      /\ Measured(row)
  BY Step DEF Inv, ClockHolds, TypeOK, StaleRowsAreSafe
<1>b. \A j \in Jobs : Waits(j) => /\ jobs[j].inject \in Injects /\ jobs[j].due \in Nat
                                  /\ offset[jobs[j].inject] \in Nat
  BY <1>a DEF Waits, Job, Free
<1>c. row.startedAt \in Int /\ row.total \in Nat
  BY <1>a DEF Row, Times, NoTime
<1>f. ~(Free.at \in {"todo", "redefer"})
  BY DEF Free
\* Most steps leave the clock's row alone.
<1>s. ASSUME UNCHANGED <<row, offset>>, now <= now', row.state = "draft" => jobs' = jobs,
             \A j \in Jobs : jobs'[j] = jobs[j] \/ InTime(j)'
      PROVE  Timely'
  <2>1. ASSUME NEW j \in Jobs, jobs'[j] = jobs[j], InTime(j) PROVE InTime(j)'
    BY <1>a, <1>b, <1>s, <2>1 DEF InTime, Waits
  <2> QED BY <1>s, <2>1 DEF Timely
<1>e. ASSUME UNCHANGED <<row, offset, now>>, row.state = "active", NEW I \in SUBSET Injects,
             \A i \in I : offset[i] \in Nat, Enqueue(I, row)
      PROVE  Timely'
  <2>1. ASSUME NEW j \in Jobs, jobs'[j] # jobs[j] PROVE InTime(j)'
    <3>1. PICK i \in I : /\ jobs'[j].inject = i /\ jobs'[j].due = DueAt(row, offset[i])
      BY <1>a, <1>e, <2>1, EnqueuedInTime
    <3>2. DueAt(row, offset[i]) <= now \/ DueAt(row, offset[i]) <= row.startedAt + row.total + offset[i]
      BY <1>a, <1>e, DueAtDeadline
    <3> QED BY <1>e, <3>1, <3>2 DEF InTime
  <2> QED BY <1>a, <1>e, <1>s, <2>1
<1>1. CASE Time
  BY <1>1, <1>a, <1>s DEF Time, Tick, scheduleVars
<1>2. ASSUME NEW r \in Requests, Lifecycle(r) PROVE Timely'
  <2>1. CASE \E target \in {"active", "paused", "completed"} : TransitionRead(r, target)
    <3>1. UNCHANGED <<row, offset, jobs, now>>
      BY <1>2, <2>1 DEF Lifecycle, TransitionRead, scheduleVars
    <3> QED BY <1>a, <1>s, <3>1
  <2>2. CASE TransitionCommit(r, IF req[r].target = "active" THEN [op |-> "reload"] ELSE Idle)
    <3> DEFINE target == req[r].target
    <3>0. PICK stamp \in req[r].read .. now : row' = Paced(req[r].seen, target, stamp)
      BY <2>2 DEF TransitionCommit
    <3>1. /\ req[r].op = "transition" /\ row' = Paced(req[r].seen, target, stamp)
          /\ <<req[r].seen.state, target>> \in ValidTransitions
          /\ UNCHANGED <<now, offset, jobs>>
      BY <1>2, <2>2, <3>0 DEF Lifecycle, TransitionCommit, scheduleVars
    <3>2. req[r].seen = row
      BY <3>1 DEF Current
    <3>r. stamp \in Nat /\ (row.state = "paused" => row.pausedAt <= stamp)
      <4>1. req[r] \in Transition /\ ReadInTime(req[r])
        BY <3>1 DEF Inv, ClockHolds
      <4>2. req[r].read \in Nat /\ (row.state = "paused" => row.pausedAt <= req[r].read)
        BY <3>2, <4>1 DEF Transition, ReadInTime
      <4>3. row.pausedAt \in Int
        BY <1>a DEF Row, Times, NoTime
      <4> QED BY <1>a, <3>0, <4>2, <4>3
    <3> HIDE DEF target
    <3>3. row' = Paced(row, target, stamp) /\ <<row.state, target>> \in ValidTransitions
      BY <3>1, <3>2
    <3>4. CASE row.state = "draft"
      <4>1. \A j \in Jobs : jobs'[j] = Free
        BY <3>1, <3>4 DEF Timely
      <4> QED BY <1>f, <4>1 DEF Timely, InTime, Waits
    <3>5. CASE row.state \in {"active", "paused"} /\ target = "completed"
      BY <3>3, <3>5 DEF Timely, Paced
    <3>6. CASE row.state = "active" /\ target = "paused"
      <4>1. row'.state = "paused" /\ row'.startedAt = row.startedAt /\ row'.total = row.total
        BY <3>3, <3>6 DEF Paced
      <4>2. ASSUME NEW j \in Jobs, InTime(j) PROVE InTime(j)'
        BY <3>1, <4>1, <4>2 DEF InTime, Waits
      <4> QED BY <3>6, <4>1, <4>2 DEF Timely
    <3>7. CASE row.state = "paused" /\ target = "active"
      <4>1. /\ row'.state = "active" /\ row'.startedAt = row.startedAt
            /\ row'.total = row.total + (stamp - row.pausedAt)
        BY <1>a, <3>3, <3>7 DEF Paced, PauseTotal, Measured
      <4>2. row.pausedAt \in Int /\ row.pausedAt <= stamp
        BY <1>a, <3>7, <3>r DEF Row, Times, NoTime
      <4>3. ASSUME NEW j \in Jobs, InTime(j) PROVE InTime(j)'
        <5>1. Waits(j)' = Waits(j) /\ jobs'[j] = jobs[j] /\ now' = now
              /\ offset' = offset
          BY <3>1 DEF Waits
        <5>2. CASE Waits(j)
          <6> DEFINE due == jobs[j].due
                     lead == offset[jobs[j].inject]
          <6>1. due \in Nat /\ lead \in Nat
            BY <1>b, <5>2
          <6>2. due <= now \/ due <= row.startedAt + row.total + lead
            BY <4>3, <5>2 DEF InTime
          <6>3. stamp - row.pausedAt >= 0
            BY <3>r, <4>2
          <6> HIDE DEF due, lead
          <6>4. due <= now \/ due <= row.startedAt + (row.total + (stamp - row.pausedAt)) + lead
            BY <1>a, <1>c, <3>r, <4>2, <6>1, <6>2, <6>3
          <6> QED BY <4>1, <5>1, <6>4 DEF InTime, due, lead
        <5> QED BY <5>1, <5>2 DEF InTime
      <4> QED BY <3>7, <4>1, <4>3 DEF Timely
    <3> QED BY <3>3, <3>4, <3>5, <3>6, <3>7 DEF ValidTransitions
  <2> QED BY <1>2, <2>1, <2>2 DEF Lifecycle
<1>3. ASSUME NEW r \in Requests, Arm(r) PROVE Timely'
  <2>1. req[r].seen = row /\ UNCHANGED <<row, offset, now>>
    BY <1>3 DEF Arm, Current
  <2>2. CASE row.state = "active"
    <3>1. Unarmed \in SUBSET Injects /\ \A i \in Unarmed : offset[i] \in Nat
      BY <1>a DEF Unarmed, Pending
    <3> QED BY <1>3, <1>e, <2>1, <2>2, <3>1 DEF Arm
  <2>3. CASE row.state # "active"
    BY <1>3, <1>a, <1>s, <2>1, <2>3 DEF Arm
  <2> QED BY <2>2, <2>3
<1>4. ASSUME NEW r \in Requests, AnswerCommit(r) PROVE Timely'
  <2>1. req[r].seen = row /\ row.state = "active" /\ UNCHANGED <<row, offset, now>>
    BY <1>4 DEF AnswerCommit, Current
  <2>2. PICK next : Enqueue(ReachedTimed(req[r].inject, next), row)
    BY <1>4, <2>1 DEF AnswerCommit
  <2>3. /\ ReachedTimed(req[r].inject, next) \in SUBSET Injects
        /\ \A k \in ReachedTimed(req[r].inject, next) : offset[k] \in Nat
    BY <1>a DEF ReachedTimed, Pending
  <2> QED BY <1>e, <2>1, <2>2, <2>3
<1>5. CASE Reconcile
  <2>1. UNCHANGED <<row, offset, now>>
    BY <1>5 DEF Reconcile, clockVars
  <2>2. CASE row.state = "active"
    <3>1. Unarmed \in SUBSET Injects /\ \A i \in Unarmed : offset[i] \in Nat
      BY <1>a DEF Unarmed, Pending
    <3> QED BY <1>5, <1>e, <2>1, <2>2, <3>1 DEF Reconcile
  <2>3. CASE row.state # "active"
    BY <1>5, <1>a, <1>s, <2>1, <2>3 DEF Reconcile
  <2> QED BY <2>2, <2>3
<1>6. ASSUME NEW j \in Jobs, NEW v, jobs[j] # Free, jobs' = [jobs EXCEPT ![j] = v],
             UNCHANGED <<row, offset, now>>,
             \/ v.at \notin {"todo", "redefer"}
             \/ v.due <= now
             \/ v.inject \in Injects /\ v.due <= row.startedAt + row.total + offset[v.inject]
             \/ /\ jobs[j].at \in {"todo", "redefer"} /\ v.inject = jobs[j].inject
                /\ v.due = jobs[j].due
      PROVE  Timely'
  <2>1. row.state # "draft"
    BY <1>6 DEF Timely
  <2>2. jobs'[j] = v /\ \A k \in Jobs : k # j => jobs'[k] = jobs[k]
    BY <1>6, <1>a
  <2>3. CASE row.state \in {"active", "paused"}
    <3>1. InTime(j)'
      BY <1>6, <2>2, <2>3 DEF Timely, InTime, Waits
    <3> QED BY <1>6, <1>a, <1>s, <2>1, <2>2, <3>1
  <2>4. CASE row.state = "completed"
    BY <1>6, <2>4 DEF Timely
  <2> QED BY <1>a, <2>1, <2>3, <2>4 DEF Row, States
<1>7. ASSUME NEW j \in Jobs, Decide(j) PROVE Timely'
  <2> DEFINE i == jobs[j].inject
             v == IF i \notin Pending \/ row.state # "active" \/ offset[i] = NoOffset
                     \/ (~TooEarly(i) /\ ~Gate(i))
                  THEN [at |-> "leaving", inject |-> i]
                  ELSE IF TooEarly(i)
                       THEN [at |-> "redefer", inject |-> i, due |-> DueAt(row, offset[i])]
                  ELSE [at |-> "release", inject |-> i]
  <2>1. /\ jobs' = [jobs EXCEPT ![j] = v] /\ jobs[j] # Free
        /\ UNCHANGED <<row, offset, now>>
    BY <1>7 DEF Decide, SetJob, clockVars, Free
  <2>2. \/ v.at \notin {"todo", "redefer"}
        \/ i \in Pending /\ offset[i] # NoOffset /\ v.inject = i /\ v.due = DueAt(row, offset[i])
    OBVIOUS
  <2>3. i \in Pending /\ offset[i] # NoOffset => i \in Injects /\ offset[i] \in Nat
    BY <1>a DEF Pending
  <2> HIDE DEF v, i
  <2> QED BY <1>6, <1>a, <2>1, <2>2, <2>3, DueAtDeadline
<1>8. ASSUME NEW j \in Jobs, Fetch(j) \/ Leave(j) \/ ReleaseByClock(j) PROVE Timely'
  <2>1. PICK v : /\ jobs' = [jobs EXCEPT ![j] = v] /\ v.at \notin {"todo", "redefer"}
                 /\ UNCHANGED <<row, offset, now>> /\ jobs[j] # Free
    BY <1>8, <1>f DEF Fetch, Leave, ReleaseByClock, Finish, DieFinishing, SetJob, clockVars, Free
  <2> QED BY <1>6, <2>1
<1>9. ASSUME NEW j \in Jobs, RetryStalled(j) PROVE Timely'
  <2> DEFINE v == [at |-> "todo", inject |-> jobs[j].inject, due |-> now]
  <2>1. /\ jobs' = [jobs EXCEPT ![j] = v] /\ jobs[j].at = "stalled"
        /\ UNCHANGED <<row, offset, now>>
    BY <1>9 DEF RetryStalled, SetJob, clockVars
  <2>2. v.due <= now /\ jobs[j] # Free
    BY <1>a, <2>1 DEF Free
  <2> HIDE DEF v
  <2> QED BY <1>6, <2>1, <2>2
<1>10. ASSUME NEW j \in Jobs, Redefer(j) PROVE Timely'
  <2>1. jobs[j] \in [at : {"todo", "redefer"}, inject : Injects, due : Nat]
    BY <1>a, <1>10 DEF Redefer, Job, Free
  <2>2. PICK v : v = [jobs[j] EXCEPT !.at = "todo"]
    OBVIOUS
  <2>3. v.inject = jobs[j].inject /\ v.due = jobs[j].due
    BY <2>1, <2>2
  <2>4. /\ jobs' = [jobs EXCEPT ![j] = v] /\ jobs[j] # Free /\ jobs[j].at = "redefer"
        /\ UNCHANGED <<row, offset, now>>
    BY <1>10, <2>2 DEF Redefer, SetJob, clockVars, Free
  <2> QED BY <1>6, <2>3, <2>4
<1>11. CASE Crash
  <2>1. /\ UNCHANGED <<row, offset, now>>
        /\ \A j \in Jobs : \/ jobs'[j] = jobs[j]
                           \/ jobs[j] # Free /\ jobs'[j].at = "stalled"
    BY <1>11 DEF Crash, Free
  <2>2. \A j \in Jobs : jobs'[j] = jobs[j] \/ InTime(j)'
    BY <2>1 DEF InTime, Waits
  <2>3. row.state = "draft" => jobs' = jobs
    BY <1>a, <1>11, <2>1 DEF Crash, Timely
  <2> QED BY <1>a, <1>s, <2>1, <2>2, <2>3
<1>12. ASSUME \/ Enrol \/ UNCHANGED vars
              \/ \E i \in Injects : ReleaseByHand(i)
              \/ \E r \in Requests : \/ Reload(r) \/ Refuse(r) \/ ArmFails(r)
                                     \/ \E i \in Injects : AnswerRead(r, i)
       PROVE  UNCHANGED <<row, offset, now, jobs>>
  BY <1>12 DEF Enrol, ReleaseByHand, Reload, Refuse, ArmFails, AnswerRead, vars, clockVars, scheduleVars
<1>13. ASSUME UNCHANGED <<row, offset, now, jobs>> PROVE Timely'
  BY <1>13, <1>a, <1>s
<1>14. \A i \in Injects : \A value \in NewOffsets : ~EditOffset(i, value)
  BY DEF EditOffset
<1> QED
  BY <1>1, <1>2, <1>3, <1>4, <1>5, <1>7, <1>8, <1>9, <1>10, <1>11, <1>12, <1>13, <1>14
     DEF Next, Worker

\* While lifecycle requests come one after another and nobody edits an offset,
\* the job that is on its way for an owed inject is in hand or comes up no later
\* than the inject is due: skipping what has a waiting job never costs time.
THEOREM ArmedJobsAreInTime ==
    ASSUME LateRoster = FALSE, OneAtATime, Editable = {}
    PROVE  Spec => []ArmedInTime
<1>1. Init => OwedIsComing /\ Current /\ Timely
  BY DEF Init, ClockInit, OwedIsComing, Owes, Current, Timely, Idle
<1>2. Inv /\ OwedIsComing /\ Current /\ Timely /\ [Next]_vars => OwedIsComing' /\ Current' /\ Timely'
  BY OwedIsComingStays, CurrentStays, TimelyStays
<1>3. Inv /\ OwedIsComing /\ Timely => ArmedInTime
  <2> SUFFICES ASSUME Inv, OwedIsComing, Timely, NEW i \in Injects, Owes(i), repair = "none",
                      \A r \in Requests : req[r].op \notin {"reload", "arm"}
               PROVE  \E j \in Jobs :
                         /\ jobs[j] # Free /\ jobs[j].inject = i /\ jobs[j].at # "leaving"
                         /\ jobs[j].at = "todo" => jobs[j].due <= DueAt(row, offset[i])
    BY DEF ArmedInTime, Inv, TypeOK
  <2>1. PICK j \in Jobs : jobs[j] # Free /\ jobs[j].inject = i /\ jobs[j].at # "leaving"
    BY DEF OwedIsComing, OnItsWay, WillArm
  <2>2. /\ now \in Nat /\ row \in Row /\ offset[i] \in Nat /\ row.state = "active"
        /\ offset[i] # NoOffset /\ jobs[j] \in Job
    BY DEF Inv, TypeOK, Owes
  <2>3. ASSUME jobs[j].at = "todo" PROVE jobs[j].due <= DueAt(row, offset[i])
    <3>1. jobs[j].due \in Nat
      BY <2>1, <2>2, <2>3 DEF Job
    <3>2. jobs[j].due <= now \/ jobs[j].due <= row.startedAt + row.total + offset[i]
      BY <2>1, <2>2, <2>3 DEF Timely, InTime, Waits
    <3>3. /\ DueAt(row, offset[i]) \in Nat /\ now <= DueAt(row, offset[i])
          /\ row.startedAt + row.total + offset[i] <= DueAt(row, offset[i])
      BY <2>2, DueAtDeadline
    <3>4. row.startedAt + row.total + offset[i] \in Int
      BY <2>2 DEF Row, Times, NoTime
    <3> QED BY <2>2, <3>1, <3>2, <3>3, <3>4
  <2> QED BY <2>1, <2>3
<1> QED BY <1>1, <1>2, <1>3, InitInv, Step, PTL DEF Spec
=============================================================================
