--------------------------- MODULE ExerciseClock ---------------------------
(***************************************************************************)
(* The pause-aware clock of one exercise: the pacing columns that lifecycle *)
(* requests keep on its row (exercise_service.transition_state_with_history)*)
(* and the running time computed from them (schedule_service).              *)
(*                                                                          *)
(* A lifecycle request reads the row, takes the time, computes the new      *)
(* columns from what it read and writes them with an UPDATE conditional on  *)
(* the state alone, which may have to wait for the row.  Time is counted in *)
(* ticks; `ran` is what a stopwatch shows that is stopped at each pause's   *)
(* commit and starts at the time each start or resume took; it appears in   *)
(* no column.                                                               *)
(***************************************************************************)
EXTENDS Integers

CONSTANTS Requests,   \* slots for in-flight requests
          MaxTime     \* bound on the clock explored

ASSUME MaxTimeAssumption == MaxTime \in Nat

VARIABLES now,        \* wall clock
          row,        \* the Exercise row: state and pacing columns
          ran,        \* ticks spent active, and what starts and resumes took from
                      \* their stamp to their commit (observer)
          req         \* req[r]: what request r has read and not yet acted on

clockVars == <<now, row, ran, req>>

NoTime == -1
Times == Nat \cup {NoTime}
States == {"draft", "active", "paused", "completed"}
Row == [state : States, startedAt : Times, pausedAt : Times, total : Nat]
Idle == [op |-> "idle"]
Transition == [op : {"transition"}, seen : Row, target : States, read : Nat]

ClockTypeOK ==
    /\ now \in Nat
    /\ row \in Row
    /\ ran \in Nat
    /\ req \in [Requests -> {Idle} \cup Transition]

ValidTransitions ==
    { <<"draft", "active">>, <<"active", "paused">>, <<"active", "completed">>,
      <<"paused", "active">>, <<"paused", "completed">> }

\* Running time since start by the columns of an active row, without and with
\* the pauses (_effective_elapsed_seconds).
WallElapsed(x) == now - x.startedAt
Elapsed(x) == now - x.startedAt - x.total

\* accumulated_pause_seconds after a resume at the time `stamp`, computed from
\* the row `seen`; the variant forgets the pauses before this one.
LastPauseOnly(seen, stamp) == stamp - seen.pausedAt
PauseTotal(seen, stamp) == seen.total + (stamp - seen.pausedAt)

ClockInit ==
    /\ now = 0
    /\ row = [state |-> "draft", startedAt |-> NoTime, pausedAt |-> NoTime, total |-> 0]
    /\ ran = 0
    /\ req = [r \in Requests |-> Idle]

Tick ==
    /\ now < MaxTime
    /\ now' = now + 1
    /\ ran' = IF row.state = "active" THEN ran + 1 ELSE ran
    /\ UNCHANGED <<row, req>>

TransitionRead(r, target) ==
    /\ req[r] = Idle
    /\ row.state # "completed"
    /\ req' = [req EXCEPT ![r] = [op |-> "transition", seen |-> row, target |-> target, read |-> now]]
    /\ UNCHANGED <<now, row, ran>>

\* The pacing columns a transition at the time `stamp` writes, all computed from
\* the row it read.
Paced(seen, target, stamp) ==
    LET resumes == target = "active" /\ seen.pausedAt # NoTime IN
    [state |-> target,
     startedAt |-> IF target = "active" /\ seen.startedAt = NoTime THEN stamp
                   ELSE row.startedAt,
     pausedAt |-> IF target = "paused" THEN stamp
                  ELSE IF resumes THEN NoTime ELSE row.pausedAt,
     total |-> IF resumes THEN PauseTotal(seen, stamp) ELSE row.total]

\* UPDATE ... WHERE state = :observed, at some time after the stamp; `next` is what
\* the request does after it.
TransitionCommit(r, next) ==
    /\ req[r].op = "transition"
    /\ LET seen == req[r].seen
           target == req[r].target IN
       /\ <<seen.state, target>> \in ValidTransitions
       /\ row.state = seen.state
       /\ \E stamp \in req[r].read .. now :
             /\ row' = Paced(seen, target, stamp)
             /\ ran' = IF target = "active" THEN ran + (now - stamp) ELSE ran
    /\ req' = [req EXCEPT ![r] = next]
    /\ UNCHANGED now

\* Refused, rolled back, or gone with its replica.
Drop(r) ==
    /\ req[r] # Idle
    /\ req' = [req EXCEPT ![r] = Idle]
    /\ UNCHANGED <<now, row, ran>>

ClockNext ==
    \/ Tick
    \/ \E r \in Requests :
          \/ \E target \in {"active", "paused", "completed"} : TransitionRead(r, target)
          \/ TransitionCommit(r, Idle)
          \/ Drop(r)

ClockSpec == ClockInit /\ [][ClockNext]_clockVars

-----------------------------------------------------------------------------
(* Properties.                                                              *)

\* The exercise clock never runs ahead of the stopwatch, whatever lifecycle
\* requests race: nothing becomes due before its offset of running time.
NeverAhead == row.state = "active" => Elapsed(row) <= ran

\* A row from which no running time has been lost to a pause or gained.
Measured(x) ==
    /\ x.state = "draft" =>
          x.startedAt = NoTime /\ x.pausedAt = NoTime /\ x.total = 0
    /\ x.state = "active" => x.startedAt # NoTime /\ x.pausedAt = NoTime
    /\ x.state = "paused" =>
          /\ x.startedAt # NoTime /\ x.pausedAt # NoTime /\ x.pausedAt <= now
          /\ x.pausedAt - x.startedAt - x.total <= ran

\* However stale the row a lifecycle request computes from, what it would
\* write counts no pause as running time and keeps the one start time.
StaleRowsAreSafe ==
    /\ Measured(row)
    /\ \A r \in Requests :
          req[r].op = "transition" =>
              LET seen == req[r].seen IN
              /\ Measured(seen)
              /\ seen.state \in {"active", "paused"} => seen.startedAt = row.startedAt
=============================================================================
