----------------------------- MODULE AuditTrail -----------------------------
(***************************************************************************)
(* The audit trail (audit_service, siem_service, background,               *)
(* retention_service).  An event is a line of the log at once; its row and *)
(* its copy for the SIEM are written later by tasks of the process, in two *)
(* buckets that hold a limited number each.  A periodic sweep deletes old  *)
(* rows in batches and leaves an event saying so.                          *)
(*                                                                         *)
(* The operations that emit events are those of the modules that extend    *)
(* this one.                                                               *)
(***************************************************************************)
EXTENDS Integers, Sequences, FiniteSets

CONSTANTS Persist,    \* rows are kept (audit_persist)
          Forward,    \* forwarding to a SIEM is enabled
          Limit,      \* tasks a bucket holds
          Retention,  \* history is not kept for ever (retention_days is not 0)
          Batch, MaxBatches,  \* rows a transaction of the sweep deletes, and its transactions
          MaxEvents   \* bound on the log

ASSUME AuditTrailAssumption ==
    /\ Persist \in BOOLEAN /\ Forward \in BOOLEAN /\ Retention \in BOOLEAN
    /\ Limit \in Nat \ {0} /\ Batch \in Nat \ {0} /\ MaxBatches \in Nat \ {0}
    /\ MaxEvents \in Nat

VARIABLES
    log,      \* the lines logged: [what, about]
    aged,     \* how many of them are older than the retention window
    pending,  \* the tasks of each bucket, by the event they carry
    stored,   \* events with a row
    purged,   \* events whose row was deleted
    dropped,  \* events whose row a full bucket, a failure or a stop cost
    sweep,    \* retention: [phase, cutoff, gone, left]
    untold    \* rows deleted by a sweep that did not live to say so

trail == <<log, aged, pending, stored, purged, dropped, sweep, untold>>

Buckets == {"audit_persist", "audit_siem"}
Full(bucket) == Cardinality(pending[bucket]) >= Limit
Asleep == [phase |-> "asleep"]

TrailInit ==
    /\ log = <<>>
    /\ aged = 0
    /\ pending = [b \in Buckets |-> {}]
    /\ stored = {}
    /\ purged = {}
    /\ dropped = {}
    /\ sweep = Asleep
    /\ untold = {}

\* Mutant: one count for the tasks of every bucket.
SpawnShared(n, bucket, wanted) ==
    IF wanted /\ Cardinality(pending["audit_persist"]) + Cardinality(pending["audit_siem"]) < Limit
    THEN pending[bucket] \cup {n} ELSE pending[bucket]

\* spawn_limited: a task for event n, unless its bucket is full.
SpawnLimited(n, bucket, wanted) ==
    IF wanted /\ ~Full(bucket) THEN pending[bucket] \cup {n} ELSE pending[bucket]

\* _persist and _ship ask for a task each, as the settings say: how severe the event
\* is, only the task looks at.
Wanted == [b \in Buckets |-> IF b = "audit_persist" THEN Persist ELSE Forward]

\* emit: the line, and the two tasks.
Emit(what, about) ==
    LET n == Len(log) + 1 IN
    /\ n <= MaxEvents
    /\ log' = Append(log, [what |-> what, about |-> about])
    /\ pending' = [b \in Buckets |-> SpawnLimited(n, b, Wanted[b])]
    /\ dropped' = IF Persist /\ Full("audit_persist") THEN dropped \cup {n} ELSE dropped

\* The same in a command's own process: the loop ends with the command, before
\* the tasks have run.
EmitAndExit(what, about) ==
    LET n == Len(log) + 1 IN
    /\ n <= MaxEvents
    /\ log' = Append(log, [what |-> what, about |-> about])
    /\ dropped' = IF Persist THEN dropped \cup {n} ELSE dropped
    /\ UNCHANGED pending

About(what) == UNION {log[n].about : n \in {m \in 1..Len(log) : log[m].what = what}}

-----------------------------------------------------------------------------
\* Everything else that is audited.
Other ==
    /\ Emit("other", {})
    /\ UNCHANGED <<aged, stored, purged, sweep, untold>>

\* _persist_async: the row is committed, or the error swallowed.
PersistAsync(n) ==
    /\ n \in pending["audit_persist"]
    /\ pending' = [pending EXCEPT !["audit_persist"] = @ \ {n}]
    /\ \/ stored' = stored \cup {n} /\ UNCHANGED dropped
       \/ dropped' = dropped \cup {n} /\ UNCHANGED stored
    /\ UNCHANGED <<log, aged, purged, sweep, untold>>

\* siem_service.emit ends: the event was not severe enough, or it went to the sinks,
\* whatever they did.
Forwarded(n) ==
    /\ n \in pending["audit_siem"]
    /\ pending' = [pending EXCEPT !["audit_siem"] = @ \ {n}]
    /\ UNCHANGED <<log, aged, stored, purged, dropped, sweep, untold>>

\* drain, when the process is told to stop: the tasks that end in time end, the
\* others are cancelled.
Drain ==
    /\ pending # [b \in Buckets |-> {}]
    /\ pending' = [b \in Buckets |-> {}]
    /\ \E done \in SUBSET pending["audit_persist"] :
          /\ stored' = stored \cup done
          /\ dropped' = dropped \cup (pending["audit_persist"] \ done)
    /\ UNCHANGED <<log, aged, purged, sweep, untold>>

-----------------------------------------------------------------------------
Ages ==
    /\ aged < Len(log)
    /\ aged' = aged + 1
    /\ UNCHANGED <<log, pending, stored, purged, dropped, sweep, untold>>

\* purge_audit_events: the cutoff is taken once; a window of 0 days keeps everything.
SweepBegins ==
    /\ sweep = Asleep
    /\ sweep' = IF Retention
                THEN [phase |-> "events", cutoff |-> aged, gone |-> {}, left |-> MaxBatches]
                ELSE [phase |-> "tokens", gone |-> {}]
    /\ UNCHANGED <<log, aged, pending, stored, purged, dropped, untold>>

Old == {n \in stored : n <= sweep.cutoff}

\* _purge_in_batches: one transaction; the last one is short, or the last allowed.
PurgeBatch ==
    /\ sweep.phase = "events"
    /\ \E rows \in SUBSET Old :
          LET gone == sweep.gone \cup rows IN
          /\ Cardinality(rows) = IF Cardinality(Old) < Batch THEN Cardinality(Old) ELSE Batch
          /\ stored' = stored \ rows
          /\ purged' = purged \cup rows
          /\ sweep' = IF Cardinality(rows) < Batch \/ sweep.left = 1
                      THEN [phase |-> "tokens", gone |-> gone]
                      ELSE [phase |-> "events", cutoff |-> sweep.cutoff, gone |-> gone,
                            left |-> sweep.left - 1]
    /\ UNCHANGED <<log, aged, pending, dropped, untold>>

\* Mutant: only the tokens are counted.
SweepEndsQuietly ==
    /\ sweep.phase = "tokens"
    /\ sweep' = Asleep
    /\ \E tokens \in BOOLEAN :
          IF tokens THEN Emit("audit.retention_purge", sweep.gone) ELSE UNCHANGED <<log, pending, dropped>>
    /\ UNCHANGED <<aged, stored, purged, untold>>

\* sweep_once after the events: dead tokens are deleted as well (Accounts), and
\* what was destroyed is told.
SweepEnds ==
    /\ sweep.phase = "tokens"
    /\ sweep' = Asleep
    /\ \E tokens \in BOOLEAN :
          IF tokens \/ sweep.gone # {} THEN Emit("audit.retention_purge", sweep.gone)
          ELSE UNCHANGED <<log, pending, dropped>>
    /\ UNCHANGED <<aged, stored, purged, untold>>

\* A transaction of the sweep fails, which ends it: nothing tells of the rows that
\* are gone.
SweepFails ==
    /\ sweep # Asleep
    /\ sweep' = Asleep
    /\ untold' = untold \cup sweep.gone
    /\ UNCHANGED <<log, aged, pending, stored, purged, dropped>>

\* The process dies: its tasks with it, and a sweep it was running.
TrailDies ==
    /\ pending' = [b \in Buckets |-> {}]
    /\ dropped' = dropped \cup pending["audit_persist"]
    /\ sweep' = Asleep
    /\ untold' = IF sweep = Asleep THEN untold ELSE untold \cup sweep.gone
    /\ UNCHANGED <<log, aged, stored, purged>>

TrailNext ==
    \/ Other \/ Drain \/ Ages
    \/ \E n \in 1..Len(log) : PersistAsync(n) \/ Forwarded(n)
    \/ SweepBegins \/ PurgeBatch \/ SweepEnds \/ SweepFails

-----------------------------------------------------------------------------
\* With rows kept, every event logged has its row, or will have, or had one the
\* retention deleted, unless the bucket of rows was full, the write failed or the
\* process stopped: a SIEM that does not answer costs no row.
EventIsStored ==
    Persist => \A n \in 1..Len(log) :
                  n \in stored \cup pending["audit_persist"] \cup purged \cup dropped

\* Rows disappear from the trail only with an event that says so, unless the sweep
\* that deleted them died first.
PurgeIsTold ==
    purged \subseteq About("audit.retention_purge") \cup untold
                        \cup (IF sweep = Asleep THEN {} ELSE sweep.gone)
=============================================================================
