# IcebergTTX: a verification development

TLA+ modules, TLC runs and TLAPS proofs for IcebergTTX, the tabletop-exercise
platform in `app/`, with as much of its browser client (`static/js`) as the live
connection needs. Every definition is translated from the source;
`PROJECT.json` gives its lines under `map`.

## 1. The system

A facilitator builds an exercise from a scenario (a graph of *injects* with
optional branches and release times), enrols participants in teams, starts it,
and releases injects as it goes; some release themselves when the exercise clock
reaches their offset. Participants answer. An answer resolves the inject for
its team and moves the team's cursor along the branch selected; if an AI provider
is configured it is assessed. Everything is a row in Postgres, written by HTTP
handlers and by the jobs of a durable queue (procrastinate) that several replicas
of the one process run; what browsers see live goes over WebSockets, fed from
committed domain events. Settings are rows too, cached by every replica.

| Component | State | Operations | What makes it correct |
|---|---|---|---|
| Lifecycle (`exercise_service`, `routers/exercises`) | `Exercise.state`, pacing columns, `ExerciseStateTransition` | start, pause, resume, complete, each read / compare-and-swap | one unbroken history; racing requests lose cleanly; the clock never runs ahead |
| Launch snapshot (`launch_snapshot_service`) | frozen scenario and inject rows | freeze on first start, guard on edits | snapshot = launch-configured rows, for good |
| Roster (`exercise_service`, `progression_service`) | `ExerciseMember` | enrol, regroup, remove, locked after the first release | audience of an inject on screen never changes |
| Release (`inject_service`) | `Inject.state`, `InjectProgress` | create, delete, release by hand or by clock | once, while live, to a non-empty audience, on a branch a team reached |
| Responses (`response_service`, `progression_service`) | `Response`, `InjectProgress`, `ExerciseProgress` | submit | one answer moves one cursor once; an inject closes when every path has |
| Timed work (`schedule_service`, `task_queue`) | `procrastinate_jobs` | arm, fetch, re-defer, retry, reconcile | never early, never lost, eventually done |
| Triggered messages (`schedule_service`, `communication_service`) | `Communication.trigger_key` | arm at release, deliver | once per trigger, no earlier than its delay |
| Bus (`pg_bus`, `pg_listener`) | LISTEN connection, bounded queue | notify, relay, break, subscribe again | at most once; a lost message costs what it says it may cost |
| Events (`domain_events`, `ws_projector`, `ws_manager`, `ws_relay`, `routers/ws`) | per-session buffer, sockets | record, promote, dispatch, relay, project, ping, prune | only committed facts, at most once per socket, to those who may read them |
| Settings (`*_settings_service`, `config_sync`) | singleton rows, per-replica caches and clients | save, notify, refresh | a replica that is behind is about to be put right |
| Evaluation (`llm_service`, `suggested_injects`, `report_service`) | assessments, suggestions, the summary | assess, suggest, approve, reject, draft, edit | one assessment per response; one inject per suggestion; a true label |
| Accounts (`routers/auth`, `users`, `oidc`, `token_service`, `rate_limit`) | users, links, hits; sessions are not stored | register, provision, invite, log in, change, reset | links are burnt with what they buy; sessions end with what they were issued under |
| Attachments (`routers/injects`, `reconcile_attachments`) | files and their rows | upload, delete, reconcile | every row has its file |
| Audit (`audit_service`, `siem_service`, `background`, `retention_service`) | log lines, rows, tasks in buckets | emit, persist, forward, purge | every event has its row; what is purged is told |
| Scenario documents, timeline, reports, mail, pages | | | see *Not modelled* |

How they touch: a lifecycle request commits and then arms jobs in a second
transaction; a release seeds progress rows and (through the queue) messages; a
response moves a cursor and arms the timed inject that cursor now points at in
the same transaction; every one of them records domain events in its
transaction, and the assessment job is queued behind the response. The exercise
row's lock orders releases, roster, uploads and configuration; lifecycle changes
rely on a conditional UPDATE instead. Events and settings share one bus, and with
it one bounded queue per replica.

The hard behaviours are the ones listed under `hazards` in `PROJECT.json`: reads
that precede the transaction acting on them, the two-transaction start, jobs
that outlive the state they were written for, workers that die between the
commit and the acknowledgement, several teams sharing one inject, messages that
are delivered at most once, caches and sockets that live on after what they were
made from, and files that no transaction covers.

## 2. Modules

| Module | Role |
|---|---|
| `RunContract` | abstract specification: what one exercise promises the people in it |
| `ExerciseRun` | lifecycle, snapshot, roster, release, progression and responses of one exercise, under concurrent requests |
| `ExerciseClock` | the pause-aware clock: pacing columns and stale lifecycle requests |
| `Schedule` | extends `ExerciseClock` with timed releases: jobs, workers, arming, crashes, reconciliation |
| `TriggeredComms` | messages a released node triggers after a delay of running time |
| `Listener` | one replica's end of the bus: connection, wire, bounded queue (operators on a record) |
| `ConfigSync` | extends `Listener`: settings rows, caches, clients built from them, saves and refreshes |
| `Audience` | who is shown what: pushed as a frame, and pulled by a request |
| `Delivery` | extends `Listener` and `Audience`: from a unit of work's events to the browsers |
| `Evaluation` | assessment, suggestion and summary jobs, and the people who review and edit |
| `Throttle` | the limiters' counters |
| `Accounts` | extends `Throttle`: accounts, links, logins, changes, sessions |
| `AuditTrail` | the log, the two buckets of tasks, the rows and their retention |
| `Attachments` | extends `AuditTrail`: files, rows, launch, deletion, the reconcile command |
| `*MC` | finite instances for TLC |
| `*Proofs` | theorems about the module of that name, for every value of its constants |

### ExerciseRun

One variable per table or column: `state`, `history`, `roster`, `inject`,
`duringRun` (created_during_run), `snapshot`, `progress` (InjectProgress),
`cursor` (ExerciseProgress), `responses`; `req[r]` is what in-flight request `r`
has read so far. A handler that reads before it locks is split at that point:

| Source | Actions |
|---|---|
| `routers/exercises._transition`, `transition_state_with_history` | `TransitionRead`, `TransitionCommit` |
| `routers/injects.release`, `release_scheduled_inject`, `release_inject` | `ReleaseRead`, `ScheduledReleaseRead`, `ReleaseCommit` |
| `routers/responses.submit`: the exercise, the membership, the inject, its visibility, the team, each a query of its own | `RespondRead`, `RespondMember`, `RespondInject`, `RespondVisible`, `RespondGroup` |
| `submit_response`, `resolve_response_progression` | `RespondCommit` |
| `enrol_member`, `update_member_group`, `remove_member` | `EnrolMember`, `UpdateMemberGroup`, `RemoveMember` |
| inject creation and `delete_pending_inject` | `CreateInject`, `DeleteInject` |
| 409, rollback, deadlock victim, lost replica | `Drop` |

Why a transaction may be one step. Release, roster and configuration changes
take the exercise row FOR UPDATE before they read what they decide on. The INSERT
of a response takes FOR KEY SHARE on the exercise through its foreign key, which
that lock excludes, so a response never overlaps a release or a roster change;
it locks its inject FOR UPDATE, so two responses to one inject do not overlap.
A lifecycle change is a single conditional UPDATE, whose lock (FOR NO KEY UPDATE)
does *not* exclude a response: the model lets it fall between a response's reads
and its commit, and that is where `CompletedIsPreserved` breaks. What `submit` reads
before its transaction is under no lock at all, so roster changes and releases fall
between its queries: a member who is removed, and an inject that is then released,
leave an answer of somebody who is no longer a member. The inject, once read as
released, closes the roster for the reads that follow it, and that is what
`ChecksOutliveTheRead` and `ResponsesKeepTheirContext` rest on.

Abstractions: `Inject.group_id` is an `Audience` of one team; a response's content and
option are the node it leads to (`next`); ids are not reused, so a deleted row differs
from one that never was; every run has "exact" launch provenance (the legacy value is
not modelled); everybody who answers is enrolled when `submit` starts (a facilitator
previewing the participant role from outside the roster is not). The role recorded at
enrolment fixes the audience, and may differ from the current role that `submit`
checks, so a non-participant row can answer.

### RunContract and the refinement

The contract knows a phase, the audience each inject was opened to and who has
answered. Opening happens while live, once, to a non-empty audience fixed then;
only that audience answers, each once. `ExerciseRun` maps onto it by reading the
audience and the answers off the progress rows. Answering in the contract is
allowed in every phase but draft: that is what the code guarantees, since it does
not look at the state again (finding 1).

### ExerciseClock

`row` is the exercise row (state, started_at, paused_at, accumulated_pause_seconds),
`now` the wall clock, and `ran` an observer: a stopwatch that no code reads. A
transition computes the columns from the row it *read* and the time it took after
reading it (`Paced`), and writes them if the *state* is unchanged: the UPDATE may have
waited, so the stamp is any time between the read and the write. The stopwatch counts a
start or a resume from the time it took. Ticks stand for any unit of time. It has no
run of its own: `Schedule` carries its variables and its properties.

### Schedule

`jobs[j]` is a row of the queue from the moment it is written until it is
finished: `todo`, `fetched` (status doing), then what its task decided:
`leaving` (return without a release), `redefer`, `release`; `stalled` is a job
whose worker died. `Enqueue` writes todo rows, `Unarmed` and `ReachedTimed` say
for which injects, `HasLiveJob` is the todo-only test that lets a resume skip
one. Start and resume go through `Lifecycle` (first transaction), `Reload` (the
row is read again after the commit) and `Arm` (second transaction) or `ArmFails`.
`Reconcile` is what a starting process does. `repair` records that an arming was
lost: "restart" while a dead process is being replaced, "needed" when the process
survived and nothing is due to put it right.

Abstractions: one inject per scenario node, one team and so one cursor; ticks
for minutes; DUE_EPSILON_SECONDS is zero; the task's reads are one step
(`Decide`), its release another; the queue has a few slots, and writing a job
waits for a free one; a job row is forgotten once finished. `LateRoster` says
whether people may be enrolled after the start; the runs have them enrolled in
the draft or never (see *Known limits*).

### TriggeredComms

The queue is that of `Schedule`; the clock is the other one the code has:
`_active_elapsed_since` computes the running time since a release from the
stamped lifecycle rows (`moves`, kept in the order of their stamps). Observers are
the stopwatch: `ran` counts the time the state was active, `held` the time that
resumes took from their stamp to their commit, which the code counts as running, and
`ranAt` is what their sum (`Run`) showed at a release; `crossed` holds the injects for
which some row is out of its order, because its stamp is earlier than the release, or
than another row, that committed before it. `Fires[t]` is the set of injects,
one per team, of trigger `t`'s node: each release writes a job for each trigger,
a message is sent once per trigger, and a resume or a starting process re-arms
what has no todo job (`Rearm`). Lifecycle requests are one at a time in the run; a
row's stamp is any time between its request's read and its commit.
The content of a message is left out; who may read one is in `Audience`.

### Listener, ConfigSync

`Listener` is one record per replica: `link` (down, up, broken: dead but not yet
noticed), `wire` (sent by Postgres, not read) and `queue` (read, not consumed,
at most `QueueMaxsize`). A commit notifies the replicas whose link is up and no
other.

In `ConfigSync`, `row[s]` is the settings singleton of a scope, `cache[r][s]` a
replica's snapshot of it, `client[r][c]` the pairs of scope and snapshot that a
lazily built client (the LLM provider, the OIDC registry) was made from.

| Source | Actions |
|---|---|
| `main.lifespan`, `_load_*_config` | `Boot`, `Load`, `Serve`; `Crash` |
| `PUT /<scope>/settings`, `update_settings`, `publish_config_changed` | `SaveRead`, `SaveCommit` (row and NOTIFY in one commit), `SaveReload` (`session.refresh`), `SaveInstall` |
| `pg_listener` | `Arrive`, `Consume`, `Break`, `KeepAlive`, `Connect` |
| `config_sync.refresh_scope`, `on_bus_connected` | `RefreshRead`, `RefreshInstall`, by the consumer and by the reconnect hook |
| `active_provider`, `ensure_registered` | `Use` |
| `POST /<scope>/test` | `Test` |

A row is a version, a selection and what the selection needs: the part of the
settings that the validation of e-mail, LLM and OIDC relates. A client keeps the
pairs it was built from, so comparing them with the cache says whether it is
outdated. `missed` and `peeked` are observers. `Elsewhere` is a replica that saves
and whose caches are not followed. The listener's retry delays and the settings'
fields are left out.

### Audience, Delivery

`Audience` writes the push fan-outs (`Pushed`) and the pull filters (`Readable`,
`Listed`) side by side, for items of each kind and viewers of each role.
`Delivery` has `fate[e]` (the row an event is about), `unit[r]` (a request's
buffer: pending, committed), the listeners, `sending[r]` (a fan-out in progress,
by the request and by the consumer), `room` (the sockets of every replica, each
with the authorization its handshake or last ping read), `page[c]` (the browser's
side of a socket), `view[c]` (what it shows) and `account[c]`.

| Source | Actions |
|---|---|
| `domain_events.record`, its session hooks, `dispatch` | `Record`, `Commit`, `Rollback`, `Dispatch`, `DispatchFails` (a projection that raises, swallowed), `Abandon` (a handler that raises after its commit) |
| `pg_listener`, `ws_relay.handle` | `Arrive`, `Relay`, `RelayFails`, `Break`, `Resubscribe` |
| `ws_projector`, `ws_manager` | `Project`, `Send`, `SendFails`, `Prune`, `Closing` |
| `routers/ws` | `Dial`, `Register`, `Ping`, `Leave` |
| `static/js` page load and `connectExerciseWs` | `Load`, `Dial`, `NetworkLoss` |
| role sync at a sign-in; new password, membership | `RoleSync`; `Revoke` |
| the row is deleted; a replica dies | `Delete`; `Crash` |

`skipped[r]` is an observer: the events replica `r` will never project, those whose
projection raised among them, which `project` logs and swallows. `due` in
a socket is another: the events committed since it was admitted. A frame carries
the fact and not the payload; sockets are compared by page and handshake number.

### Evaluation

`assessment`, `pointer` (`response.assessment_id`), `suggestion`, `made` (injects
created from it), `summary` (author and `edited` label), `job`, `request`.

| Source | Actions |
|---|---|
| `routers/responses.submit` and its second commit | `Submit`, `QueuePipeline`, `RequestDies` |
| assess endpoint; draft endpoint | `TriggerAssess`; `DraftSummary` |
| `_run_llm_pipeline`, `assess_response`, `_suggest_inject_result` | `Begin`, `LookAgain`, `Assess`, `Ask`, `Suggest`; `Raises` at any of them |
| `generate_executive_summary` | `Draft`, `WriteDraft` |
| queue: fetch, finish, worker death, `retry_stalled_jobs` | `Fetch`, `Finish`, `Die`, `RetryStalled` |
| `routers/suggested_injects` | `Approve` (under locks), `RejectRead`, `RejectCommit` (not) |
| `edit_report_summary` | `EditRead`, `EditCommit` |
| `llm_enabled`, the provider's settings; completion | `Switch`; `Complete` |

The provider is looked at three times: when the pipeline begins, before the
assessment (`LookAgain`, which may go on without one) and before the suggestion
(`Ask`), so an AI that is switched off and on leaves a suggestion without an
assessment. An UPDATE carries the columns that differ from what was read, which is why the
text and the label of the summary can come from different writers (`saw`).
`contested` and `raced` are observers of overlapping reviews and writers. Prompts
and answers are left out.

### Throttle, Accounts

`hits[scope][t]` counts a limiter's rows of second `t`; `Limited` and `Counted` are
separate queries. `account[e]` is the row of an address, `token[l]` of a mailed
link; `session` is the set of tokens issued, by address and second, never stored by
the code. A request reads,
hashes and commits in separate steps: `RegisterCheck`/`RegisterRead`/`Insert`,
`CreateRead`/`Insert`, `OidcCallback`/`Insert`, `AcceptRead`/`AcceptCommit`,
`LoginCheck`/`LoginVerified`/`LoginOpens`, `ChangeRead`, `AdminResetRead` and
`ResetRead`/`ResetBurn`, each followed by `ChangeCommit`, and `MailCheck`/`MailReset`;
`Promote` is the bootstrap command, `Expire` and `SweepHits` the purges, `LoseHits`
the loss of an unlogged table. `update_me` asks nothing of the account's provider, so
`ChangeRead` is open to accounts of the identity provider too. `crossed` and `latest`
are observers. The invite's
enrolment is a refusal the model may choose; one key of each limiter is modelled.

### AuditTrail, Attachments

`log` is the sequence of lines emitted, `pending[b]` the tasks of a bucket, `stored`
the events with a row, `sweep` the retention's progress. `Emit` is used by the
operations of the module that extends it. `PersistAsync`, `Forwarded`, `Drain`,
`SweepBegins`, `PurgeBatch`, `SweepEnds`, `SweepFails` are the tasks' steps. How severe
an event is, only the task that forwards it looks at, so it takes a slot of its
bucket in any case.

In `Attachments`, an element of `Files` is one upload, its row and its path
(paths are fresh). Upload: `BeginUpload`, `SaveAttachment`, `TooLarge`,
`UploadBreaks`, `CreateInject`, `CreateFails`, under the configuration's `lock`;
launch: `LaunchReads`, `LaunchCommits`; deletion: `DeleteInject` or
`DeleteExercise`, then `DeletePath` for each file and `TellDeleted`; the command:
`ReconcileReads`, `ReconcileLists`, `RemoveOrphan`, `ReconcileEnds`; and `Crash`.
`crossed`, `abandoned`, `cut`, `untold` and `dropped` are observers of the ways
in which the code may lose something.

## 3. Runs

| Run | Configuration | Result |
|---|---|---|
| `run` | 2 users, 1 team beside the shared path, branching node, its timed follow-up for one team, an ad hoc inject, 2 requests, 3 lifecycle changes | nine invariants, the cursor's action property and the refinement of `RunContract` hold |
| `completed` | same, 4 lifecycle changes | `CompletedIsPreserved` violated (finding 1) |
| `schedule` | branch whose follow-up is timed by an edit, 2 requests, 2 jobs, a failed arming, 2 ticks | `NoStrandedSchedule` and the clock's two invariants hold |
| `schedule_live` | the follow-up timed by the scenario, 1 request at a time, 2 jobs, 1 crash, 3 ticks, fairness | `ArmedInTime`, `NeverEarly`, `DueIsReleased` hold |
| `comms` | 1 trigger, 2 teams' injects, 1 lifecycle request, 2 jobs, 3 lifecycle changes, 1 crash, 2 ticks, fairness | `NoLostMessage`, `ArmedByLastRelease`, `MessageWaitsItsDelay`, `OwedIsSent` hold |
| `sync` | 1 replica that is followed and one that only saves, proxy and OIDC settings, 2 PUTs, 2 saves, a queue of 1, 1 break, 1 crash, fairness | `StaleIsOwed`, `ClientsFollowCache`, `Converges` hold |
| `frames` | 2 replicas, a participant's page with 2 handshakes, an event for its team and one for the console, a queue of 1, 1 fault (a break, a crash, a handler or a projection that raises) | `ShownIsReal`, `AtMostOneFrame`, `LiveFrameIsOwed` hold |
| `sockets` | 2 replicas, 1 page, 1 event, 1 change of authorization, fairness | `StaleSocketsEnd` holds |
| `refetch` | as `frames`, with 1 event and 1 change | `CaughtUpOnReconnect` violated (finding 2) |
| `ai` | 1 free-text response and the summary, 2 jobs, 1 review or edit request, 2 switches, 1 crash, 1 pipeline that raises, fairness | `EvaluatedOnce`, `ReviewHolds`, `LabelIsTrue`, `QueuedIsAssessed` hold |
| `accounts` | 1 address, 1 invite, 1 mailed link, 2 requests at a time and 4 in all, a threshold of 2, a window of 1, 3 seconds | `InviteIsSpentOnAccount`, `TemporaryIsFlagged`, `OldSessionsEnd`, `ThrottleHolds` hold |
| `files` | 1 upload, a bucket of 1, batches of 1, 2 of them, 2 log lines | `FilesMatchRows`, `DeletionIsTold`, `EventIsStored`, `PurgeIsTold` hold |

Bounds and why they are enough. Two requests are the fewest that race, and three
lifecycle changes reach a resume and a completion. Two users, each in the one team or
on the shared path, give an inject two paths to close, a team-mate to repeat an answer,
and an audience that excludes somebody; a response has six steps, between which the
other request and the facilitator act. The branch has a node that is linked and one
ending; the ad hoc inject is the interruption. In `Schedule` and `TriggeredComms` the
second job slot is the duplicate or stale job, one crash takes any subset of the work
in hand, and two ticks (three in `schedule_live`) let an offset pass during a pause and
come up after it, or a lifecycle request wait between its stamp and its commit. Crashes
are left to `schedule_live`; `schedule` has the racing requests. `ArmedInTime` is
checked with lifecycle requests one after another, because two stale ones break the
clock itself (*Known limits*). In `sync` two saves are the fewest of which one can
overtake the other's refresh; the proxy is the scope a client of another depends on,
and OIDC the one whose loader refuses an invalid row; a replica's caches do not touch
another's, so one is followed. In `frames` two replicas are the fewest with a relay,
two events fill a queue of one, and the second handshake is the reconnect; each fault
(break, crash, failed handler, failed projection) occurs alone. In `ai` two jobs are
the one that runs and the one that waits under the same lock, and two switches take the
provider away between two looks and bring it back before the third; approving is one
step and needs no slot, so one request is what it crosses. In `accounts` four requests
are an account, a login and the two changes that can cross, and three seconds are one
before, one of and one after a change. In `files` the one upload meets everything else
there is for a file; two log lines and a bucket of one fill the bucket. What the bounds
leave open is closed by the proofs for every safety and action property of these runs.

Symmetry is used for request slots, users, job slots and replicas, none of which
a constant tells apart, and never with a liveness property. `TypeOK` is an
invariant of `run`; for the other modules the proofs carry the types.

`CHECK_DEADLOCK FALSE`: a completed exercise, a process nobody asks anything of, or
one whose bounds are spent, stops.

Fairness is about what the program does by itself; no person is assumed to do
anything.

- `Schedule`, `TriggeredComms`: time passes; each worker step is eventually taken,
  since every replica polls the queue; stalled jobs are retried
  (`retry_stalled_jobs`, every ten minutes); a dead process is restarted and its
  lifespan reconciles; a request that has committed its transition goes on to arm
  or fails. Nothing restarts a process that has not died, so `DueIsReleased` and
  `OwedIsSent` exempt an arming that failed in a surviving process.
- `ConfigSync`: a serving replica's listener reads its socket, its consumer takes
  what is queued, its keepalive notices a dead connection and its connection task
  connects again, and a refresh that was begun goes on. Nobody has to save.
- `Delivery`: an open page pings (every 30 s), a handshake that got in is
  registered, and the heartbeat prunes what has not pinged.
- `Evaluation`: the worker works and stalled jobs are retried.

### Findings

1. `submit` checks that the exercise is active before its transaction and not
   again: a response commits after a completion and changes what
   `access_control.py:104` calls preserved after-action evidence.
2. `pg_bus.py:27` has lost frames made good by clients that "refetch on WebSocket
   reconnect"; `connectExerciseWs` dials again and reads nothing, so what was
   committed in between stays off the screen until the page is loaded again or
   another frame makes it reload.

### Known limits

What the code does not promise, so that no property states it. Each was met while
modelling; the ones with a constant can be reproduced by setting it.

- Answering a second scenario inject on screen overwrites the cursor and discards
  the branch the team had selected (`progression_service.py:204`), although
  `PLAN.md:335` has the option settle which inject comes next.
- The compare-and-swap on the state alone does not notice that the pause it ends
  is a later one: the accumulated pause comes out too large
  (`exercise_service.py:129-149`). The error has one direction: `NeverAhead` is
  proved. With two such requests `ArmedInTime` fails.
- A waiting job is not only ever early (`schedule_service.py:130-132`): after an
  offset is moved earlier during a pause it is late.
- A timed release with an empty audience fails its job, and nobody writes another
  when the audience arrives (`inject_service.py:138`, against
  `schedule_service.py:27-29`). `LateRoster = TRUE`.
- A lifecycle row is stamped before its UPDATE, which may wait for the row
  (`exercise_service.py:131`, `:148`). A pause that waits behind a release is stamped
  before it, so that it is not excluded from the running time since that release, and
  the release's messages come early by its length, although `schedule_service.py:82`
  says "excluding every persisted pause span": what `MessageWaitsItsDelay` exempts as
  `crossed`, and without that exemption TLC finds it. Two requests that overlap can
  leave their rows in the other order likewise. A resume's wait is counted as running
  time by both clocks (`held` in `TriggeredComms`, the credit to `ran` in
  `ExerciseClock`).
- An answer of a member who was removed after `submit` had found them to be one, and
  before the first release, is kept and answers for no team
  (`responses.py:66`, `:79`).
- An AI that is switched off and on while a pipeline runs leaves a suggestion for a
  response without an assessment (`llm_service.py:142`, `:245`, `:396-405`).
- The assessment commits before the suggestion is asked for; a job that is run
  again finds it and returns, so the suggestion is never made
  (`llm_service.py:397`).
- A request that dies between the response's commit and the next one leaves it
  without a job (`responses.py:130`) until a facilitator asks.
- The burn of a reset link commits before the new password (`auth.py:320`): a
  request that dies in between costs the link.
- Two changes of one account that cross can leave the earlier cutoff, or lose the
  flag of a temporary password (`users.py:149`). A session of the second of the
  change, or one that a login opens later with the password it verified before
  (`auth.py:229`), stays honoured: cutoffs and issue times are whole seconds.
  `OldSessionsEnd` says no more than that.
- An account of the identity provider may set a local password
  (`auth.py:453-491` has no check of the provider).
- A rejection checked first and written last leaves an inject of a rejected
  suggestion (`suggested_injects.py`), and a slow writer of the summary a wrong
  label: the exemptions in `ReviewHolds` and `LabelIsTrue`.
- Two settings saves can each be valid against the row the other is changing, and
  leave one that OIDC's loader refuses (`oidc_settings_service.py:261`).
- What is saved before a replica's first subscription, or meets a full queue, is
  missed until the next reconnect (`config_sync.py:128`, `pg_listener.py:191`).
- A handler that raises after its commit, or a projection that raises, costs this
  replica's browsers the frame (`database.py:95`, `domain_events.py:335`); frames of
  two replicas come in no particular order (`pg_bus.py:118`).
- A reconciliation that overlaps an upload, or a failure after the row's commit,
  deletes the file of a row that stays (`reconcile_attachments.py:29`,
  `routers/injects.py:277`); the command's own event has no row, because the
  process ends first (`reconcile_attachments.py:51`).

Below the models' grain: an offset cleared between a job's read and its release
(`task_queue.py:173`), the epsilon in a deadline (`schedule_service.py:163`), a
message into an exercise that has just been paused (`task_queue.py:232`),
savepoints (`task_queue.py:142`), and the two strengths of row lock in a response's
transaction (`progression_service.py:137`).

## 4. Proofs

All theorems hold for every value of the constants that satisfies the named
assumptions of the modules (`ConstantsAssumption`, `MaxTimeAssumption`,
`ScheduleAssumption`, `CommsAssumption`, `ScopesAssumption` ... in `ConfigSync`,
`QueueMaxsizeAssumption`, `FreeTextAssumption` ... in `Evaluation`,
`AccountsAssumption`, `RequestsAssumption`, `ThrottleAssumption`,
`AuditTrailAssumption`, `ItemAssumption`, `ViewerAssumption` and `AuthorAssumption`
in `Delivery`): any number of users, teams, injects, jobs, replicas, scopes,
requests, accounts, files, pages and events. Bounds are constants too, so no theorem
depends on how small they are. Most of the assumptions give a constant its type. Two
say more: `RequestsAssumption`, that finitely many requests are in progress at once,
without which the limiter's bound would not be a number; and `AuthorAssumption`, that
somebody who wrote something is in the team they wrote it from, because the roster is
locked from the first release on. What was written before a change of team that came
earlier than that is left out. A hypothesis a theorem has beyond these is in its
statement and named below.

`ExerciseRunProofs`. `TypeCorrect` is inductive by itself. The other invariants
lean on each other, so they are proved as one inductive invariant `Inv`:

- `StepCases` sorts the steps into launch, release, answer, and the rest, which
  leaves alone everything on screen (`Backstage`). submit's queries change nothing
  but the request's own record (`ChecksOnlyRead`).
- `LiveStays` and `RosterStays`: an inject on screen stays there, and while one is
  there the roster is fixed. From these, `ChecksOutliveStep`: what a pending
  response has read from its inject on still holds, although the response does not
  read it again; what it read before, the state and the membership, need not. This
  is the strengthening everything else needs: without it an answer could come
  from a team outside the audience.
- `SeedingIsIdempotent` and `PathsStep`: an answer finds every row it would seed,
  so the audience never grows (`AudienceHolds`) and a scalar state agrees with its
  rows (`PathsHold`).
- `CursorStep`, `LiveStep`, `BranchStep`: a linked node is on screen only if some
  resolved path leads to it. The invariant carries the cursor's origin
  (`CursorFollowsOwnAnswer`), since the gate reads only the cursor.
- `HistoryStep`, `SnapshotStep`, `EvidenceStep`: the remaining parts.
- `InitRefines` and `StepRefines` give `Refinement`: launch and lifecycle steps
  are `Move`, a release is `Open`, an answer that closes a path is `Answer`,
  anything else is a stutter.

`ScheduleProofs` first proves the clock for `ClockSpec`, in which nothing but lifecycle
requests and time happens. `ClockNeverAhead` and `StaleRowsHold` follow from
`ClockInv`: the running row and every row in a request's hands is `Measured` (its
running time up to its own pause is at most what has run since), and start times
agree. A stale resume then writes a total at least as large as the time really
paused. `ClockHolds` is the part of it that speaks of transitions only, so that it
can be used where requests do other things as well.

For `Schedule` itself, `Inv` is the types, `ClockHolds`, and `DecidedInTime`: a job
whose worker has decided to release is for an offset that has passed, and stays so
because `ran` only grows and only editable offsets change. The decision rests on
`NeverAhead`: the running time the worker computed is at most what has run. Hence
`NeverEarly`. `NoStrandedSchedule` is proved with the roster closed at the start
(`LateRoster = FALSE`) from `OwedIsComing`: what is owed has a job that has not given
up, or a request that will arm *and read an active exercise*; the last clause
survives because whoever makes the exercise active again arms by its own reading.

`ArmedJobsAreInTime` has three hypotheses, each the negation of a known limit: the
roster is closed, lifecycle requests come one after another (`OneAtATime`), and
offsets are not edited (`Editable = {}`); the run has them too. With requests in order
the row a request holds is the row there is (`Current`), so a resume lengthens the
accumulated pause and a deadline only moves later. `Timely` is the rest: a waiting job
was written for a deadline, so it comes up no later than the present one, and a
resume that skips an inject because its job still waits loses no time.

`TriggeredCommsProofs`. `NoLostMessage` from `OwedIsComing` for triggers; it needs of
the types only that jobs and requests are records of their stage (`WellFormed`). The
two properties of time need that the running time computed from the lifecycle rows
is no more than the running time there was. `Measured` says it for every released
inject that is not `crossed`, and `TimeInv` joins it with what it rests on: unless
everything is crossed, the rows are in the order of their stamps and each goes on from
the one before it (`RowsHold`), and nothing is stamped in the future (`TimesHold`).
What a new row does to the sum depends on its kind: time adds to it at most what runs
(`TimeAdds`), a pause stops it at a stamp that may be in the past, which only takes away
(`PauseAdds`), and a resume adds the time from its stamp to its commit, which `held`
gives to the stopwatch (`ResumeAdds`). What a job carries then follows (`JobsHold`): one
whose worker has decided to deliver is for a delay that has passed, and a waiting one
comes up no later than its own inject makes the message due. Nothing is assumed about
when rows are stamped, or about how many lifecycle requests overlap, which the run has
no room for.

The sum over the rows is a recursive function, and a fact about all its values takes
an induction. The library states induction for an operator parameter, which cannot be
used; here it is stated for a *set* of numbers (`InductionOverSet`), from the least
member that a set of naturals has (`LeastMember`), and can be cited like any other
lemma. `SumsExist` and `SumsAgree` are its uses: there is a function that satisfies
the recursive definition, and its values depend on no rows but those before.
`OneMoreRow` is what a step needs: one more row adds its own span.

`ConfigSyncProofs`. `StaleIsOwed` needs that a refresh in hand which counts has
read the row there is (`ReadsAreRows`), that a lost subscription had been one
(`FirstIsFirst`), that a replica which does not serve holds nothing but snapshots
(`NothingYet`), and that it starts to serve owing what its lifespan could not load
(`LoadedOrLost`). `ClientsFollowCache` needs `BuiltFromTheirOwn`: dropping the
dependents of a scope drops every client built from it. All of it is one `Inv`,
proved conjunct by conjunct, with a step for each action.

`EvaluationProofs`. `EvaluatedOnce`, `ReviewHolds` and `LabelIsTrue` from what jobs
and requests in progress have read: the row that a suggestion is asked for exists,
a rejecter saw a suggestion, a writer of the summary whose read is not outdated
saw the row there is (`JobsAreSound`, `RequestsAreSound`, `NothingYet`). None of it
depends on what a look at the provider finds, or on where a pipeline raises.

`AccountsProofs`. `OldSessionsEnd` from `CutoffHolds`: the cutoff of an account whose
changes did not cross is not before any second a change took. It ends the sessions of
the seconds before that, which is all the code can do with whole seconds. A change
keeps that if what it read is what it meets (`RequestsAreSound`). `TemporaryIsFlagged`
needs that only local accounts have temporary passwords and that reset links belong to
them; `InviteIsSpentOnAccount` is carried along, because the two are written in one
commit. `ThrottleHolds` relates two pieces of state: the attempts in the window, and
the requests that were let through and have not been counted yet. Their sum is bounded
for each limiter (`Allowance`): a request is let through only below the threshold,
counting moves it from the second to the first, and time, the purge and the loss of the
table only take attempts away.

`DeliveryProofs`. `AtMostOneFrame` needs to know where an event can be: in the buffer
of one unit of work, in the fan-out of the replica that recorded it, on the bus with
that replica's name on it, or in the fan-outs of the others (`Bus`, `Fans`). A socket
is in a fan-out only if it has not had the frame and nothing else will send it
(`OneFan`); a replica that skips its own messages fans out either from its dispatch
or from the bus, never both. `LiveFrameIsOwed` is the same account read the other way
(`Owed`): at the commit an event is in its unit's buffer and on the wire of every
replica that listens, and each step that takes it from one place puts it in the next,
into the sockets, or into `skipped`. `ShownIsReal` needs that, while no authorization
has changed, connections carry the role of the user at the page and that what is being
sent and what is shown may be fetched (`AsGranted`). That whatever is pushed may be
fetched is a case analysis of the two filters in `Audience` (`PushedIsReadable`), and
the place where `AuthorAssumption` is used.

`AttachmentsProofs`. `FilesMatchRows` needs to know what an upload in progress has
written (`UploadsAreFresh`), that what a request still has to delete belongs to
rows that are gone (`LeftoversAreDeleted`), and that a reconciliation's orphans
have no row it did not cross (`OrphansAreNot`). The trail's two properties are
proved apart (`TrailInv`) and hold for whatever extends `AuditTrail` with steps
that `Emit`, since the log only grows (`AppendTells`).

Only model-checked: liveness (`DueIsReleased`, `OwedIsSent`, `Converges`,
`StaleSocketsEnd`, `QueuedIsAssessed`) and everything else that involves ENABLED, which
this prover has no means for. Every invariant and action property of a passing run is
stated by a theorem. The two violations are TLC counterexamples.

## 5. Not modelled

- Scenario documents: parsing and validation are functions of a document; the
  graph they accept enters `ExerciseRun` and `Schedule` as constants.
- Timeline, report and CSV are projections of committed rows that change nothing.
- Mail and the outbound proxy are I/O; what the proxy's settings do to the clients
  built from them is in `ConfigSync`.
- The HTTP surface (middleware, pages, wiring) and the rendering and forms of the
  client: what the lifespan loads and reconciles is in `ConfigSync`, `Schedule`
  and `TriggeredComms`, the page's socket in `Delivery`.
- Of modelled components: the content of the launch snapshot (only which rows it
  holds) and the duplication of exercises; edits of inject text and the fallback
  for exercises without a scenario graph; messages typed by people and their read
  receipts (who may read them is in `Audience`); savepoints of the event buffer
  and the payload of frames; prompts, answers and their parsing; field edits and
  deletion of accounts, the identity provider's protocol; the sinks of a SIEM; and
  the queue's own tables, of which the models assume that a job is fetched by one
  worker, that a queueing lock admits one waiting job, and that a job whose worker
  is silent for two minutes is listed as stalled.

## 6. What would come next

1. `ResponseLocks`: the strengths of row locks responders take on one inject, for
   the deadlock hazard that no property covers.
2. Abstract specifications of `Delivery` (a broadcast that may lose a frame but never
   repeats or invents one) and of `Schedule` (a timer that is never early), with
   refinement proofs like that of `RunContract`: the invariants they need are proved.
3. `ExerciseRun` and `Delivery` composed, so that what a page shows is related to
   the exercise and not to the facts one by one.

## 7. Running

    tlc -config ExerciseRun_run.cfg ExerciseRunMC.tla
    tlapm ExerciseRunProofs.tla

`PROJECT.json` lists the module and configuration of each run, the variants
(`UpsertMemberGroup`, `BlindTransition`, `RelayAll`, ...) that each property is
known to reject, and the hazards each property is there for.
