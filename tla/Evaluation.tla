----------------------------- MODULE Evaluation -----------------------------
(***************************************************************************)
(* What the configured AI provider adds to an exercise (services/          *)
(* llm_service, the assess_response and generate_summary jobs, routers/    *)
(* suggested_injects, and the assessment and summary endpoints).           *)
(*                                                                         *)
(* A response is assessed by a queue job: one provider call, one           *)
(* assessment row; on a free-text node a second call and one suggested     *)
(* inject, which a facilitator approves into a real inject or rejects.     *)
(* The after-action summary is one row, drafted by a job as often as       *)
(* somebody asks and edited by hand.                                       *)
(*                                                                         *)
(* A provider call takes seconds.  While it lasts other jobs run, people   *)
(* review and edit, the AI is switched off, and the process may die; a job *)
(* whose worker died is run again from its beginning.                      *)
(***************************************************************************)
EXTENDS Naturals, FiniteSets

CONSTANTS Responses,
          FreeText,     \* the responses to nodes with free_text_response
          Jobs,         \* bound on the jobs ever queued, by id
          Frozen,       \* launched with an exact snapshot: its AI switch is frozen
          Requests,     \* review and edit requests, each one at a time
          MaxSwitches,  \* bound on changes of the AI settings
          MaxCrashes,   \* bound on workers and requests that die
          MaxFailures   \* bound on pipelines that raise

ASSUME FreeTextAssumption == FreeText \subseteq Responses
ASSUME FrozenAssumption == Frozen \in BOOLEAN
ASSUME SummaryAssumption == "summary" \notin Responses
ASSUME JobsAssumption == "none" \notin Jobs

VARIABLES
    live,        \* the exercise is not completed
    ai,          \* [optedIn, provider]: llm_enabled, and a provider is configured
    response,    \* [Responses -> "none", "saved", "answered"]
    assessment,  \* [Responses -> the job that wrote the row, or NoRow]
    pointer,     \* [Responses -> response.assessment_id, by the same names]
    suggestion,  \* [Responses -> "none", "pending_review", "approved", "rejected"]
    made,        \* [Responses -> the injects created from the suggestion]
    summary,     \* [author, edited]: the row of the executive summary
    frames,      \* [Responses -> [assessed, suggested]]: committed announcements
    job,         \* [Jobs -> Job records]
    request,     \* [Requests -> what each has read]
    contested,   \* responses whose suggestion was approved under a rejecter's read
    raced,       \* the last writer of the summary had read an older one
    switches, crashes, failures

vars == <<live, ai, response, assessment, pointer, suggestion, made, summary, frames, job,
          request, contested, raced, switches, crashes, failures>>

NoRow == "none"
Tasks == Responses \cup {"summary"}
Authors == {"none", "model", "human"}   \* "none": no row yet
Statuses == {"none", "pending_review", "approved", "rejected"}
Steps == {"start", "ready", "calling", "followup", "asking", "writing", "over"}

\* task: what the job is for; saw: the summary row it read, or "nothing"; stale:
\* somebody has written the row since.
Unused == [task |-> "none", state |-> "none", step |-> "start", saw |-> "nothing", stale |-> FALSE]
Idle == [kind |-> "idle", of |-> "none", saw |-> FALSE, stale |-> FALSE]

Enabled == ai.optedIn /\ ai.provider
Running(j) == job[j].state = "doing"
At(j, step) == Running(j) /\ job[j].step = step
To(j, step) == job' = [job EXCEPT ![j].step = step]

Init ==
    /\ live = TRUE
    /\ ai = [optedIn |-> TRUE, provider |-> TRUE]
    /\ response = [p \in Responses |-> "none"]
    /\ assessment = [p \in Responses |-> NoRow]
    /\ pointer = [p \in Responses |-> NoRow]
    /\ suggestion = [p \in Responses |-> "none"]
    /\ made = [p \in Responses |-> 0]
    /\ summary = [author |-> "none", edited |-> FALSE]
    /\ frames = [p \in Responses |-> [assessed |-> 0, suggested |-> 0]]
    /\ job = [j \in Jobs |-> Unused]
    /\ request = [q \in Requests |-> Idle]
    /\ contested = {}
    /\ raced = FALSE
    /\ switches = 0 /\ crashes = 0 /\ failures = 0

-----------------------------------------------------------------------------
(***************************************************************************)
(* Asking for work.                                                        *)
(***************************************************************************)

\* defer_job_once: a job that is still waiting for the same task is enough; one
\* that is running is not.
Waiting(t) == \E j \in Jobs : job[j].task = t /\ job[j].state = "todo"
DeferOnce(t, j) ==
    job' = IF Waiting(t) THEN job
           ELSE [job EXCEPT ![j] = [Unused EXCEPT !.task = t, !.state = "todo"]]
Fresh(j) == job[j].state = "none"

\* submit: the response is committed,
Submit(p) ==
    /\ live
    /\ response[p] = "none"
    /\ response' = [response EXCEPT ![p] = IF ai.optedIn THEN "saved" ELSE "answered"]
    /\ UNCHANGED <<live, ai, assessment, pointer, suggestion, made, summary, frames, job,
                   request, contested, raced, switches, crashes, failures>>

\* and its assessment queued by a second commit,
QueuePipeline(p, j) ==
    /\ response[p] = "saved"
    /\ Fresh(j)
    /\ response' = [response EXCEPT ![p] = "answered"]
    /\ DeferOnce(p, j)
    /\ UNCHANGED <<live, ai, assessment, pointer, suggestion, made, summary, frames,
                   request, contested, raced, switches, crashes, failures>>

\* which a request that dies in between never makes.
RequestDies(p) ==
    /\ response[p] = "saved"
    /\ crashes < MaxCrashes
    /\ crashes' = crashes + 1
    /\ response' = [response EXCEPT ![p] = "answered"]
    /\ UNCHANGED <<live, ai, assessment, pointer, suggestion, made, summary, frames, job,
                   request, contested, raced, switches, failures>>

\* trigger_assess: a facilitator asks for it.
TriggerAssess(p, j) ==
    /\ response[p] # "none"
    /\ ai.optedIn
    /\ IF assessment[p] # NoRow
       THEN pointer' = [pointer EXCEPT ![p] = assessment[p]] /\ UNCHANGED job
       ELSE Fresh(j) /\ DeferOnce(p, j) /\ UNCHANGED pointer
    /\ UNCHANGED <<live, ai, response, assessment, suggestion, made, summary, frames,
                   request, contested, raced, switches, crashes, failures>>

\* draft_report_summary, queue_summary_pipeline.
DraftSummary(j) ==
    /\ Enabled
    /\ Fresh(j)
    /\ DeferOnce("summary", j)
    /\ UNCHANGED <<live, ai, response, assessment, pointer, suggestion, made, summary, frames,
                   request, contested, raced, switches, crashes, failures>>

\* update_exercise: the exercise's own switch, frozen by an exact launch snapshot
\* and by completion; or the instance's provider.
Switch ==
    /\ switches < MaxSwitches
    /\ switches' = switches + 1
    /\ \/ live /\ ~Frozen /\ ai' = [ai EXCEPT !.optedIn = ~@]
       \/ ai' = [ai EXCEPT !.provider = ~@]
    /\ UNCHANGED <<live, response, assessment, pointer, suggestion, made, summary, frames, job,
                   request, contested, raced, crashes, failures>>

Complete ==
    /\ live
    /\ live' = FALSE
    /\ UNCHANGED <<ai, response, assessment, pointer, suggestion, made, summary, frames, job,
                   request, contested, raced, switches, crashes, failures>>

-----------------------------------------------------------------------------
(***************************************************************************)
(* The worker.                                                             *)
(***************************************************************************)
Fetch(j) ==
    /\ job[j].state = "todo"
    /\ job' = [job EXCEPT ![j].state = "doing", ![j].step = "start", ![j].saw = "nothing",
                          ![j].stale = FALSE]
    /\ UNCHANGED <<live, ai, response, assessment, pointer, suggestion, made, summary, frames,
                   request, contested, raced, switches, crashes, failures>>

\* _run_llm_pipeline and _run_summary_pipeline up to the work itself: a response
\* that has its assessment is done, its pointer repaired.
Begin(j) ==
    LET t == job[j].task
        done == t \in Responses /\ assessment[t] # NoRow IN
    /\ At(j, "start")
    /\ pointer' = IF ai.optedIn /\ done THEN [pointer EXCEPT ![t] = assessment[t]] ELSE pointer
    /\ To(j, IF Enabled /\ ~done THEN "ready" ELSE "over")
    /\ UNCHANGED <<live, ai, response, assessment, suggestion, made, summary, frames,
                   request, contested, raced, switches, crashes, failures>>

\* What comes after the assessment, or after there turned out to be none to make.
Onward(t) == IF t \in FreeText THEN "followup" ELSE "over"

\* _assess_response_result and generate_executive_summary look again, at the row
\* and at the provider: with a row there already, or no provider any more, the
\* pipeline goes on without an assessment of its own making.
LookAgain(j) ==
    LET t == job[j].task IN
    /\ At(j, "ready")
    /\ To(j, IF ai.provider /\ (t \in Responses => assessment[t] = NoRow)
             THEN "calling" ELSE Onward(t))
    /\ UNCHANGED <<live, ai, response, assessment, pointer, suggestion, made, summary, frames,
                   request, contested, raced, switches, crashes, failures>>

\* Mutant: the job does not meet the unique constraint on the response.
AssessAgain(j) ==
    LET p == job[j].task IN
    /\ At(j, "calling") /\ p \in Responses
    /\ assessment' = [assessment EXCEPT ![p] = j]
    /\ pointer' = [pointer EXCEPT ![p] = j]
    /\ frames' = [frames EXCEPT ![p].assessed = @ + 1]
    /\ To(j, Onward(p))
    /\ UNCHANGED <<live, ai, response, suggestion, made, summary, request, contested, raced,
                   switches, crashes, failures>>

\* The provider has answered: the row, the pointer and the announcement in one
\* commit.  Where another job was first the unique constraint refuses the row, the
\* rollback forgets the announcement, and this job is over: the rollback has also
\* expired the inject the pipeline reads next, which raises.
Assess(j) ==
    LET p == job[j].task IN
    /\ At(j, "calling") /\ p \in Responses
    /\ IF assessment[p] = NoRow
       THEN /\ assessment' = [assessment EXCEPT ![p] = j]
            /\ pointer' = [pointer EXCEPT ![p] = j]
            /\ frames' = [frames EXCEPT ![p].assessed = @ + 1]
            /\ To(j, Onward(p))
       ELSE /\ To(j, "over")
            /\ UNCHANGED <<assessment, pointer, frames>>
    /\ UNCHANGED <<live, ai, response, suggestion, made, summary, request, contested, raced,
                   switches, crashes, failures>>

\* _suggest_inject_result, up to its provider call: it looks a third time.
Ask(j) ==
    /\ At(j, "followup")
    /\ To(j, IF suggestion[job[j].task] = "none" /\ ai.provider THEN "asking" ELSE "over")
    /\ UNCHANGED <<live, ai, response, assessment, pointer, suggestion, made, summary, frames,
                   request, contested, raced, switches, crashes, failures>>

\* The suggestion and its announcement in one commit, once per response.
Suggest(j) ==
    LET p == job[j].task IN
    /\ At(j, "asking")
    /\ To(j, "over")
    /\ IF suggestion[p] = "none"
       THEN /\ suggestion' = [suggestion EXCEPT ![p] = "pending_review"]
            /\ frames' = [frames EXCEPT ![p].suggested = @ + 1]
       ELSE UNCHANGED <<suggestion, frames>>
    /\ UNCHANGED <<live, ai, response, assessment, pointer, made, summary, request, contested,
                   raced, switches, crashes, failures>>

\* run_llm_pipeline and run_summary_pipeline: whatever raises, wherever (a provider
\* that fails or names teams the scenario does not have, a lost connection), is
\* logged, and the job has succeeded all the same.
Raises(j) ==
    /\ Running(j) /\ job[j].step # "over"
    /\ failures < MaxFailures
    /\ failures' = failures + 1
    /\ To(j, "over")
    /\ UNCHANGED <<live, ai, response, assessment, pointer, suggestion, made, summary, frames,
                   request, contested, raced, switches, crashes>>

\* generate_executive_summary: with the text in hand, the row is read,
Draft(j) ==
    /\ At(j, "calling") /\ job[j].task = "summary"
    /\ job' = [job EXCEPT ![j].step = "writing", ![j].stale = FALSE,
           ![j].saw = CASE summary.author = "none" -> "nothing"
                        [] summary.author # "none" /\ summary.edited -> "edited"
                        [] OTHER -> "draft"]
    /\ UNCHANGED <<live, ai, response, assessment, pointer, suggestion, made, summary, frames,
                   request, contested, raced, switches, crashes, failures>>

\* Everyone else holding a read of the summary row now holds an old one.
Outdated(jobs) == [j \in Jobs |-> IF jobs[j].step = "writing" THEN [jobs[j] EXCEPT !.stale = TRUE]
                                  ELSE jobs[j]]
OutdatedEdits == [q \in Requests |-> IF request[q].kind = "edit"
                                     THEN [request[q] EXCEPT !.stale = TRUE] ELSE request[q]]

\* and inserted or overwritten.  An UPDATE carries the columns that changed: the
\* flag is written only when the draft read it set.  The loser of two inserts
\* writes nothing.
WriteDraft(j) ==
    LET refused == job[j].saw = "nothing" /\ summary.author # "none" IN
    /\ At(j, "writing")
    /\ IF refused
       THEN To(j, "over") /\ UNCHANGED <<summary, request, raced>>
       ELSE /\ summary' = [author |-> "model",
                           edited |-> IF job[j].saw = "edited" THEN FALSE ELSE summary.edited]
            /\ job' = Outdated([job EXCEPT ![j].step = "over"])
            /\ request' = OutdatedEdits
            /\ raced' = job[j].stale
    /\ UNCHANGED <<live, ai, response, assessment, pointer, suggestion, made, frames, contested,
                   switches, crashes, failures>>

Finish(j) ==
    /\ At(j, "over")
    /\ job' = [job EXCEPT ![j].state = "done"]
    /\ UNCHANGED <<live, ai, response, assessment, pointer, suggestion, made, summary, frames,
                   request, contested, raced, switches, crashes, failures>>

\* The worker dies with the job in hand,
Die(j) ==
    /\ Running(j)
    /\ crashes < MaxCrashes
    /\ crashes' = crashes + 1
    /\ job' = [job EXCEPT ![j].state = "stalled", ![j].step = "start"]
    /\ UNCHANGED <<live, ai, response, assessment, pointer, suggestion, made, summary, frames,
                   request, contested, raced, switches, failures>>

\* Mutant: the sweep closes the job as failed.
CloseStalled(j) ==
    /\ job[j].state = "stalled"
    /\ job' = [job EXCEPT ![j].state = "done"]
    /\ UNCHANGED <<live, ai, response, assessment, pointer, suggestion, made, summary, frames,
                   request, contested, raced, switches, crashes, failures>>

\* and retry_stalled_jobs queues it again, unless a job for the same task waits:
\* two waiting jobs cannot hold one queueing lock.
RetryStalled(j) ==
    /\ job[j].state = "stalled"
    /\ ~Waiting(job[j].task)
    /\ job' = [job EXCEPT ![j].state = "todo"]
    /\ UNCHANGED <<live, ai, response, assessment, pointer, suggestion, made, summary, frames,
                   request, contested, raced, switches, crashes, failures>>

-----------------------------------------------------------------------------
(***************************************************************************)
(* Review and editing by hand.                                             *)
(***************************************************************************)

\* Mutant: the status is read without the row lock and not checked again.
ApproveAny(p) ==
    /\ live
    /\ suggestion[p] # "none"
    /\ suggestion' = [suggestion EXCEPT ![p] = "approved"]
    /\ made' = [made EXCEPT ![p] = @ + 1]
    /\ contested' = IF \E q \in Requests : request[q].kind = "reject" /\ request[q].of = p
                    THEN contested \cup {p} ELSE contested
    /\ UNCHANGED <<live, ai, response, assessment, pointer, summary, frames, job, request,
                   raced, switches, crashes, failures>>

\* approve: the exercise and the suggestion are locked; the inject and the new
\* status in one commit.
Approve(p) ==
    /\ live
    /\ suggestion[p] = "pending_review"
    /\ suggestion' = [suggestion EXCEPT ![p] = "approved"]
    /\ made' = [made EXCEPT ![p] = @ + 1]
    /\ contested' = IF \E q \in Requests : request[q].kind = "reject" /\ request[q].of = p
                    THEN contested \cup {p} ELSE contested
    /\ UNCHANGED <<live, ai, response, assessment, pointer, summary, frames, job, request,
                   raced, switches, crashes, failures>>

\* reject: the status is read,
RejectRead(q, p) ==
    /\ request[q] = Idle
    /\ live
    /\ suggestion[p] = "pending_review"
    /\ request' = [request EXCEPT ![q] = [Idle EXCEPT !.kind = "reject", !.of = p]]
    /\ UNCHANGED <<live, ai, response, assessment, pointer, suggestion, made, summary, frames,
                   job, contested, raced, switches, crashes, failures>>

\* and written, whatever it is by then.
RejectCommit(q) ==
    /\ request[q].kind = "reject"
    /\ suggestion' = [suggestion EXCEPT ![request[q].of] = "rejected"]
    /\ request' = [request EXCEPT ![q] = Idle]
    /\ UNCHANGED <<live, ai, response, assessment, pointer, made, summary, frames, job,
                   contested, raced, switches, crashes, failures>>

\* edit_report_summary: the row is read,
EditRead(q) ==
    /\ request[q] = Idle
    /\ summary.author # "none"
    /\ request' = [request EXCEPT ![q] = [Idle EXCEPT !.kind = "edit", !.saw = summary.edited]]
    /\ UNCHANGED <<live, ai, response, assessment, pointer, suggestion, made, summary, frames,
                   job, contested, raced, switches, crashes, failures>>

\* Mutant: the flag is left to the job that drafts.
EditTextOnly(q) ==
    /\ request[q].kind = "edit"
    /\ summary' = [summary EXCEPT !.author = "human"]
    /\ job' = Outdated(job)
    /\ request' = [OutdatedEdits EXCEPT ![q] = Idle]
    /\ raced' = request[q].stale
    /\ UNCHANGED <<live, ai, response, assessment, pointer, suggestion, made, frames, contested,
                   switches, crashes, failures>>

\* and its changed columns written.
EditCommit(q) ==
    /\ request[q].kind = "edit"
    /\ summary' = [author |-> "human", edited |-> IF request[q].saw THEN summary.edited ELSE TRUE]
    /\ job' = Outdated(job)
    /\ request' = [OutdatedEdits EXCEPT ![q] = Idle]
    /\ raced' = request[q].stale
    /\ UNCHANGED <<live, ai, response, assessment, pointer, suggestion, made, frames, contested,
                   switches, crashes, failures>>

Worker(j) ==
    \/ Fetch(j) \/ Begin(j) \/ LookAgain(j) \/ Assess(j) \/ Ask(j) \/ Suggest(j)
    \/ Draft(j) \/ WriteDraft(j) \/ Finish(j)

Next ==
    \/ Switch \/ Complete
    \/ \E p \in Responses :
          \/ Submit(p) \/ RequestDies(p) \/ Approve(p)
          \/ \E j \in Jobs : QueuePipeline(p, j) \/ TriggerAssess(p, j)
          \/ \E q \in Requests : RejectRead(q, p)
    \/ \E j \in Jobs :
          \/ DraftSummary(j) \/ Worker(j) \/ Raises(j) \/ Die(j) \/ RetryStalled(j)
    \/ \E q \in Requests : RejectCommit(q) \/ EditRead(q) \/ EditCommit(q)

\* The worker takes what waits and finishes what it has, and the sweep of
\* stalled jobs comes round.
Fairness == \A j \in Jobs : WF_vars(Worker(j)) /\ WF_vars(RetryStalled(j))

Spec == Init /\ [][Next]_vars
FairSpec == Spec /\ Fairness

-----------------------------------------------------------------------------
(***************************************************************************)
(* Properties.                                                             *)
(***************************************************************************)
JobRecords == [task : Tasks \cup {"none"}, state : {"none", "todo", "doing", "stalled", "done"},
               step : Steps, saw : {"nothing", "edited", "draft"}, stale : BOOLEAN]
RequestRecords == [kind : {"idle", "reject", "edit"}, of : Responses \cup {"none"},
                   saw : BOOLEAN, stale : BOOLEAN]

TypeOK ==
    /\ live \in BOOLEAN
    /\ ai \in [optedIn : BOOLEAN, provider : BOOLEAN]
    /\ response \in [Responses -> {"none", "saved", "answered"}]
    /\ assessment \in [Responses -> Jobs \cup {NoRow}]
    /\ pointer \in [Responses -> Jobs \cup {NoRow}]
    /\ suggestion \in [Responses -> Statuses]
    /\ made \in [Responses -> Nat]
    /\ summary \in [author : Authors, edited : BOOLEAN]
    /\ frames \in [Responses -> [assessed : Nat, suggested : Nat]]
    /\ job \in [Jobs -> JobRecords]
    /\ request \in [Requests -> RequestRecords]
    /\ contested \subseteq Responses
    /\ raced \in BOOLEAN
    /\ switches \in Nat /\ crashes \in Nat /\ failures \in Nat

\* However often a pipeline is run for a response, by jobs side by side or one
\* retried after the other, and whatever the provider does between its looks: there
\* is one assessment, one suggestion and one announcement of each, and the response
\* points at its assessment.  A suggestion may stand without an assessment, where
\* the provider was gone at the second look and back at the third.
EvaluatedOnce ==
    \A p \in Responses :
       /\ pointer[p] = assessment[p]
       /\ frames[p].assessed = IF assessment[p] = NoRow THEN 0 ELSE 1
       /\ frames[p].suggested = IF suggestion[p] = "none" THEN 0 ELSE 1
       /\ suggestion[p] # "none" => p \in FreeText

\* A suggestion becomes at most one inject, and one that did reads "approved",
\* unless a rejection had been checked before the approval and was written
\* after it.
ReviewHolds ==
    \A p \in Responses :
       /\ made[p] <= 1
       /\ suggestion[p] = "approved" => made[p] = 1
       /\ made[p] = 1 => suggestion[p] = "approved" \/ p \in contested

\* The report says a human wrote the summary exactly when a human did, unless
\* the last to write had read the row before somebody else wrote it.
LabelIsTrue ==
    raced \/ (summary.edited <=> summary.author = "human")

\* A queued assessment is made, although workers die under it, unless a pipeline
\* raised or the AI was switched.
Gone(p) == assessment[p] # NoRow \/ failures > 0 \/ switches > 0
QueuedIsAssessed ==
    \A p \in Responses :
       (\E j \in Jobs : job[j].task = p) ~> Gone(p)
=============================================================================
