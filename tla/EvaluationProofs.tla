-------------------------- MODULE EvaluationProofs --------------------------
(***************************************************************************)
(* The safety of Evaluation, for any number of responses, jobs and         *)
(* requests: types, EvaluatedOnce, ReviewHolds and LabelIsTrue.  That what *)
(* is queued is assessed is a matter of fairness and stays with the model  *)
(* checker.                                                                *)
(*                                                                         *)
(* Each invariant needs to know what a job or a request in progress has    *)
(* read (JobsAreSound, RequestsAreSound): that a suggestion is asked for   *)
(* on free-text nodes only, that a rejecter saw one, that a writer of the  *)
(* summary whose read is not stale saw the row there is.                   *)
(***************************************************************************)
EXTENDS Evaluation, TLAPS

JobIsSound(r) ==
    /\ r.step \in {"followup", "asking"} => r.task \in FreeText
    /\ r.step = "writing" /\ ~r.stale =>
          /\ r.saw = "nothing" <=> summary.author = "none"
          /\ r.saw = "edited" <=> summary.author # "none" /\ summary.edited
JobsAreSound == \A j \in Jobs : JobIsSound(job[j])

RequestIsSound(r) ==
    /\ r.kind = "reject" => /\ r.of \in Responses
                            /\ suggestion[r.of] # "none"
                            /\ made[r.of] = 1 => r.of \in contested
    /\ r.kind = "edit" => /\ summary.author # "none"
                          /\ ~r.stale => r.saw = summary.edited
RequestsAreSound == \A q \in Requests : RequestIsSound(request[q])

\* No inject comes of a suggestion before it is approved, and no label of a summary
\* before somebody wrote one.
NothingYet ==
    /\ \A p \in Responses : suggestion[p] \in {"none", "pending_review"} => made[p] = 0
    /\ summary.author = "none" => ~summary.edited

IInv == /\ TypeOK /\ JobsAreSound /\ RequestsAreSound /\ NothingYet
        /\ EvaluatedOnce /\ ReviewHolds /\ LabelIsTrue

-----------------------------------------------------------------------------
\* A record marked stale is a record of the same kind, with nothing else changed.
LEMMA StaleJobs ==
    \A r \in JobRecords : LET s == [r EXCEPT !.stale = TRUE] IN
        s \in JobRecords /\ s.task = r.task /\ s.step = r.step /\ s.saw = r.saw /\ s.stale
  BY DEF JobRecords

\* The same of requests.
LEMMA StaleRequests ==
    \A r \in RequestRecords : LET s == [r EXCEPT !.stale = TRUE] IN
        s \in RequestRecords /\ s.kind = r.kind /\ s.of = r.of /\ s.stale
  BY DEF RequestRecords

\* Every step of a job, a reviewer or an editor leaves what the others rely on.
LEMMA Step == IInv /\ [Next]_vars => IInv'
<1> SUFFICES ASSUME IInv, [Next]_vars PROVE IInv'
  OBVIOUS
<1> USE FreeTextAssumption, SummaryAssumption, JobsAssumption DEF IInv
<1>1. ASSUME NEW p \in Responses, Submit(p) PROVE IInv'
  <2>t. TypeOK'
    BY <1>1 DEF Submit, TypeOK
  <2>j. JobsAreSound'
    BY <1>1 DEF Submit, TypeOK, JobsAreSound, JobIsSound
  <2>r. RequestsAreSound'
    BY <1>1 DEF Submit, TypeOK, RequestsAreSound, RequestIsSound, NothingYet, ReviewHolds
  <2>n. NothingYet'
    BY <1>1 DEF Submit, TypeOK, NothingYet
  <2>e. EvaluatedOnce'
    BY <1>1 DEF Submit, TypeOK, EvaluatedOnce
  <2>v. ReviewHolds'
    BY <1>1 DEF Submit, ReviewHolds
  <2>l. LabelIsTrue'
    BY <1>1 DEF Submit, LabelIsTrue
  <2> QED BY <2>t, <2>j, <2>r, <2>n, <2>e, <2>v, <2>l
<1>2. ASSUME NEW p \in Responses, NEW j \in Jobs, QueuePipeline(p, j) PROVE IInv'
  <2>t. TypeOK'
    BY <1>2 DEF QueuePipeline, DeferOnce, Unused, Fresh, TypeOK, RequestsAreSound,
       RequestIsSound, JobsAreSound, JobIsSound, JobRecords, RequestRecords, Tasks,
       Statuses, Authors, Steps, NoRow
  <2>j. JobsAreSound'
    BY <1>2 DEF QueuePipeline, DeferOnce, Unused, Fresh, TypeOK, JobsAreSound, JobIsSound,
       RequestsAreSound, RequestIsSound, EvaluatedOnce
  <2>r. RequestsAreSound'
    BY <1>2 DEF QueuePipeline, DeferOnce, Unused, Fresh, TypeOK, RequestsAreSound,
       RequestIsSound, NothingYet, ReviewHolds
  <2>n. NothingYet'
    BY <1>2 DEF QueuePipeline, TypeOK, NothingYet
  <2>e. EvaluatedOnce'
    BY <1>2 DEF QueuePipeline, TypeOK, EvaluatedOnce
  <2>v. ReviewHolds'
    BY <1>2 DEF QueuePipeline, DeferOnce, NothingYet, ReviewHolds
  <2>l. LabelIsTrue'
    BY <1>2 DEF QueuePipeline, DeferOnce, NothingYet, LabelIsTrue
  <2> QED BY <2>t, <2>j, <2>r, <2>n, <2>e, <2>v, <2>l
<1>3. ASSUME NEW p \in Responses, RequestDies(p) PROVE IInv'
  <2>t. TypeOK'
    BY <1>3 DEF RequestDies, TypeOK
  <2>j. JobsAreSound'
    BY <1>3 DEF RequestDies, TypeOK, JobsAreSound, JobIsSound
  <2>r. RequestsAreSound'
    BY <1>3 DEF RequestDies, TypeOK, RequestsAreSound, RequestIsSound, NothingYet,
       ReviewHolds
  <2>n. NothingYet'
    BY <1>3 DEF RequestDies, TypeOK, NothingYet
  <2>e. EvaluatedOnce'
    BY <1>3 DEF RequestDies, TypeOK, EvaluatedOnce
  <2>v. ReviewHolds'
    BY <1>3 DEF RequestDies, ReviewHolds
  <2>l. LabelIsTrue'
    BY <1>3 DEF RequestDies, LabelIsTrue
  <2> QED BY <2>t, <2>j, <2>r, <2>n, <2>e, <2>v, <2>l
<1>4. ASSUME NEW p \in Responses, NEW j \in Jobs, TriggerAssess(p, j) PROVE IInv'
  <2>t. TypeOK'
    <3> DEFINE r == [Unused EXCEPT !.task = p, !.state = "todo"]
    <3>1. r \in JobRecords
      BY DEF Unused, JobRecords, Tasks, Steps
    <3>2. job' = job \/ job' = [job EXCEPT ![j] = r]
      BY <1>4 DEF TriggerAssess, DeferOnce
    <3>3. pointer' \in [Responses -> Jobs \cup {NoRow}]
      BY <1>4 DEF TriggerAssess, TypeOK
    <3> HIDE DEF r
    <3> QED BY <1>4, <3>1, <3>2, <3>3 DEF TriggerAssess, TypeOK
  <2>j. JobsAreSound'
    <3> DEFINE r == [Unused EXCEPT !.task = p, !.state = "todo"]
    <3>1. r.step = "start"
      BY DEF Unused
    <3>2. job' = job \/ job' = [job EXCEPT ![j] = r]
      BY <1>4 DEF TriggerAssess, DeferOnce
    <3>3. UNCHANGED <<assessment, summary>>
      BY <1>4 DEF TriggerAssess
    <3> HIDE DEF r
    <3> QED BY <3>1, <3>2, <3>3 DEF JobsAreSound, JobIsSound, TypeOK
  <2>r. RequestsAreSound'
    BY <1>4 DEF TriggerAssess, DeferOnce, Unused, Fresh, TypeOK, RequestsAreSound,
       RequestIsSound, NothingYet, ReviewHolds
  <2>n. NothingYet'
    BY <1>4 DEF TriggerAssess, TypeOK, NothingYet
  <2>e. EvaluatedOnce'
    BY <1>4 DEF TriggerAssess, TypeOK, EvaluatedOnce
  <2>v. ReviewHolds'
    BY <1>4 DEF TriggerAssess, DeferOnce, NothingYet, ReviewHolds
  <2>l. LabelIsTrue'
    BY <1>4 DEF TriggerAssess, DeferOnce, NothingYet, LabelIsTrue
  <2> QED BY <2>t, <2>j, <2>r, <2>n, <2>e, <2>v, <2>l
<1>5. ASSUME NEW j \in Jobs, DraftSummary(j) PROVE IInv'
  <2>t. TypeOK'
    BY <1>5 DEF DraftSummary, DeferOnce, Unused, Fresh, TypeOK, RequestsAreSound,
       RequestIsSound, JobsAreSound, JobIsSound, JobRecords, RequestRecords, Tasks,
       Statuses, Authors, Steps, NoRow
  <2>j. JobsAreSound'
    BY <1>5 DEF DraftSummary, DeferOnce, Unused, Fresh, TypeOK, JobsAreSound, JobIsSound,
       RequestsAreSound, RequestIsSound, EvaluatedOnce
  <2>r. RequestsAreSound'
    BY <1>5 DEF DraftSummary, DeferOnce, Unused, Fresh, TypeOK, RequestsAreSound,
       RequestIsSound, NothingYet, ReviewHolds
  <2>n. NothingYet'
    BY <1>5 DEF DraftSummary, TypeOK, NothingYet
  <2>e. EvaluatedOnce'
    BY <1>5 DEF DraftSummary, TypeOK, EvaluatedOnce
  <2>v. ReviewHolds'
    BY <1>5 DEF DraftSummary, DeferOnce, NothingYet, ReviewHolds
  <2>l. LabelIsTrue'
    BY <1>5 DEF DraftSummary, DeferOnce, NothingYet, LabelIsTrue
  <2> QED BY <2>t, <2>j, <2>r, <2>n, <2>e, <2>v, <2>l
<1>6. ASSUME Switch PROVE IInv'
  <2>t. TypeOK'
    <3>1. ai' \in [optedIn : BOOLEAN, provider : BOOLEAN]
      <4>1. ai \in [optedIn : BOOLEAN, provider : BOOLEAN]
        BY DEF TypeOK
      <4>2. ai' = [ai EXCEPT !.optedIn = ~@] \/ ai' = [ai EXCEPT !.provider = ~@]
        BY <1>6 DEF Switch
      <4> QED BY <4>1, <4>2
    <3> QED BY <1>6, <3>1 DEF Switch, TypeOK
  <2>j. JobsAreSound'
    BY <1>6 DEF Switch, TypeOK, JobsAreSound, JobIsSound
  <2>r. RequestsAreSound'
    BY <1>6 DEF Switch, TypeOK, RequestsAreSound, RequestIsSound, NothingYet, ReviewHolds
  <2>n. NothingYet'
    BY <1>6 DEF Switch, TypeOK, NothingYet
  <2>e. EvaluatedOnce'
    BY <1>6 DEF Switch, TypeOK, EvaluatedOnce
  <2>v. ReviewHolds'
    BY <1>6 DEF Switch, ReviewHolds
  <2>l. LabelIsTrue'
    BY <1>6 DEF Switch, LabelIsTrue
  <2> QED BY <2>t, <2>j, <2>r, <2>n, <2>e, <2>v, <2>l
<1>7. ASSUME Complete PROVE IInv'
  <2>t. TypeOK'
    BY <1>7 DEF Complete, TypeOK
  <2>j. JobsAreSound'
    BY <1>7 DEF Complete, TypeOK, JobsAreSound, JobIsSound
  <2>r. RequestsAreSound'
    BY <1>7 DEF Complete, TypeOK, RequestsAreSound, RequestIsSound, NothingYet, ReviewHolds
  <2>n. NothingYet'
    BY <1>7 DEF Complete, TypeOK, NothingYet
  <2>e. EvaluatedOnce'
    BY <1>7 DEF Complete, TypeOK, EvaluatedOnce
  <2>v. ReviewHolds'
    BY <1>7 DEF Complete, ReviewHolds
  <2>l. LabelIsTrue'
    BY <1>7 DEF Complete, LabelIsTrue
  <2> QED BY <2>t, <2>j, <2>r, <2>n, <2>e, <2>v, <2>l
<1>8. ASSUME NEW j \in Jobs, Fetch(j) PROVE IInv'
  <2>t. TypeOK'
    <3>1. job' \in [Jobs -> JobRecords]
      <4> DEFINE r == [job[j] EXCEPT !.state = "doing", !.step = "start", !.saw = "nothing",
                                 !.stale = FALSE]
      <4>1. job' = [job EXCEPT ![j] = r]
        BY <1>8 DEF Fetch
      <4>2. job[j] \in JobRecords
        BY DEF TypeOK
      <4>3. r \in JobRecords
        BY <4>2 DEF JobRecords, Steps
      <4> QED BY <4>1, <4>3 DEF TypeOK
    <3> QED BY <1>8, <3>1 DEF Fetch, TypeOK
  <2>j. JobsAreSound'
    BY <1>8 DEF Fetch, TypeOK, JobsAreSound, JobIsSound
  <2>r. RequestsAreSound'
    BY <1>8 DEF Fetch, TypeOK, RequestsAreSound, RequestIsSound, NothingYet, ReviewHolds
  <2>n. NothingYet'
    BY <1>8 DEF Fetch, TypeOK, NothingYet
  <2>e. EvaluatedOnce'
    BY <1>8 DEF Fetch, TypeOK, EvaluatedOnce
  <2>v. ReviewHolds'
    BY <1>8 DEF Fetch, ReviewHolds
  <2>l. LabelIsTrue'
    BY <1>8 DEF Fetch, LabelIsTrue
  <2> QED BY <2>t, <2>j, <2>r, <2>n, <2>e, <2>v, <2>l
<1>9. ASSUME NEW j \in Jobs, Begin(j) PROVE IInv'
  <2>t. TypeOK'
    <3>1. job' \in [Jobs -> JobRecords]
      <4>1. PICK s \in Steps : job' = [job EXCEPT ![j].step = s]
        BY <1>9 DEF Begin, To, Steps
      <4>2. job[j] \in JobRecords
        BY DEF TypeOK
      <4>3. [job[j] EXCEPT !.step = s] \in JobRecords
        BY <4>2 DEF JobRecords
      <4> QED BY <4>1, <4>3 DEF TypeOK
    <3> QED BY <1>9, <3>1 DEF Begin, At, TypeOK
  <2>j. JobsAreSound'
    BY <1>9 DEF Begin, At, To, TypeOK, JobsAreSound, JobIsSound, RequestsAreSound,
       RequestIsSound, EvaluatedOnce
  <2>r. RequestsAreSound'
    BY <1>9 DEF Begin, At, To, TypeOK, RequestsAreSound, RequestIsSound, NothingYet,
       ReviewHolds
  <2>n. NothingYet'
    BY <1>9 DEF Begin, NothingYet
  <2>e. EvaluatedOnce'
    BY <1>9 DEF Begin, EvaluatedOnce
  <2>v. ReviewHolds'
    BY <1>9 DEF Begin, NothingYet, ReviewHolds
  <2>l. LabelIsTrue'
    BY <1>9 DEF Begin, NothingYet, LabelIsTrue
  <2> QED BY <2>t, <2>j, <2>r, <2>n, <2>e, <2>v, <2>l
<1>10. ASSUME NEW j \in Jobs, LookAgain(j) PROVE IInv'
  <2>t. TypeOK'
    <3>1. job' \in [Jobs -> JobRecords]
      <4>1. PICK s \in Steps : job' = [job EXCEPT ![j].step = s]
        BY <1>10 DEF LookAgain, Onward, To, Steps
      <4>2. job[j] \in JobRecords
        BY DEF TypeOK
      <4>3. [job[j] EXCEPT !.step = s] \in JobRecords
        BY <4>2 DEF JobRecords
      <4> QED BY <4>1, <4>3 DEF TypeOK
    <3> QED BY <1>10, <3>1 DEF LookAgain, TypeOK
  <2>j. JobsAreSound'
    BY <1>10 DEF LookAgain, Onward, To, TypeOK, JobsAreSound, JobIsSound
  <2>r. RequestsAreSound'
    BY <1>10 DEF LookAgain, RequestsAreSound, RequestIsSound
  <2>n. NothingYet' /\ EvaluatedOnce' /\ ReviewHolds' /\ LabelIsTrue'
    BY <1>10 DEF LookAgain, NothingYet, EvaluatedOnce, ReviewHolds, LabelIsTrue
  <2> QED BY <2>t, <2>j, <2>r, <2>n
<1>11. ASSUME NEW j \in Jobs, Assess(j) PROVE IInv'
  <2>t. TypeOK'
    <3>1. job' \in [Jobs -> JobRecords]
      <4>1. PICK s \in Steps : job' = [job EXCEPT ![j].step = s]
        BY <1>11 DEF Assess, To, Onward, Steps
      <4>2. job[j] \in JobRecords
        BY DEF TypeOK
      <4>3. [job[j] EXCEPT !.step = s] \in JobRecords
        BY <4>2 DEF JobRecords
      <4> QED BY <4>1, <4>3 DEF TypeOK
    <3> DEFINE p == job[j].task
    <3>2. /\ assessment' \in [Responses -> Jobs \cup {NoRow}]
          /\ pointer' \in [Responses -> Jobs \cup {NoRow}]
      <4>1. /\ assessment \in [Responses -> Jobs \cup {NoRow}]
            /\ pointer \in [Responses -> Jobs \cup {NoRow}]
        BY DEF TypeOK
      <4>2. \/ assessment' = assessment /\ pointer' = pointer
            \/ /\ assessment' = [assessment EXCEPT ![p] = j]
               /\ pointer' = [pointer EXCEPT ![p] = j]
        BY <1>11 DEF Assess
      <4> HIDE DEF p
      <4> QED BY <4>1, <4>2
    <3>3. frames' = frames \/ frames' = [frames EXCEPT ![p].assessed = @ + 1]
      BY <1>11 DEF Assess
    <3>4. p \in Responses
      BY <1>11 DEF Assess
    <3>5. frames' \in [Responses -> [assessed : Nat, suggested : Nat]]
      <4>1. frames[p] \in [assessed : Nat, suggested : Nat]
        BY <3>4 DEF TypeOK
      <4>2. [frames[p] EXCEPT !.assessed = @ + 1] \in [assessed : Nat, suggested : Nat]
        BY <4>1
      <4> HIDE DEF p
      <4> QED BY <3>3, <4>2 DEF TypeOK
    <3> QED BY <1>11, <3>1, <3>2, <3>5 DEF Assess, TypeOK
  <2>j. JobsAreSound'
    <3>1. PICK s \in {"followup", "over"} :
             job' = [job EXCEPT ![j].step = s] /\ (s = "followup" => job[j].task \in FreeText)
      BY <1>11 DEF Assess, Onward, To
    <3>2. UNCHANGED summary
      BY <1>11 DEF Assess
    <3>3. job[j] \in JobRecords
      BY DEF TypeOK
    <3>4. /\ job'[j].step = s /\ job'[j].task = job[j].task
          /\ \A k \in Jobs : k # j => job'[k] = job[k]
      BY <3>1, <3>3 DEF TypeOK
    <3>5. ASSUME NEW k \in Jobs PROVE JobIsSound(job[k])'
      <4>1. CASE k = j
        BY <3>1, <3>2, <3>4, <4>1 DEF JobIsSound
      <4>2. CASE k # j
        BY <3>2, <3>4, <4>2 DEF JobIsSound, JobsAreSound
      <4> QED BY <4>1, <4>2
    <3> QED BY <3>5 DEF JobsAreSound
  <2>r. RequestsAreSound'
    BY <1>11 DEF Assess, At, To, TypeOK, RequestsAreSound, RequestIsSound, NothingYet,
       ReviewHolds
  <2>n. NothingYet'
    BY <1>11 DEF Assess, NothingYet
  <2>e. EvaluatedOnce'
    <3> DEFINE p == job[j].task
    <3>1. p \in Responses /\ suggestion' = suggestion
      BY <1>11 DEF Assess
    <3>2. \/ UNCHANGED <<assessment, pointer, frames>>
          \/ /\ assessment[p] = NoRow
             /\ assessment' = [assessment EXCEPT ![p] = j]
             /\ pointer' = [pointer EXCEPT ![p] = j]
             /\ frames' = [frames EXCEPT ![p].assessed = @ + 1]
      BY <1>11 DEF Assess
    <3>3. /\ assessment \in [Responses -> Jobs \cup {NoRow}]
          /\ pointer \in [Responses -> Jobs \cup {NoRow}]
          /\ frames \in [Responses -> [assessed : Nat, suggested : Nat]]
      BY DEF TypeOK
    <3>4. j # NoRow
      BY JobsAssumption DEF NoRow
    <3> HIDE DEF p
    <3>5. CASE UNCHANGED <<assessment, pointer, frames>>
      BY <3>1, <3>5 DEF EvaluatedOnce
    <3>6. CASE /\ assessment[p] = NoRow
               /\ assessment' = [assessment EXCEPT ![p] = j]
               /\ pointer' = [pointer EXCEPT ![p] = j]
               /\ frames' = [frames EXCEPT ![p].assessed = @ + 1]
      <4>1. /\ assessment'[p] = j /\ pointer'[p] = j /\ frames[p].assessed = 0
            /\ frames'[p].assessed = frames[p].assessed + 1
            /\ frames'[p].suggested = frames[p].suggested
        BY <3>1, <3>3, <3>6 DEF EvaluatedOnce
      <4>2. \A x \in Responses \ {p} : /\ assessment'[x] = assessment[x]
                                        /\ pointer'[x] = pointer[x] /\ frames'[x] = frames[x]
        BY <3>3, <3>6
      <4> QED BY <3>1, <3>4, <4>1, <4>2 DEF EvaluatedOnce
    <3> QED BY <3>2, <3>5, <3>6
  <2>v. ReviewHolds'
    BY <1>11 DEF Assess, NothingYet, ReviewHolds
  <2>l. LabelIsTrue'
    BY <1>11 DEF Assess, NothingYet, LabelIsTrue
  <2> QED BY <2>t, <2>j, <2>r, <2>n, <2>e, <2>v, <2>l
<1>12. ASSUME NEW j \in Jobs, Ask(j) PROVE IInv'
  <2>t. TypeOK'
    <3>1. job' \in [Jobs -> JobRecords]
      <4>1. PICK s \in Steps : job' = [job EXCEPT ![j].step = s]
        BY <1>12 DEF Ask, To, Steps
      <4>2. job[j] \in JobRecords
        BY DEF TypeOK
      <4>3. [job[j] EXCEPT !.step = s] \in JobRecords
        BY <4>2 DEF JobRecords
      <4> QED BY <4>1, <4>3 DEF TypeOK
    <3> QED BY <1>12, <3>1 DEF Ask, At, TypeOK
  <2>j. JobsAreSound'
    BY <1>12 DEF Ask, At, To, TypeOK, JobsAreSound, JobIsSound, RequestsAreSound,
       RequestIsSound, EvaluatedOnce
  <2>r. RequestsAreSound'
    BY <1>12 DEF Ask, At, To, TypeOK, RequestsAreSound, RequestIsSound, NothingYet,
       ReviewHolds
  <2>n. NothingYet'
    BY <1>12 DEF Ask, NothingYet
  <2>e. EvaluatedOnce'
    BY <1>12 DEF Ask, EvaluatedOnce
  <2>v. ReviewHolds'
    BY <1>12 DEF Ask, NothingYet, ReviewHolds
  <2>l. LabelIsTrue'
    BY <1>12 DEF Ask, NothingYet, LabelIsTrue
  <2> QED BY <2>t, <2>j, <2>r, <2>n, <2>e, <2>v, <2>l
<1>13. ASSUME NEW j \in Jobs, Suggest(j) PROVE IInv'
  <2>t. TypeOK'
    <3>1. job' \in [Jobs -> JobRecords]
      <4>1. PICK s \in Steps : job' = [job EXCEPT ![j].step = s]
        BY <1>13 DEF Suggest, To, Steps
      <4>2. job[j] \in JobRecords
        BY DEF TypeOK
      <4>3. [job[j] EXCEPT !.step = s] \in JobRecords
        BY <4>2 DEF JobRecords
      <4> QED BY <4>1, <4>3 DEF TypeOK
    <3> DEFINE p == job[j].task
    <3>2. suggestion' \in [Responses -> Statuses]
      BY <1>13 DEF Suggest, TypeOK, Statuses
    <3>3. frames' = frames \/ frames' = [frames EXCEPT ![p].suggested = @ + 1]
      BY <1>13 DEF Suggest
    <3>4. p \in Responses
      BY <1>13 DEF Suggest, At, JobsAreSound, JobIsSound
    <3>5. frames' \in [Responses -> [assessed : Nat, suggested : Nat]]
      <4>1. frames[p] \in [assessed : Nat, suggested : Nat]
        BY <3>4 DEF TypeOK
      <4>2. [frames[p] EXCEPT !.suggested = @ + 1] \in [assessed : Nat, suggested : Nat]
        BY <4>1
      <4> HIDE DEF p
      <4> QED BY <3>3, <4>2 DEF TypeOK
    <3> QED BY <1>13, <3>1, <3>2, <3>5 DEF Suggest, TypeOK
  <2>j. JobsAreSound'
    BY <1>13 DEF Suggest, At, To, TypeOK, JobsAreSound, JobIsSound, RequestsAreSound,
       RequestIsSound, EvaluatedOnce
  <2>r. RequestsAreSound'
    BY <1>13 DEF Suggest, At, To, TypeOK, RequestsAreSound, RequestIsSound, NothingYet,
       ReviewHolds
  <2>n. NothingYet'
    BY <1>13 DEF Suggest, At, To, TypeOK, NothingYet
  <2>e. EvaluatedOnce'
    BY <1>13 DEF Suggest, At, To, TypeOK, JobsAreSound, JobIsSound, RequestsAreSound,
       RequestIsSound, EvaluatedOnce
  <2>v. ReviewHolds'
    BY <1>13 DEF Suggest, At, To, TypeOK, NothingYet, ReviewHolds
  <2>l. LabelIsTrue'
    BY <1>13 DEF Suggest, NothingYet, LabelIsTrue
  <2> QED BY <2>t, <2>j, <2>r, <2>n, <2>e, <2>v, <2>l
<1>14. ASSUME NEW j \in Jobs, Raises(j) PROVE IInv'
  <2>t. TypeOK'
    <3>1. job' \in [Jobs -> JobRecords]
      <4>1. PICK s \in Steps : job' = [job EXCEPT ![j].step = s]
        BY <1>14 DEF Raises, To, Steps
      <4>2. job[j] \in JobRecords
        BY DEF TypeOK
      <4>3. [job[j] EXCEPT !.step = s] \in JobRecords
        BY <4>2 DEF JobRecords
      <4> QED BY <4>1, <4>3 DEF TypeOK
    <3> QED BY <1>14, <3>1 DEF Raises, TypeOK
  <2>j. JobsAreSound'
    BY <1>14 DEF Raises, To, TypeOK, JobsAreSound, JobIsSound
  <2>r. RequestsAreSound'
    BY <1>14 DEF Raises, To, TypeOK, RequestsAreSound, RequestIsSound, NothingYet,
       ReviewHolds
  <2>n. NothingYet'
    BY <1>14 DEF Raises, NothingYet
  <2>e. EvaluatedOnce'
    BY <1>14 DEF Raises, EvaluatedOnce
  <2>v. ReviewHolds'
    BY <1>14 DEF Raises, ReviewHolds
  <2>l. LabelIsTrue'
    BY <1>14 DEF Raises, LabelIsTrue
  <2> QED BY <2>t, <2>j, <2>r, <2>n, <2>e, <2>v, <2>l
<1>15. ASSUME NEW j \in Jobs, Draft(j) PROVE IInv'
  <2>t. TypeOK'
    <3>1. job' \in [Jobs -> JobRecords]
      <4> DEFINE r == [job[j] EXCEPT !.step = "writing", !.stale = FALSE,
                       !.saw = CASE summary.author = "none" -> "nothing"
                                 [] summary.author # "none" /\ summary.edited -> "edited"
                                 [] OTHER -> "draft"]
      <4>1. job' = [job EXCEPT ![j] = r]
        BY <1>15 DEF Draft
      <4>2. job[j] \in JobRecords
        BY DEF TypeOK
      <4>3. r \in JobRecords
        BY <4>2 DEF JobRecords, Steps
      <4> QED BY <4>1, <4>3 DEF TypeOK
    <3> QED BY <1>15, <3>1 DEF Draft, TypeOK
  <2>j. JobsAreSound'
    BY <1>15 DEF Draft, At, TypeOK, JobsAreSound, JobIsSound
  <2>r. RequestsAreSound'
    BY <1>15 DEF Draft, At, TypeOK, RequestsAreSound, RequestIsSound, NothingYet,
       ReviewHolds
  <2>n. NothingYet'
    BY <1>15 DEF Draft, NothingYet
  <2>e. EvaluatedOnce'
    BY <1>15 DEF Draft, EvaluatedOnce
  <2>v. ReviewHolds'
    BY <1>15 DEF Draft, ReviewHolds
  <2>l. LabelIsTrue'
    BY <1>15 DEF Draft, LabelIsTrue
  <2> QED BY <2>t, <2>j, <2>r, <2>n, <2>e, <2>v, <2>l
<1>16. ASSUME NEW j \in Jobs, WriteDraft(j) PROVE IInv'
  <2> DEFINE refused == job[j].saw = "nothing" /\ summary.author # "none"
             over == [job EXCEPT ![j].step = "over"]
  <2>1. /\ job[j].step = "writing"
        /\ UNCHANGED <<live, ai, response, assessment, pointer, suggestion, made, frames,
                       contested, switches, crashes, failures>>
        /\ \/ job' = over /\ UNCHANGED <<summary, request, raced>>
           \/ /\ ~refused
              /\ summary' = [author |-> "model",
                             edited |-> IF job[j].saw = "edited" THEN FALSE ELSE summary.edited]
              /\ job' = Outdated(over)
              /\ request' = OutdatedEdits
              /\ raced' = job[j].stale
    BY <1>16 DEF WriteDraft, At, To
  <2>2. /\ over \in [Jobs -> JobRecords]
        /\ \A k \in Jobs : over[k].task = job[k].task
        /\ \A k \in Jobs : over[k].step = IF k = j THEN "over" ELSE job[k].step
        /\ \A k \in Jobs : over[k].saw = job[k].saw /\ over[k].stale = job[k].stale
    <3>1. job \in [Jobs -> JobRecords]
      BY DEF TypeOK
    <3>2. [job[j] EXCEPT !.step = "over"] \in JobRecords
      BY <3>1 DEF JobRecords, Steps
    <3> QED BY <3>1, <3>2
  <2> HIDE DEF over
  <2>3. /\ Outdated(over) \in [Jobs -> JobRecords]
        /\ \A k \in Jobs : /\ Outdated(over)[k].task = over[k].task
                           /\ Outdated(over)[k].step = over[k].step
                           /\ over[k].step = "writing" => Outdated(over)[k].stale
    <3>1. \A k \in Jobs : over[k] \in JobRecords
      BY <2>2
    <3> QED BY <2>2, <3>1, StaleJobs DEF Outdated
  <2>4. /\ OutdatedEdits \in [Requests -> RequestRecords]
        /\ \A q \in Requests : /\ OutdatedEdits[q].kind = request[q].kind
                               /\ OutdatedEdits[q].of = request[q].of
                               /\ request[q].kind = "edit" => OutdatedEdits[q].stale
    <3>1. \A q \in Requests : request[q] \in RequestRecords
      BY DEF TypeOK
    <3> QED BY <3>1, StaleRequests DEF OutdatedEdits
  <2>5. CASE job' = over /\ UNCHANGED <<summary, request, raced>>
    <3>1. JobsAreSound'
      BY <2>1, <2>2, <2>5 DEF JobsAreSound, JobIsSound
    <3>2. RequestsAreSound' /\ NothingYet' /\ EvaluatedOnce' /\ ReviewHolds' /\ LabelIsTrue'
      BY <2>1, <2>5 DEF RequestsAreSound, RequestIsSound, NothingYet, EvaluatedOnce,
         ReviewHolds, LabelIsTrue
    <3> QED BY <2>1, <2>2, <2>5, <3>1, <3>2 DEF TypeOK
  <2>6. CASE /\ ~refused
             /\ summary' = [author |-> "model",
                            edited |-> IF job[j].saw = "edited" THEN FALSE ELSE summary.edited]
             /\ job' = Outdated(over)
             /\ request' = OutdatedEdits
             /\ raced' = job[j].stale
    <3>1. summary' \in [author : Authors, edited : BOOLEAN] /\ raced' \in BOOLEAN
      <4>1. summary \in [author : Authors, edited : BOOLEAN] /\ job[j] \in JobRecords
        BY DEF TypeOK
      <4> QED BY <2>6, <4>1 DEF Authors, JobRecords
    <3>2. TypeOK'
      BY <2>1, <2>3, <2>4, <2>6, <3>1 DEF TypeOK
    <3>3. JobsAreSound'
      BY <2>1, <2>2, <2>3, <2>6 DEF JobsAreSound, JobIsSound
    <3>4. RequestsAreSound'
      BY <2>1, <2>4, <2>6 DEF RequestsAreSound, RequestIsSound
    <3>5. LabelIsTrue'
      <4>1. JobIsSound(job[j])
        BY DEF JobsAreSound
      <4>2. job[j].stale \in BOOLEAN /\ summary.edited \in BOOLEAN
        BY DEF TypeOK, JobRecords
      <4>3. summary'.author = "model"
            /\ summary'.edited = IF job[j].saw = "edited" THEN FALSE ELSE summary.edited
        BY <2>6
      <4> QED BY <2>1, <2>6, <4>1, <4>2, <4>3 DEF JobIsSound, LabelIsTrue, NothingYet
    <3>6. NothingYet' /\ EvaluatedOnce' /\ ReviewHolds'
      BY <2>1, <2>6 DEF NothingYet, EvaluatedOnce, ReviewHolds
    <3> QED BY <3>2, <3>3, <3>4, <3>5, <3>6
  <2> QED BY <2>1, <2>5, <2>6
<1>17. ASSUME NEW j \in Jobs, Finish(j) PROVE IInv'
  <2>t. TypeOK'
    <3>1. job' \in [Jobs -> JobRecords]
      <4> DEFINE r == [job[j] EXCEPT !.state = "done"]
      <4>1. job' = [job EXCEPT ![j] = r]
        BY <1>17 DEF Finish
      <4>2. job[j] \in JobRecords
        BY DEF TypeOK
      <4>3. r \in JobRecords
        BY <4>2 DEF JobRecords
      <4> QED BY <4>1, <4>3 DEF TypeOK
    <3> QED BY <1>17, <3>1 DEF Finish, TypeOK
  <2>j. JobsAreSound'
    BY <1>17 DEF Finish, TypeOK, JobsAreSound, JobIsSound
  <2>r. RequestsAreSound'
    BY <1>17 DEF Finish, TypeOK, RequestsAreSound, RequestIsSound, NothingYet, ReviewHolds
  <2>n. NothingYet'
    BY <1>17 DEF Finish, TypeOK, NothingYet
  <2>e. EvaluatedOnce'
    BY <1>17 DEF Finish, TypeOK, EvaluatedOnce
  <2>v. ReviewHolds'
    BY <1>17 DEF Finish, ReviewHolds
  <2>l. LabelIsTrue'
    BY <1>17 DEF Finish, LabelIsTrue
  <2> QED BY <2>t, <2>j, <2>r, <2>n, <2>e, <2>v, <2>l
<1>18. ASSUME NEW j \in Jobs, Die(j) PROVE IInv'
  <2>t. TypeOK'
    <3>1. job' \in [Jobs -> JobRecords]
      <4> DEFINE r == [job[j] EXCEPT !.state = "stalled", !.step = "start"]
      <4>1. job' = [job EXCEPT ![j] = r]
        BY <1>18 DEF Die
      <4>2. job[j] \in JobRecords
        BY DEF TypeOK
      <4>3. r \in JobRecords
        BY <4>2 DEF JobRecords, Steps
      <4> QED BY <4>1, <4>3 DEF TypeOK
    <3> QED BY <1>18, <3>1 DEF Die, TypeOK
  <2>j. JobsAreSound'
    BY <1>18 DEF Die, TypeOK, JobsAreSound, JobIsSound
  <2>r. RequestsAreSound'
    BY <1>18 DEF Die, TypeOK, RequestsAreSound, RequestIsSound, NothingYet, ReviewHolds
  <2>n. NothingYet'
    BY <1>18 DEF Die, TypeOK, NothingYet
  <2>e. EvaluatedOnce'
    BY <1>18 DEF Die, TypeOK, EvaluatedOnce
  <2>v. ReviewHolds'
    BY <1>18 DEF Die, ReviewHolds
  <2>l. LabelIsTrue'
    BY <1>18 DEF Die, LabelIsTrue
  <2> QED BY <2>t, <2>j, <2>r, <2>n, <2>e, <2>v, <2>l
<1>19. ASSUME NEW j \in Jobs, RetryStalled(j) PROVE IInv'
  <2>t. TypeOK'
    <3>1. job' \in [Jobs -> JobRecords]
      <4> DEFINE r == [job[j] EXCEPT !.state = "todo"]
      <4>1. job' = [job EXCEPT ![j] = r]
        BY <1>19 DEF RetryStalled
      <4>2. job[j] \in JobRecords
        BY DEF TypeOK
      <4>3. r \in JobRecords
        BY <4>2 DEF JobRecords
      <4> QED BY <4>1, <4>3 DEF TypeOK
    <3> QED BY <1>19, <3>1 DEF RetryStalled, TypeOK
  <2>j. JobsAreSound'
    BY <1>19 DEF RetryStalled, TypeOK, JobsAreSound, JobIsSound
  <2>r. RequestsAreSound'
    BY <1>19 DEF RetryStalled, TypeOK, RequestsAreSound, RequestIsSound, NothingYet,
       ReviewHolds
  <2>n. NothingYet'
    BY <1>19 DEF RetryStalled, TypeOK, NothingYet
  <2>e. EvaluatedOnce'
    BY <1>19 DEF RetryStalled, TypeOK, EvaluatedOnce
  <2>v. ReviewHolds'
    BY <1>19 DEF RetryStalled, ReviewHolds
  <2>l. LabelIsTrue'
    BY <1>19 DEF RetryStalled, LabelIsTrue
  <2> QED BY <2>t, <2>j, <2>r, <2>n, <2>e, <2>v, <2>l
<1>20. ASSUME NEW p \in Responses, Approve(p) PROVE IInv'
  <2>t. TypeOK'
    BY <1>20 DEF Approve, TypeOK, RequestsAreSound, RequestIsSound, Statuses, Authors,
       Steps, NoRow
  <2>j. JobsAreSound'
    BY <1>20 DEF Approve, TypeOK, JobsAreSound, JobIsSound
  <2>r. RequestsAreSound'
    BY <1>20 DEF Approve, TypeOK, RequestsAreSound, RequestIsSound, NothingYet, ReviewHolds
  <2>n. NothingYet'
    BY <1>20 DEF Approve, TypeOK, NothingYet
  <2>e. EvaluatedOnce'
    BY <1>20 DEF Approve, TypeOK, EvaluatedOnce
  <2>v. ReviewHolds'
    BY <1>20 DEF Approve, TypeOK, NothingYet, ReviewHolds
  <2>l. LabelIsTrue'
    BY <1>20 DEF Approve, LabelIsTrue
  <2> QED BY <2>t, <2>j, <2>r, <2>n, <2>e, <2>v, <2>l
<1>21. ASSUME NEW p \in Responses, NEW q \in Requests, RejectRead(q, p) PROVE IInv'
  <2>t. TypeOK'
    BY <1>21 DEF RejectRead, Idle, TypeOK, RequestsAreSound, RequestIsSound, JobsAreSound,
       JobIsSound, JobRecords, RequestRecords
  <2>j. JobsAreSound'
    BY <1>21 DEF RejectRead, Idle, TypeOK, JobsAreSound, JobIsSound
  <2>r. RequestsAreSound'
    BY <1>21 DEF RejectRead, Idle, TypeOK, RequestsAreSound, RequestIsSound, NothingYet,
       ReviewHolds
  <2>n. NothingYet'
    BY <1>21 DEF RejectRead, NothingYet
  <2>e. EvaluatedOnce'
    BY <1>21 DEF RejectRead, EvaluatedOnce
  <2>v. ReviewHolds'
    BY <1>21 DEF RejectRead, ReviewHolds
  <2>l. LabelIsTrue'
    BY <1>21 DEF RejectRead, LabelIsTrue
  <2> QED BY <2>t, <2>j, <2>r, <2>n, <2>e, <2>v, <2>l
<1>22. ASSUME NEW q \in Requests, RejectCommit(q) PROVE IInv'
  <2>t. TypeOK'
    BY <1>22 DEF RejectCommit, Idle, TypeOK, RequestsAreSound, RequestIsSound, JobsAreSound,
       JobIsSound, JobRecords, RequestRecords, Tasks, Statuses, Authors, Steps, NoRow
  <2>j. JobsAreSound'
    BY <1>22 DEF RejectCommit, Idle, TypeOK, JobsAreSound, JobIsSound
  <2>r. RequestsAreSound'
    BY <1>22 DEF RejectCommit, Idle, TypeOK, RequestsAreSound, RequestIsSound, NothingYet,
       ReviewHolds
  <2>n. NothingYet'
    BY <1>22 DEF RejectCommit, NothingYet
  <2>e. EvaluatedOnce'
    BY <1>22 DEF RejectCommit, Idle, TypeOK, JobsAreSound, JobIsSound, RequestsAreSound,
       RequestIsSound, EvaluatedOnce
  <2>v. ReviewHolds'
    BY <1>22 DEF RejectCommit, Idle, TypeOK, NothingYet, RequestsAreSound, RequestIsSound,
       ReviewHolds
  <2>l. LabelIsTrue'
    BY <1>22 DEF RejectCommit, LabelIsTrue
  <2> QED BY <2>t, <2>j, <2>r, <2>n, <2>e, <2>v, <2>l
<1>23. ASSUME NEW q \in Requests, EditRead(q) PROVE IInv'
  <2>t. TypeOK'
    BY <1>23 DEF EditRead, Idle, TypeOK, RequestsAreSound, RequestIsSound, JobsAreSound,
       JobIsSound, JobRecords, RequestRecords
  <2>j. JobsAreSound'
    BY <1>23 DEF EditRead, Idle, TypeOK, JobsAreSound, JobIsSound
  <2>r. RequestsAreSound'
    BY <1>23 DEF EditRead, Idle, TypeOK, RequestsAreSound, RequestIsSound, NothingYet,
       ReviewHolds
  <2>n. NothingYet'
    BY <1>23 DEF EditRead, NothingYet
  <2>e. EvaluatedOnce'
    BY <1>23 DEF EditRead, EvaluatedOnce
  <2>v. ReviewHolds'
    BY <1>23 DEF EditRead, ReviewHolds
  <2>l. LabelIsTrue'
    BY <1>23 DEF EditRead, LabelIsTrue
  <2> QED BY <2>t, <2>j, <2>r, <2>n, <2>e, <2>v, <2>l
<1>24. ASSUME NEW q \in Requests, EditCommit(q) PROVE IInv'
  <2>t. TypeOK'
    <3>1. Outdated(job) \in [Jobs -> JobRecords]
      <4>1. \A k \in Jobs : job[k] \in JobRecords
        BY DEF TypeOK
      <4> QED BY <4>1, StaleJobs DEF Outdated
    <3>2. [OutdatedEdits EXCEPT ![q] = Idle] \in [Requests -> RequestRecords]
      <4>1. \A x \in Requests : request[x] \in RequestRecords
        BY DEF TypeOK
      <4>2. Idle \in RequestRecords
        BY DEF Idle, RequestRecords
      <4> QED BY <4>1, <4>2, StaleRequests DEF OutdatedEdits
    <3>3. summary' \in [author : Authors, edited : BOOLEAN] /\ raced' \in BOOLEAN
      <4>1. summary \in [author : Authors, edited : BOOLEAN] /\ request[q] \in RequestRecords
        BY DEF TypeOK
      <4> QED BY <1>24, <4>1 DEF EditCommit, Authors, RequestRecords
    <3> QED BY <1>24, <3>1, <3>2, <3>3 DEF EditCommit, TypeOK
  <2>j. JobsAreSound'
    BY <1>24 DEF EditCommit, Outdated, OutdatedEdits, Idle, TypeOK, JobsAreSound,
       JobIsSound, RequestsAreSound, RequestIsSound, EvaluatedOnce
  <2>r. RequestsAreSound'
    <3>1. /\ request' = [OutdatedEdits EXCEPT ![q] = Idle] /\ summary'.author = "human"
          /\ UNCHANGED <<suggestion, made, contested>>
      BY <1>24 DEF EditCommit
    <3>2. \A x \in Requests : x # q =>
             /\ request'[x].kind = request[x].kind /\ request'[x].of = request[x].of
             /\ request[x].kind = "edit" => request'[x].stale
      BY <3>1 DEF OutdatedEdits, TypeOK, RequestRecords
    <3>3. request'[q].kind = "idle"
      BY <3>1 DEF OutdatedEdits, Idle
    <3> QED BY <3>1, <3>2, <3>3 DEF RequestsAreSound, RequestIsSound
  <2>n. NothingYet'
    BY <1>24 DEF EditCommit, TypeOK, NothingYet
  <2>e. EvaluatedOnce'
    BY <1>24 DEF EditCommit, TypeOK, EvaluatedOnce
  <2>v. ReviewHolds'
    BY <1>24 DEF EditCommit, Outdated, NothingYet, ReviewHolds
  <2>l. LabelIsTrue'
    BY <1>24 DEF EditCommit, Outdated, OutdatedEdits, RequestsAreSound, RequestIsSound,
       LabelIsTrue
  <2> QED BY <2>t, <2>j, <2>r, <2>n, <2>e, <2>v, <2>l
<1>25. CASE UNCHANGED vars
  BY <1>25 DEF vars, TypeOK, JobsAreSound, JobIsSound, RequestsAreSound, RequestIsSound,
     NothingYet, EvaluatedOnce, ReviewHolds, LabelIsTrue
<1> QED BY <1>1, <1>2, <1>3, <1>4, <1>5, <1>6, <1>7, <1>8, <1>9, <1>10, <1>11, <1>12, <1>13, <1>14,
           <1>15, <1>16, <1>17, <1>18, <1>19, <1>20, <1>21, <1>22, <1>23, <1>24, <1>25 DEF
           Next, Worker

\* At the start nothing was asked for.
LEMMA Start == Init => IInv
<1> SUFFICES ASSUME Init PROVE IInv
  OBVIOUS
<1>1. /\ Unused \in JobRecords /\ Unused.step = "start"
      /\ Idle \in RequestRecords /\ Idle.kind = "idle"
  BY DEF Unused, Idle, JobRecords, RequestRecords, Tasks, Steps
<1>2. TypeOK
  BY <1>1 DEF Init, TypeOK, Statuses, Authors
<1>3. JobsAreSound /\ RequestsAreSound
  BY <1>1 DEF Init, JobsAreSound, JobIsSound, RequestsAreSound, RequestIsSound
<1>4. NothingYet /\ EvaluatedOnce /\ ReviewHolds /\ LabelIsTrue
  BY DEF Init, NothingYet, EvaluatedOnce, ReviewHolds, LabelIsTrue
<1> QED BY <1>2, <1>3, <1>4 DEF IInv

\* What the theorems rest on.
LEMMA Inductive == Spec => []IInv
  BY Start, Step, PTL DEF Spec

-----------------------------------------------------------------------------
\* Rows, jobs and what requests have read keep their types.
THEOREM TypeCorrect == Spec => []TypeOK
<1>1. IInv => TypeOK
  BY DEF IInv
<1> QED BY Inductive, <1>1, PTL

\* One assessment and one suggestion for a response, however often it is tried.
THEOREM OnceEvaluated == Spec => []EvaluatedOnce
<1>1. IInv => EvaluatedOnce
  BY DEF IInv
<1> QED BY Inductive, <1>1, PTL

\* A suggestion becomes at most one inject, and says so unless a rejection crossed.
THEOREM ReviewsHold == Spec => []ReviewHolds
<1>1. IInv => ReviewHolds
  BY DEF IInv
<1> QED BY Inductive, <1>1, PTL

\* The label of the summary is true unless its last writer's read was stale.
THEOREM LabelsAreTrue == Spec => []LabelIsTrue
<1>1. IInv => LabelIsTrue
  BY DEF IInv
<1> QED BY Inductive, <1>1, PTL
=============================================================================
