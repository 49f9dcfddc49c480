-------------------------- MODULE AttachmentsProofs -------------------------
(***************************************************************************)
(* The four properties of Attachments, for any number of uploads, events   *)
(* and tasks.                                                              *)
(*                                                                         *)
(* FilesMatchRows is not inductive: what an upload in progress has         *)
(* written, what a request still has to delete and what a reconciliation   *)
(* is about to delete have to be known as well (UploadsAreFresh,           *)
(* LeftoversAreDeleted, OrphansAreNot).                                    *)
(***************************************************************************)
EXTENDS Attachments, SequenceTheorems, TLAPS

Kinds == {"other", "audit.retention_purge", "inject.delete", "exercise.delete",
          "attachments.reconcile"}
Line == [what : Kinds, about : SUBSET (Files \cup Nat)]

TrailTypeOK ==
    /\ log \in Seq(Line)
    /\ aged \in Nat
    /\ pending \in [Buckets -> SUBSET Nat]
    /\ stored \in SUBSET Nat /\ purged \in SUBSET Nat /\ dropped \in SUBSET Nat
    /\ untold \in SUBSET Nat
    /\ sweep \in {Asleep} \cup [phase : {"tokens"}, gone : SUBSET Nat]
                    \cup [phase : {"events"}, cutoff : Nat, gone : SUBSET Nat, left : Nat \ {0}]

TrailInv == TrailTypeOK /\ EventIsStored /\ PurgeIsTold

\* The log only grows: what it told stays told.
LEMMA AppendTells ==
    ASSUME log \in Seq(Line), NEW line \in Line, log' = Append(log, line)
    PROVE  /\ log' \in Seq(Line) /\ Len(log') = Len(log) + 1
           /\ \A what : About(what) \subseteq About(what)'
           /\ line.about \subseteq About(line.what)'
<1>1. /\ log' \in Seq(Line) /\ Len(log') = Len(log) + 1
      /\ \A n \in 1..Len(log) : log'[n] = log[n]
      /\ log'[Len(log) + 1] = line
  BY AppendProperties
<1>2. \A what : About(what) \subseteq About(what)'
  <2> SUFFICES ASSUME NEW what, NEW x \in About(what) PROVE x \in About(what)'
    OBVIOUS
  <2>1. PICK n \in 1..Len(log) : log[n].what = what /\ x \in log[n].about
    BY DEF About
  <2>2. n \in 1..Len(log') /\ log'[n].what = what /\ x \in log'[n].about
    BY <1>1, <2>1, LenProperties
  <2> QED BY <2>2 DEF About
<1>3. line.about \subseteq About(line.what)'
  <2>1. Len(log) + 1 \in 1..Len(log')
    BY <1>1, LenProperties
  <2> QED BY <1>1, <2>1 DEF About
<1> QED BY <1>1, <1>2, <1>3

\* What emit does to the log and the tasks keeps every event accounted for.
LEMMA EmitAccounts ==
    ASSUME TrailTypeOK, EventIsStored, NEW what \in Kinds, NEW about \in SUBSET (Files \cup Nat),
           Emit(what, about) \/ EmitAndExit(what, about), stored' = stored, purged' = purged
    PROVE  /\ log' \in Seq(Line) /\ pending' \in [Buckets -> SUBSET Nat] /\ dropped' \in SUBSET Nat
           /\ \A w : About(w) \subseteq About(w)'
           /\ about \subseteq About(what)'
           /\ EventIsStored'
<1> DEFINE line == [what |-> what, about |-> about]
           n == Len(log) + 1
<1>1. log' = Append(log, line) /\ line \in Line
  BY DEF Emit, EmitAndExit, Line
<1>2. /\ log' \in Seq(Line) /\ Len(log') = n
      /\ \A w : About(w) \subseteq About(w)'
      /\ line.about \subseteq About(line.what)'
  <2> HIDE DEF line
  <2> QED BY <1>1, AppendTells DEF TrailTypeOK
<1>3. n \in Nat
  BY LenProperties DEF TrailTypeOK
<1>4. /\ pending' \in [Buckets -> SUBSET Nat] /\ dropped' \in SUBSET Nat
      /\ pending["audit_persist"] \subseteq pending'["audit_persist"]
      /\ dropped \subseteq dropped'
      /\ Persist => n \in pending'["audit_persist"] \cup dropped'
  <2>1. CASE Emit(what, about)
    BY <1>3, <2>1, AuditTrailAssumption DEF Emit, SpawnLimited, Wanted, Buckets, TrailTypeOK,
       AuditTrailAssumption
  <2>2. CASE EmitAndExit(what, about)
    BY <1>3, <2>2 DEF EmitAndExit, TrailTypeOK
  <2> QED BY <2>1, <2>2
<1>5. EventIsStored'
  <2> SUFFICES ASSUME Persist, NEW m \in 1..Len(log')
               PROVE  m \in stored \cup pending'["audit_persist"] \cup purged \cup dropped'
    BY DEF EventIsStored
  <2>1. CASE m = n
    BY <1>4, <2>1
  <2>2. CASE m # n
    <3>1. m \in 1..Len(log)
      BY <1>2, <2>2, LenProperties DEF TrailTypeOK
    <3> QED BY <1>4, <3>1 DEF EventIsStored
  <2> QED BY <2>1, <2>2
<1> QED BY <1>2, <1>4, <1>5

\* At the start the trail is empty.
LEMMA TrailInitInv == TrailInit => TrailInv
  BY EmptySeq DEF TrailInit, TrailInv, TrailTypeOK, EventIsStored, PurgeIsTold, Asleep, Buckets

\* The steps of the trail itself keep every event accounted for and every deleted
\* row told of.
LEMMA TrailStep == TrailInv /\ TrailNext => TrailInv' /\ \A w : About(w) \subseteq About(w)'
<1> SUFFICES ASSUME TrailInv, TrailNext PROVE TrailInv' /\ \A w : About(w) \subseteq About(w)'
  OBVIOUS
<1> USE DEF TrailInv
<1>1. CASE Other
  <2>1. /\ Emit("other", {}) /\ UNCHANGED <<aged, stored, purged, sweep, untold>>
        /\ TrailTypeOK /\ EventIsStored /\ {} \in SUBSET (Files \cup Nat)
    BY <1>1 DEF Other
  <2>2. /\ log' \in Seq(Line) /\ pending' \in [Buckets -> SUBSET Nat] /\ dropped' \in SUBSET Nat
        /\ \A w : About(w) \subseteq About(w)'
        /\ EventIsStored'
    <3>1. PICK what \in Kinds, about \in SUBSET (Files \cup Nat) : what = "other" /\ about = {}
      <4>1. "other" \in Kinds /\ {} \in SUBSET (Files \cup Nat)
        BY DEF Kinds
      <4> QED BY <4>1, Zenon
    <3>2. Emit(what, about)
      BY <2>1, <3>1
    <3>3. stored' = stored /\ purged' = purged
      BY <2>1
    <3> QED BY <2>1, <3>2, <3>3, EmitAccounts
  <2>3. PurgeIsTold'
    BY <2>1, <2>2 DEF PurgeIsTold
  <2> QED BY <2>1, <2>2, <2>3 DEF TrailTypeOK
<1>2. CASE /\ UNCHANGED <<log, purged, sweep, untold>>
           /\ (Drain \/ Ages \/ \E n \in 1..Len(log) : PersistAsync(n) \/ Forwarded(n))
  <2>1. TrailTypeOK'
    <3>1. CASE Drain
      BY <3>1 DEF TrailTypeOK, Drain, Buckets
    <3>2. CASE Ages
      BY <3>2 DEF TrailTypeOK, Ages
    <3>3. ASSUME NEW n \in 1..Len(log), PersistAsync(n) \/ Forwarded(n) PROVE TrailTypeOK'
      <4>1. n \in Nat
        BY LenProperties DEF TrailTypeOK
      <4> QED BY <3>3, <4>1 DEF TrailTypeOK, PersistAsync, Forwarded, Buckets
    <3> QED BY <1>2, <3>1, <3>2, <3>3
  <2>2. EventIsStored'
    BY <1>2 DEF TrailTypeOK, EventIsStored, Drain, Ages, PersistAsync, Forwarded, Buckets
  <2>3. PurgeIsTold'
    BY <1>2 DEF PurgeIsTold, About
  <2> QED BY <1>2, <2>1, <2>2, <2>3 DEF About
<1>3. CASE SweepBegins
  <2>1. TrailTypeOK'
    BY <1>3, AuditTrailAssumption DEF SweepBegins, TrailTypeOK, AuditTrailAssumption
  <2>2. EventIsStored'
    BY <1>3 DEF SweepBegins, EventIsStored
  <2>3. PurgeIsTold'
    BY <1>3 DEF SweepBegins, PurgeIsTold, About
  <2> QED BY <1>3, <2>1, <2>2, <2>3 DEF SweepBegins, About
<1>4. CASE PurgeBatch
  <2>1. /\ sweep \in [phase : {"events"}, cutoff : Nat, gone : SUBSET Nat, left : Nat \ {0}]
        /\ sweep # Asleep
    BY <1>4 DEF PurgeBatch, TrailTypeOK, Asleep
  <2>2. PICK rows \in SUBSET Old :
           /\ stored' = stored \ rows /\ purged' = purged \cup rows
           /\ sweep' = IF Cardinality(rows) < Batch \/ sweep.left = 1
                       THEN [phase |-> "tokens", gone |-> sweep.gone \cup rows]
                       ELSE [phase |-> "events", cutoff |-> sweep.cutoff,
                             gone |-> sweep.gone \cup rows, left |-> sweep.left - 1]
    BY <1>4 DEF PurgeBatch
  <2>3. rows \in SUBSET Nat /\ UNCHANGED <<log, aged, pending, dropped, untold>>
    BY <1>4 DEF PurgeBatch, Old, TrailTypeOK
  <2>4. sweep'.gone = sweep.gone \cup rows /\ sweep' # Asleep
    BY <2>1, <2>2 DEF Asleep
  <2>5. TrailTypeOK'
    <3>1. stored' \in SUBSET Nat /\ purged' \in SUBSET Nat
      BY <2>2, <2>3 DEF TrailTypeOK
    <3>2. sweep.gone \cup rows \in SUBSET Nat /\ sweep.left \in Nat \ {0} /\ sweep.cutoff \in Nat
      BY <2>1, <2>3
    <3>3. sweep' \in [phase : {"tokens"}, gone : SUBSET Nat]
             \/ sweep' \in [phase : {"events"}, cutoff : Nat, gone : SUBSET Nat, left : Nat \ {0}]
      <4>1. CASE Cardinality(rows) < Batch \/ sweep.left = 1
        BY <2>2, <3>2, <4>1
      <4>2. CASE ~(Cardinality(rows) < Batch \/ sweep.left = 1)
        <5>1. sweep.left - 1 \in Nat \ {0}
          BY <3>2, <4>2
        <5> QED BY <2>2, <3>2, <4>2, <5>1
      <4> QED BY <4>1, <4>2
    <3> QED BY <2>3, <3>1, <3>3 DEF TrailTypeOK
  <2>6. EventIsStored'
    BY <2>2, <2>3 DEF EventIsStored
  <2>7. PurgeIsTold'
    BY <2>1, <2>2, <2>3, <2>4 DEF PurgeIsTold, About
  <2> QED BY <2>3, <2>5, <2>6, <2>7 DEF About
<1>5. CASE SweepEnds
  <2>1. /\ TrailTypeOK /\ EventIsStored
        /\ sweep.gone \in SUBSET Nat /\ sweep # Asleep /\ sweep' = Asleep
        /\ sweep.gone \in SUBSET (Files \cup Nat)
        /\ UNCHANGED <<aged, stored, purged, untold>>
        /\ \/ Emit("audit.retention_purge", sweep.gone)
           \/ sweep.gone = {} /\ UNCHANGED <<log, pending, dropped>>
    <3>1. /\ sweep.phase = "tokens" /\ sweep' = Asleep
          /\ UNCHANGED <<aged, stored, purged, untold>>
          /\ \/ Emit("audit.retention_purge", sweep.gone)
             \/ sweep.gone = {} /\ UNCHANGED <<log, pending, dropped>>
      BY <1>5 DEF SweepEnds
    <3>2. sweep.gone \in SUBSET Nat /\ sweep # Asleep
      BY <3>1 DEF TrailTypeOK, Asleep
    <3> QED BY <3>1, <3>2
  <2>2. CASE Emit("audit.retention_purge", sweep.gone)
    <3>a. PICK what \in Kinds, about \in SUBSET (Files \cup Nat) :
             what = "audit.retention_purge" /\ about = sweep.gone
      <4>1. "audit.retention_purge" \in Kinds
        BY DEF Kinds
      <4> QED BY <2>1, <4>1, Zenon
    <3>b. Emit(what, about) /\ stored' = stored /\ purged' = purged
      BY <2>1, <2>2, <3>a
    <3>c. /\ log' \in Seq(Line) /\ pending' \in [Buckets -> SUBSET Nat] /\ dropped' \in SUBSET Nat
          /\ \A w : About(w) \subseteq About(w)'
          /\ about \subseteq About(what)'
          /\ EventIsStored'
      BY <2>1, <3>b, EmitAccounts
    <3>1. sweep.gone \subseteq About("audit.retention_purge")'
      BY <3>a, <3>c
    <3>2. PurgeIsTold'
      BY <2>1, <3>1, <3>c DEF PurgeIsTold
    <3> QED BY <2>1, <3>c, <3>2 DEF TrailTypeOK
  <2>3. CASE sweep.gone = {} /\ UNCHANGED <<log, pending, dropped>>
    BY <2>1, <2>3 DEF TrailTypeOK, EventIsStored, PurgeIsTold, About
  <2> QED BY <2>1, <2>2, <2>3
<1>6. CASE SweepFails
  <2>1. /\ sweep # Asleep /\ sweep' = Asleep /\ untold' = untold \cup sweep.gone
        /\ UNCHANGED <<log, aged, pending, stored, purged, dropped>>
    BY <1>6 DEF SweepFails
  <2>2. sweep.gone \in SUBSET Nat
    BY <2>1 DEF TrailTypeOK
  <2>3. TrailTypeOK'
    BY <2>1, <2>2 DEF TrailTypeOK
  <2>4. \A w : About(w)' = About(w)
    BY <2>1 DEF About
  <2>5. EventIsStored'
    BY <2>1 DEF EventIsStored
  <2>6. PurgeIsTold'
    BY <2>1, <2>4 DEF PurgeIsTold
  <2> QED BY <2>3, <2>4, <2>5, <2>6
<1> QED BY <1>1, <1>2, <1>3, <1>4, <1>5, <1>6 DEF TrailNext, Drain, Ages, PersistAsync, Forwarded

\* An operation that emits an event and leaves the rest of the trail alone.
LEMMA EmitKeeps ==
    ASSUME TrailInv, NEW what \in Kinds, NEW about \in SUBSET (Files \cup Nat),
           Emit(what, about) \/ EmitAndExit(what, about),
           UNCHANGED <<aged, stored, purged, sweep, untold>>
    PROVE  /\ TrailInv'
           /\ \A w : About(w) \subseteq About(w)'
           /\ about \subseteq About(what)'
<1>1. TrailTypeOK /\ EventIsStored /\ PurgeIsTold
  BY DEF TrailInv
<1>2. stored' = stored /\ purged' = purged
  OBVIOUS
<1>3. /\ log' \in Seq(Line) /\ pending' \in [Buckets -> SUBSET Nat] /\ dropped' \in SUBSET Nat
      /\ \A w : About(w) \subseteq About(w)'
      /\ about \subseteq About(what)'
      /\ EventIsStored'
  BY <1>1, <1>2, EmitAccounts
<1>4. TrailTypeOK'
  BY <1>1, <1>3 DEF TrailTypeOK
<1>5. PurgeIsTold'
  BY <1>1, <1>3 DEF PurgeIsTold
<1> QED BY <1>3, <1>4, <1>5 DEF TrailInv

\* A crash of the server accounts for what its tasks and its sweep lose.
LEMMA DiesKeeps == TrailInv /\ TrailDies => TrailInv' /\ \A w : About(w) \subseteq About(w)'
<1> SUFFICES ASSUME TrailInv, TrailDies PROVE TrailInv' /\ \A w : About(w) \subseteq About(w)'
  OBVIOUS
<1>1. TrailTypeOK'
  <2>1. sweep # Asleep => sweep.gone \in SUBSET Nat
    BY DEF TrailInv, TrailTypeOK
  <2> QED BY <2>1 DEF TrailInv, TrailTypeOK, TrailDies, Buckets
<1>2. EventIsStored' /\ PurgeIsTold'
  BY DEF TrailInv, TrailTypeOK, TrailDies, EventIsStored, PurgeIsTold, About, Buckets
<1> QED BY <1>1, <1>2 DEF TrailInv, TrailDies, About

\* A step that leaves the trail alone.
LEMMA TrailStutters ==
    TrailInv /\ UNCHANGED trail => TrailInv' /\ \A w : About(w) \subseteq About(w)'
  BY DEF trail, TrailInv, TrailTypeOK, EventIsStored, PurgeIsTold, About

-----------------------------------------------------------------------------
UploadLock == [by : {"upload"}, file : Files, written : BOOLEAN]
Request == [what : {"inject.delete", "exercise.delete"}, rows : SUBSET Files, files : SUBSET Files]
Reading == [phase : {"read"}, refs : SUBSET Files]
Removing == [phase : {"listed"}, orphans : SUBSET Files]

FilesTypeOK ==
    /\ lock \in {Free} \cup [by : {"launch"}] \cup UploadLock
    /\ row \in [Files -> {"none", "there", "gone"}]
    /\ disk \in [Files -> {"none", "partial", "whole"}]
    /\ after \in SUBSET Request
    /\ recon \in {Idle} \cup Reading \cup Removing

UploadsAreFresh ==
    \A f \in Files : Uploading(f) =>
        /\ row[f] = "none"
        /\ \/ f \in crossed
           \/ recon = Idle /\ disk[f] = IF lock.written THEN "whole" ELSE "partial"

LeftoversAreDeleted ==
    \A a \in after : \A f \in a.files : row[f] = "gone"

OrphansAreNot ==
    /\ recon.phase = "read" => There \subseteq recon.refs \cup crossed
    /\ recon.phase = "listed" => \A f \in recon.orphans : row[f] = "there" => f \in crossed

FilesInv == /\ FilesTypeOK /\ UploadsAreFresh /\ LeftoversAreDeleted /\ OrphansAreNot
            /\ FilesMatchRows

IInv == TrailInv /\ FilesInv /\ DeletionIsTold


\* Each operation on the files keeps what the others rely on: an upload that no
\* reconciliation overlaps finds its file as it wrote it, and nobody deletes the
\* file of a row that is there.
LEMMA FilesStep == FilesInv /\ [Next]_vars => FilesInv'
<1> SUFFICES ASSUME FilesInv, [Next]_vars PROVE FilesInv'
  OBVIOUS
<1> USE DEF FilesInv
<1>1. ASSUME NEW f \in Files, BeginUpload(f) PROVE FilesInv'
  <2>t. FilesTypeOK'
    BY <1>1 DEF BeginUpload, FilesTypeOK, UploadLock
  <2>u. UploadsAreFresh'
    BY <1>1 DEF BeginUpload, FilesTypeOK, UploadsAreFresh, Uploading
  <2>l. LeftoversAreDeleted'
    BY <1>1 DEF BeginUpload, LeftoversAreDeleted
  <2>o. OrphansAreNot'
    BY <1>1 DEF BeginUpload, OrphansAreNot, There
  <2>m. FilesMatchRows'
    BY <1>1 DEF BeginUpload, FilesMatchRows, Downloadable
  <2> QED BY <2>t, <2>u, <2>l, <2>o, <2>m
<1>2. ASSUME NEW f \in Files, SaveAttachment(f) PROVE FilesInv'
  <2>t. FilesTypeOK'
    BY <1>2 DEF SaveAttachment, FilesTypeOK, UploadLock, Free
  <2>u. UploadsAreFresh'
    BY <1>2 DEF SaveAttachment, FilesTypeOK, UploadsAreFresh, Uploading
  <2>l. LeftoversAreDeleted'
    BY <1>2 DEF SaveAttachment, LeftoversAreDeleted
  <2>o. OrphansAreNot'
    BY <1>2 DEF SaveAttachment, OrphansAreNot, There
  <2>m. FilesMatchRows'
    BY <1>2 DEF SaveAttachment, FilesMatchRows, Downloadable
  <2> QED BY <2>t, <2>u, <2>l, <2>o, <2>m
<1>3. ASSUME NEW f \in Files, TooLarge(f) PROVE FilesInv'
  <2>t. FilesTypeOK'
    BY <1>3 DEF TooLarge, FilesTypeOK
  <2>u. UploadsAreFresh'
    BY <1>3 DEF TooLarge, UploadsAreFresh, Uploading, Free
  <2>l. LeftoversAreDeleted'
    BY <1>3 DEF TooLarge, LeftoversAreDeleted
  <2>o. OrphansAreNot'
    BY <1>3 DEF TooLarge, OrphansAreNot, There
  <2>m. FilesMatchRows'
    BY <1>3 DEF TooLarge, UploadsAreFresh, FilesMatchRows, Downloadable
  <2> QED BY <2>t, <2>u, <2>l, <2>o, <2>m
<1>4. ASSUME NEW f \in Files, UploadBreaks(f) PROVE FilesInv'
  <2>t. FilesTypeOK'
    BY <1>4 DEF UploadBreaks, FilesTypeOK
  <2>u. UploadsAreFresh'
    BY <1>4 DEF UploadBreaks, UploadsAreFresh, Uploading, Free
  <2>l. LeftoversAreDeleted'
    BY <1>4 DEF UploadBreaks, LeftoversAreDeleted
  <2>o. OrphansAreNot'
    BY <1>4 DEF UploadBreaks, OrphansAreNot, There
  <2>m. FilesMatchRows'
    BY <1>4 DEF UploadBreaks, FilesMatchRows, Downloadable
  <2> QED BY <2>t, <2>u, <2>l, <2>o, <2>m
<1>5. ASSUME NEW f \in Files, CreateInject(f) PROVE FilesInv'
  <2>t. FilesTypeOK'
    BY <1>5 DEF CreateInject, FilesTypeOK
  <2>u. UploadsAreFresh'
    BY <1>5 DEF CreateInject, UploadsAreFresh, Uploading, Free
  <2>l. LeftoversAreDeleted'
    BY <1>5 DEF CreateInject, UploadsAreFresh, LeftoversAreDeleted
  <2>o. OrphansAreNot'
    BY <1>5 DEF CreateInject, UploadsAreFresh, OrphansAreNot, There, Idle
  <2>m. FilesMatchRows'
    BY <1>5 DEF CreateInject, UploadsAreFresh, FilesMatchRows, Downloadable
  <2> QED BY <2>t, <2>u, <2>l, <2>o, <2>m
<1>6. ASSUME NEW f \in Files, CreateFails(f) PROVE FilesInv'
  <2>t. FilesTypeOK'
    BY <1>6 DEF CreateFails, FilesTypeOK
  <2>u. UploadsAreFresh'
    BY <1>6 DEF CreateFails, UploadsAreFresh, Uploading, Free
  <2>l. LeftoversAreDeleted'
    BY <1>6 DEF CreateFails, FilesTypeOK, UploadsAreFresh, LeftoversAreDeleted, Request
  <2>o. OrphansAreNot'
    BY <1>6 DEF CreateFails, FilesTypeOK, UploadsAreFresh, OrphansAreNot, There, Idle,
       Reading, Removing
  <2>m. FilesMatchRows'
    BY <1>6 DEF CreateFails, FilesTypeOK, UploadsAreFresh, FilesMatchRows, Downloadable
  <2> QED BY <2>t, <2>u, <2>l, <2>o, <2>m
<1>7. ASSUME NEW f \in Files, DeleteInject(f) PROVE FilesInv'
  <2>t. FilesTypeOK'
    BY <1>7 DEF DeleteInject, FilesTypeOK, Request
  <2>u. UploadsAreFresh'
    BY <1>7 DEF DeleteInject, UploadsAreFresh, Uploading
  <2>l. LeftoversAreDeleted'
    BY <1>7 DEF DeleteInject, FilesTypeOK, LeftoversAreDeleted
  <2>o. OrphansAreNot'
    BY <1>7 DEF DeleteInject, OrphansAreNot, There
  <2>m. FilesMatchRows'
    BY <1>7 DEF DeleteInject, FilesMatchRows, Downloadable
  <2> QED BY <2>t, <2>u, <2>l, <2>o, <2>m
<1>8. ASSUME NEW f \in Files, RemoveOrphan(f) PROVE FilesInv'
  <2>1. /\ UNCHANGED <<lock, row, after, crossed, abandoned>>
        /\ row[f] = "there" => f \in crossed
    BY <1>8 DEF RemoveOrphan, OrphansAreNot
  <2>d. disk' = [disk EXCEPT ![f] = "none"] \/ disk' = disk
    BY <1>8 DEF RemoveOrphan
  <2>r. \/ recon' = Idle
        \/ recon \in Removing /\ recon' = [recon EXCEPT !.orphans = @ \ {f}]
    BY <1>8 DEF RemoveOrphan, FilesTypeOK, Reading, Removing, Idle
  <2>t. FilesTypeOK'
    BY <2>1, <2>d, <2>r DEF FilesTypeOK, Removing
  <2>u. UploadsAreFresh'
    BY <1>8 DEF RemoveOrphan, UploadsAreFresh, Uploading, Idle
  <2>l. LeftoversAreDeleted'
    BY <2>1 DEF LeftoversAreDeleted
  <2>o. OrphansAreNot'
    BY <2>1, <2>r DEF OrphansAreNot, Removing, Idle
  <2>m. FilesMatchRows'
    BY <2>1, <2>d DEF FilesTypeOK, FilesMatchRows, Downloadable
  <2> QED BY <2>t, <2>u, <2>l, <2>o, <2>m
<1>9. ASSUME NEW a \in after, NEW f \in Files, DeletePath(a, f) PROVE FilesInv'
  <2>t. FilesTypeOK'
    BY <1>9 DEF DeletePath, FilesTypeOK, Request
  <2>u. UploadsAreFresh'
    BY <1>9 DEF DeletePath, FilesTypeOK, UploadsAreFresh, LeftoversAreDeleted, Uploading
  <2>l. LeftoversAreDeleted'
    BY <1>9 DEF DeletePath, FilesTypeOK, LeftoversAreDeleted, Request
  <2>o. OrphansAreNot'
    BY <1>9 DEF DeletePath, OrphansAreNot, There
  <2>m. FilesMatchRows'
    BY <1>9 DEF DeletePath, FilesTypeOK, FilesMatchRows, LeftoversAreDeleted, Downloadable
  <2> QED BY <2>t, <2>u, <2>l, <2>o, <2>m
<1>10. ASSUME LaunchReads PROVE FilesInv'
  <2>t. FilesTypeOK'
    BY <1>10 DEF LaunchReads, FilesTypeOK
  <2>u. UploadsAreFresh'
    BY <1>10 DEF LaunchReads, UploadsAreFresh, Uploading
  <2>l. LeftoversAreDeleted'
    BY <1>10 DEF LaunchReads, LeftoversAreDeleted
  <2>o. OrphansAreNot'
    BY <1>10 DEF LaunchReads, OrphansAreNot, There
  <2>m. FilesMatchRows'
    BY <1>10 DEF LaunchReads, FilesMatchRows, Downloadable
  <2> QED BY <2>t, <2>u, <2>l, <2>o, <2>m
<1>11. ASSUME LaunchCommits PROVE FilesInv'
  <2>t. FilesTypeOK'
    BY <1>11 DEF LaunchCommits, FilesTypeOK
  <2>u. UploadsAreFresh'
    BY <1>11 DEF LaunchCommits, UploadsAreFresh, Uploading, Free
  <2>l. LeftoversAreDeleted'
    BY <1>11 DEF LaunchCommits, LeftoversAreDeleted
  <2>o. OrphansAreNot'
    BY <1>11 DEF LaunchCommits, OrphansAreNot, There
  <2>m. FilesMatchRows'
    BY <1>11 DEF LaunchCommits, FilesMatchRows, Downloadable
  <2> QED BY <2>t, <2>u, <2>l, <2>o, <2>m
<1>12. ASSUME Complete PROVE FilesInv'
  <2>t. FilesTypeOK'
    BY <1>12 DEF Complete, FilesTypeOK
  <2>u. UploadsAreFresh'
    BY <1>12 DEF Complete, UploadsAreFresh, Uploading
  <2>l. LeftoversAreDeleted'
    BY <1>12 DEF Complete, LeftoversAreDeleted
  <2>o. OrphansAreNot'
    BY <1>12 DEF Complete, OrphansAreNot, There
  <2>m. FilesMatchRows'
    BY <1>12 DEF Complete, FilesMatchRows, Downloadable
  <2> QED BY <2>t, <2>u, <2>l, <2>o, <2>m
<1>13. ASSUME DeleteExercise PROVE FilesInv'
  <2> DEFINE a == [what |-> "exercise.delete", rows |-> There, files |-> There]
  <2>1. There \in SUBSET Files /\ a \in Request
    BY DEF There, Request
  <2>2. /\ lock = Free /\ UNCHANGED <<lock, disk, recon, crossed, abandoned>>
        /\ row' = [f \in Files |-> IF f \in There THEN "gone" ELSE row[f]]
        /\ after' = after \cup {a}
    BY <1>13 DEF DeleteExercise
  <2>3. \A f \in Files : /\ row[f] = "gone" => row'[f] = "gone"
                         /\ row'[f] # "there"
    BY <2>2 DEF There
  <2>t. FilesTypeOK'
    BY <2>1, <2>2 DEF FilesTypeOK
  <2>u. UploadsAreFresh'
    BY <2>2 DEF UploadsAreFresh, Uploading, Free
  <2>l. LeftoversAreDeleted'
    <3>1. ASSUME NEW b \in after, NEW f \in b.files PROVE row'[f] = "gone"
      BY <2>2, <2>3, <3>1 DEF LeftoversAreDeleted, FilesTypeOK, Request
    <3>2. \A f \in a.files : row'[f] = "gone"
      BY <2>1, <2>2
    <3> QED BY <2>2, <3>1, <3>2 DEF LeftoversAreDeleted
  <2>o. OrphansAreNot'
    BY <2>2, <2>3 DEF FilesTypeOK, OrphansAreNot, There, Idle, Reading, Removing
  <2>m. FilesMatchRows'
    BY <2>3 DEF FilesMatchRows
  <2> QED BY <2>t, <2>u, <2>l, <2>o, <2>m
<1>14. ASSUME NEW a \in after, TellDeleted(a) PROVE FilesInv'
  <2>t. FilesTypeOK'
    BY <1>14 DEF TellDeleted, FilesTypeOK
  <2>u. UploadsAreFresh'
    BY <1>14 DEF TellDeleted, UploadsAreFresh, Uploading
  <2>l. LeftoversAreDeleted'
    BY <1>14 DEF TellDeleted, LeftoversAreDeleted
  <2>o. OrphansAreNot'
    BY <1>14 DEF TellDeleted, OrphansAreNot, There
  <2>m. FilesMatchRows'
    BY <1>14 DEF TellDeleted, FilesMatchRows, Downloadable
  <2> QED BY <2>t, <2>u, <2>l, <2>o, <2>m
<1>15. ASSUME ReconcileReads PROVE FilesInv'
  <2>t. FilesTypeOK'
    BY <1>15 DEF ReconcileReads, There, FilesTypeOK, Reading
  <2>u. UploadsAreFresh'
    BY <1>15 DEF ReconcileReads, UploadsAreFresh, Uploading
  <2>l. LeftoversAreDeleted'
    BY <1>15 DEF ReconcileReads, LeftoversAreDeleted
  <2>o. OrphansAreNot'
    BY <1>15 DEF ReconcileReads, OrphansAreNot, There
  <2>m. FilesMatchRows'
    BY <1>15 DEF ReconcileReads, FilesMatchRows, Downloadable
  <2> QED BY <2>t, <2>u, <2>l, <2>o, <2>m
<1>16. ASSUME ReconcileLists PROVE FilesInv'
  <2>t. FilesTypeOK'
    BY <1>16 DEF ReconcileLists, FilesTypeOK, Removing
  <2>u. UploadsAreFresh'
    BY <1>16 DEF ReconcileLists, UploadsAreFresh, Uploading, Idle
  <2>l. LeftoversAreDeleted'
    BY <1>16 DEF ReconcileLists, LeftoversAreDeleted
  <2>o. OrphansAreNot'
    BY <1>16 DEF ReconcileLists, OrphansAreNot, There
  <2>m. FilesMatchRows'
    BY <1>16 DEF ReconcileLists, FilesMatchRows, Downloadable
  <2> QED BY <2>t, <2>u, <2>l, <2>o, <2>m
<1>17. ASSUME ReconcileEnds PROVE FilesInv'
  <2>t. FilesTypeOK'
    BY <1>17 DEF ReconcileEnds, FilesTypeOK
  <2>u. UploadsAreFresh'
    BY <1>17 DEF ReconcileEnds, UploadsAreFresh, Uploading
  <2>l. LeftoversAreDeleted'
    BY <1>17 DEF ReconcileEnds, LeftoversAreDeleted
  <2>o. OrphansAreNot'
    BY <1>17 DEF ReconcileEnds, OrphansAreNot, Idle
  <2>m. FilesMatchRows'
    BY <1>17 DEF ReconcileEnds, FilesMatchRows, Downloadable
  <2> QED BY <2>t, <2>u, <2>l, <2>o, <2>m
<1>18. ASSUME Crash PROVE FilesInv'
  <2>t. FilesTypeOK'
    BY <1>18 DEF Crash, FilesTypeOK
  <2>u. UploadsAreFresh'
    BY <1>18 DEF Crash, UploadsAreFresh, Uploading, Free
  <2>l. LeftoversAreDeleted'
    BY <1>18 DEF Crash, LeftoversAreDeleted
  <2>o. OrphansAreNot'
    BY <1>18 DEF Crash, OrphansAreNot, There
  <2>m. FilesMatchRows'
    BY <1>18 DEF Crash, FilesMatchRows, Downloadable
  <2> QED BY <2>t, <2>u, <2>l, <2>o, <2>m
<1>19. CASE UNCHANGED files
  BY <1>19 DEF files, FilesTypeOK, UploadsAreFresh, LeftoversAreDeleted, OrphansAreNot,
     FilesMatchRows, Uploading, There, Downloadable
<1> QED BY <1>1, <1>2, <1>3, <1>4, <1>5, <1>6, <1>7, <1>8, <1>9, <1>10, <1>11, <1>12, <1>13,
           <1>14, <1>15, <1>16, <1>17, <1>18, <1>19 DEF Next, vars

\* Every step keeps the trail's account, and every deleted row told of, with its
\* request, or cut short.
LEMMA ToldStep ==
    TrailInv /\ FilesTypeOK /\ DeletionIsTold /\ [Next]_vars => TrailInv' /\ DeletionIsTold'
<1> SUFFICES ASSUME TrailInv, FilesTypeOK, DeletionIsTold, [Next]_vars
             PROVE  TrailInv' /\ DeletionIsTold'
  OBVIOUS
<1> DEFINE Grows == TrailInv' /\ \A w : About(w) \subseteq About(w)'
<1>1. CASE /\ Grows
           /\ UNCHANGED <<row, cut>> /\ UNCHANGED after
  BY <1>1 DEF DeletionIsTold
<1>2. CASE TrailNext /\ UNCHANGED files
  BY <1>1, <1>2, TrailStep DEF files
<1>3. ASSUME NEW f \in Files,
             \/ BeginUpload(f) \/ SaveAttachment(f) \/ TooLarge(f) \/ UploadBreaks(f)
             \/ RemoveOrphan(f)
      PROVE  TrailInv' /\ DeletionIsTold'
  BY <1>1, <1>3, TrailStutters
     DEF BeginUpload, SaveAttachment, TooLarge, UploadBreaks, RemoveOrphan
<1>4. CASE LaunchReads \/ LaunchCommits \/ Complete \/ ReconcileReads \/ ReconcileLists
  BY <1>1, <1>4, TrailStutters
     DEF LaunchReads, LaunchCommits, Complete, ReconcileReads, ReconcileLists
<1>5. ASSUME NEW f \in Files, CreateInject(f) \/ CreateFails(f) PROVE TrailInv' /\ DeletionIsTold'
  <2>1. /\ Grows /\ UNCHANGED <<after, cut>>
        /\ \A g \in Files : row'[g] = "gone" => row[g] = "gone"
    BY <1>5, TrailStutters DEF CreateInject, CreateFails, FilesTypeOK
  <2> QED BY <2>1 DEF DeletionIsTold
<1>6. ASSUME NEW f \in Files, DeleteInject(f) PROVE TrailInv' /\ DeletionIsTold'
  <2> DEFINE a == [what |-> "inject.delete", rows |-> {f}, files |-> {f}]
  <2>1. /\ Grows /\ after' = after \cup {a} /\ UNCHANGED cut
        /\ \A g \in Files : row'[g] = "gone" => row[g] = "gone" \/ g \in a.rows
    BY <1>6, TrailStutters DEF DeleteInject, FilesTypeOK
  <2> HIDE DEF a
  <2> QED BY <2>1 DEF DeletionIsTold
<1>7. CASE DeleteExercise
  <2> DEFINE a == [what |-> "exercise.delete", rows |-> There, files |-> There]
  <2>1. /\ Grows /\ after' = after \cup {a} /\ UNCHANGED cut
        /\ \A g \in Files : row'[g] = "gone" => row[g] = "gone" \/ g \in a.rows
    BY <1>7, TrailStutters DEF DeleteExercise, FilesTypeOK
  <2> HIDE DEF a
  <2> QED BY <2>1 DEF DeletionIsTold
<1>8. ASSUME NEW f \in Files, NEW a \in after, DeletePath(a, f) PROVE TrailInv' /\ DeletionIsTold'
  <2> DEFINE b == [a EXCEPT !.files = @ \ {f}]
  <2>1. /\ Grows /\ after' = (after \ {a}) \cup {b} /\ UNCHANGED <<row, cut>>
    BY <1>8, TrailStutters DEF DeletePath
  <2>2. b.rows = a.rows
    BY DEF FilesTypeOK, Request
  <2> HIDE DEF b
  <2> QED BY <2>1, <2>2 DEF DeletionIsTold
<1>9. ASSUME NEW a \in after, TellDeleted(a) PROVE TrailInv' /\ DeletionIsTold'
  <2>1. /\ Emit(a.what, a.rows) /\ UNCHANGED <<aged, stored, purged, sweep, untold>>
        /\ after' = after \ {a} /\ UNCHANGED <<row, cut>>
    BY <1>9 DEF TellDeleted
  <2>2. a.what \in {"inject.delete", "exercise.delete"} /\ a.rows \in SUBSET Files
    BY DEF FilesTypeOK, Request
  <2>3. PICK what \in Kinds, about \in SUBSET (Files \cup Nat) : what = a.what /\ about = a.rows
    BY <2>2 DEF Kinds
  <2>4. Grows /\ about \subseteq About(what)'
    <3>1. Emit(what, about)
      BY <2>1, <2>3
    <3> QED BY <2>1, <3>1, EmitKeeps
  <2>5. a.rows \subseteq About("inject.delete")' \cup About("exercise.delete")'
    BY <2>2, <2>3, <2>4
  <2> QED BY <2>1, <2>4, <2>5 DEF DeletionIsTold
<1>10. CASE ReconcileEnds
  <2>1. PICK what \in Kinds, about \in SUBSET (Files \cup Nat) :
           what = "attachments.reconcile" /\ about = {}
    <3>1. "attachments.reconcile" \in Kinds
      BY DEF Kinds
    <3> QED BY <3>1, Zenon
  <2>2. /\ EmitAndExit(what, about) /\ UNCHANGED <<aged, stored, purged, sweep, untold>>
        /\ UNCHANGED <<row, cut>> /\ UNCHANGED after
    BY <1>10, <2>1 DEF ReconcileEnds
  <2>3. Grows
    BY <2>2, EmitKeeps
  <2> QED BY <1>1, <2>2, <2>3
<1>11. CASE Crash
  <2>1. /\ Grows /\ after' = {} /\ UNCHANGED row
        /\ cut' = cut \cup UNION {a.rows : a \in after}
    BY <1>11, DiesKeeps DEF Crash
  <2> QED BY <2>1 DEF DeletionIsTold
<1>12. CASE UNCHANGED vars
  BY <1>1, <1>12, TrailStutters DEF vars, files
<1> QED BY <1>2, <1>3, <1>4, <1>5, <1>6, <1>7, <1>8, <1>9, <1>10, <1>11, <1>12 DEF Next

\* The invariant holds at the start.
LEMMA InitIInv == Init => IInv
<1>1. Init => FilesInv
  BY DEF Init, FilesInv, FilesTypeOK, UploadsAreFresh, LeftoversAreDeleted, OrphansAreNot,
     FilesMatchRows, Uploading, Free, Idle, There
<1>2. Init => DeletionIsTold
  BY DEF Init, DeletionIsTold
<1> QED BY <1>1, <1>2, TrailInitInv DEF IInv, Init

\* What the four theorems rest on.
LEMMA Inductive == Spec => []IInv
<1>1. IInv /\ [Next]_vars => IInv'
  BY FilesStep, ToldStep DEF IInv, FilesInv
<1> QED BY InitIInv, <1>1, PTL DEF Spec

-----------------------------------------------------------------------------
\* A row refers to a whole file, unless a reconciliation overlapped its upload or its
\* request failed after the commit.
THEOREM FilesThere == Spec => []FilesMatchRows
<1>1. IInv => FilesMatchRows
  BY DEF IInv, FilesInv
<1> QED BY Inductive, <1>1, PTL

\* A deleted row is told of, or about to be, unless the server died before it was.
THEOREM DeletionsTold == Spec => []DeletionIsTold
<1>1. IInv => DeletionIsTold
  BY DEF IInv
<1> QED BY Inductive, <1>1, PTL

\* No event is without its row, except as the bounded tasks, their failures and
\* the retention account for.
THEOREM EventsStored == Spec => []EventIsStored
<1>1. IInv => EventIsStored
  BY DEF IInv, TrailInv
<1> QED BY Inductive, <1>1, PTL

\* The sweep tells of every row it deletes, unless it dies first.
THEOREM PurgesTold == Spec => []PurgeIsTold
<1>1. IInv => PurgeIsTold
  BY DEF IInv, TrailInv
<1> QED BY Inductive, <1>1, PTL
=============================================================================
