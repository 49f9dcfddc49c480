---------------------------- MODULE Attachments -----------------------------
(***************************************************************************)
(* The files attached to injects, and the rows that refer to them          *)
(* (routers/injects, inject_service, routers/exercises,                    *)
(* launch_snapshot_service, reconcile_attachments).                        *)
(*                                                                         *)
(* A file is written before the row that refers to it commits, and deleted *)
(* after the row is gone, because no transaction covers both.  The         *)
(* operations on one exercise's configuration are serialised by its row    *)
(* lock; the deletion of files, and the command that reconciles the        *)
(* directory with the table, are not.  Every upload has a path of its own, *)
(* so an element of Files is one upload, its row and its path.             *)
(*                                                                         *)
(* Whether an inject was released, and what else its deletion asks for, is *)
(* ExerciseRun's.                                                          *)
(***************************************************************************)
EXTENDS AuditTrail

CONSTANTS Files

VARIABLES
    exercise,   \* "draft", "running", "completed" or "deleted"
    lock,       \* the transaction that holds the configuration: [by, file]
    row,        \* [Files -> "none", "there" or "gone"]
    frozen,     \* rows of the launch snapshot
    disk,       \* [Files -> "none", "partial" or "whole"]
    after,      \* what requests do after their commit: [what, rows, files]
    recon,      \* reconcile: [phase, refs, orphans]
    crossed,    \* uploads a reconciliation overlapped
    abandoned,  \* rows whose request failed after the commit
    cut         \* rows deleted by a request that died before it said so

files == <<exercise, lock, row, frozen, disk, after, recon, crossed, abandoned, cut>>
vars == <<trail, files>>

Free == [by |-> "nobody"]
Uploading(f) == lock.by = "upload" /\ lock.file = f
Idle == [phase |-> "idle"]
\* download: found, and of the size and digest the row has.
Downloadable(f) == disk[f] = "whole"

There == {f \in Files : row[f] = "there"}

Init ==
    /\ TrailInit
    /\ exercise = "draft"
    /\ lock = Free
    /\ row = [f \in Files |-> "none"]
    /\ frozen = {}
    /\ disk = [f \in Files |-> "none"]
    /\ after = {}
    /\ recon = Idle
    /\ crossed = {}
    /\ abandoned = {}
    /\ cut = {}

OperationallyMutable == exercise \in {"draft", "running"}

-----------------------------------------------------------------------------
(***************************************************************************)
(* create: under the configuration's lock, the file is streamed and the    *)
(* row committed.                                                          *)
(***************************************************************************)
BeginUpload(f) ==
    /\ OperationallyMutable
    /\ lock = Free
    /\ row[f] = "none" /\ disk[f] = "none"
    /\ lock' = [by |-> "upload", file |-> f, written |-> FALSE]
    /\ disk' = [disk EXCEPT ![f] = "partial"]
    /\ crossed' = IF recon = Idle THEN crossed ELSE crossed \cup {f}
    /\ UNCHANGED <<trail, exercise, row, frozen, after, recon, abandoned, cut>>

\* _save_attachment: all of it, unless the file was deleted under the write.
SaveAttachment(f) ==
    /\ Uploading(f) /\ ~lock.written
    /\ lock' = [lock EXCEPT !.written = TRUE]
    /\ disk' = [disk EXCEPT ![f] = IF @ = "partial" THEN "whole" ELSE @]
    /\ UNCHANGED <<trail, exercise, row, frozen, after, recon, crossed, abandoned, cut>>

\* Too large: the file is deleted and nothing committed.
TooLarge(f) ==
    /\ Uploading(f) /\ ~lock.written
    /\ lock' = Free
    /\ disk' = [disk EXCEPT ![f] = "none"]
    /\ UNCHANGED <<trail, exercise, row, frozen, after, recon, crossed, abandoned, cut>>

\* Any other failure of the write leaves what was written.
UploadBreaks(f) ==
    /\ Uploading(f) /\ ~lock.written
    /\ lock' = Free
    /\ UNCHANGED <<trail, exercise, row, frozen, disk, after, recon, crossed, abandoned, cut>>

CreateInject(f) ==
    /\ Uploading(f) /\ lock.written
    /\ lock' = Free
    /\ row' = [row EXCEPT ![f] = "there"]
    /\ UNCHANGED <<trail, exercise, frozen, disk, after, recon, crossed, abandoned, cut>>

\* create: a failure deletes the file, one before the commit as well as one between
\* the commit and the end of create_inject.
CreateFails(f) ==
    /\ Uploading(f) /\ lock.written
    /\ lock' = Free
    /\ disk' = [disk EXCEPT ![f] = "none"]
    /\ \/ UNCHANGED <<row, abandoned>>
       \/ row' = [row EXCEPT ![f] = "there"] /\ abandoned' = abandoned \cup {f}
    /\ UNCHANGED <<trail, exercise, frozen, after, recon, crossed, cut>>

-----------------------------------------------------------------------------
(***************************************************************************)
(* Launching: the transaction reads every file it takes a digest of.       *)
(***************************************************************************)
LaunchReads ==
    /\ exercise = "draft"
    /\ lock = Free
    /\ \A f \in There : Downloadable(f)
    /\ lock' = [by |-> "launch"]
    /\ UNCHANGED <<trail, exercise, row, frozen, disk, after, recon, crossed, abandoned, cut>>

LaunchCommits ==
    /\ lock.by = "launch"
    /\ lock' = Free
    /\ exercise' = "running"
    /\ frozen' = There
    /\ UNCHANGED <<trail, row, disk, after, recon, crossed, abandoned, cut>>

Complete ==
    /\ exercise = "running"
    /\ lock = Free
    /\ exercise' = "completed"
    /\ UNCHANGED <<trail, lock, row, frozen, disk, after, recon, crossed, abandoned, cut>>

-----------------------------------------------------------------------------
(***************************************************************************)
(* Deleting: first the rows, then the files, then the event.               *)
(***************************************************************************)
DeleteInject(f) ==
    /\ OperationallyMutable
    /\ lock = Free
    /\ row[f] = "there" /\ f \notin frozen
    /\ row' = [row EXCEPT ![f] = "gone"]
    /\ after' = after \cup {[what |-> "inject.delete", rows |-> {f}, files |-> {f}]}
    /\ UNCHANGED <<trail, exercise, lock, frozen, disk, recon, crossed, abandoned, cut>>

\* Mutant: the files go before the commit that takes their rows.
DeleteExerciseFilesFirst ==
    /\ exercise = "draft"
    /\ lock = Free
    /\ disk' = [f \in Files |-> IF f \in There THEN "none" ELSE disk[f]]
    /\ \/ /\ exercise' = "deleted"
          /\ row' = [f \in Files |-> IF f \in There THEN "gone" ELSE row[f]]
          /\ after' = after \cup {[what |-> "exercise.delete", rows |-> There, files |-> {}]}
       \/ UNCHANGED <<exercise, row, after>>
    /\ UNCHANGED <<trail, lock, frozen, recon, crossed, abandoned, cut>>

\* delete_exercise: the paths are listed before the cascade takes the rows.
DeleteExercise ==
    /\ exercise = "draft"
    /\ lock = Free
    /\ exercise' = "deleted"
    /\ row' = [f \in Files |-> IF f \in There THEN "gone" ELSE row[f]]
    /\ after' = after \cup {[what |-> "exercise.delete", rows |-> There, files |-> There]}
    /\ UNCHANGED <<trail, lock, frozen, disk, recon, crossed, abandoned, cut>>

\* Mutant: an error of the file system ends the request.
DeletePathRaises(a, f) ==
    /\ a \in after /\ f \in a.files
    /\ \/ /\ disk' = [disk EXCEPT ![f] = "none"]
          /\ after' = (after \ {a}) \cup {[a EXCEPT !.files = @ \ {f}]}
       \/ /\ after' = after \ {a}
          /\ UNCHANGED disk
    /\ UNCHANGED <<trail, exercise, lock, row, frozen, recon, crossed, abandoned, cut>>

\* _delete_attachment_path: an error of the file system is swallowed.
DeletePath(a, f) ==
    /\ a \in after /\ f \in a.files
    /\ after' = (after \ {a}) \cup {[a EXCEPT !.files = @ \ {f}]}
    /\ disk' \in {disk, [disk EXCEPT ![f] = "none"]}
    /\ UNCHANGED <<trail, exercise, lock, row, frozen, recon, crossed, abandoned, cut>>

TellDeleted(a) ==
    /\ a \in after /\ a.files = {}
    /\ after' = after \ {a}
    /\ Emit(a.what, a.rows)
    /\ UNCHANGED <<aged, stored, purged, sweep, untold>>
    /\ UNCHANGED <<exercise, lock, row, frozen, disk, recon, crossed, abandoned, cut>>

-----------------------------------------------------------------------------
(***************************************************************************)
(* reconcile, a command of its own: the references are read, the directory *)
(* is listed, the difference is deleted.                                   *)
(***************************************************************************)
ReconcileReads ==
    /\ recon = Idle
    /\ recon' = [phase |-> "read", refs |-> There]
    /\ crossed' = crossed \cup {f \in Files : Uploading(f)}
    /\ UNCHANGED <<trail, exercise, lock, row, frozen, disk, after, abandoned, cut>>

ReconcileLists ==
    /\ recon.phase = "read"
    /\ recon' = [phase |-> "listed", orphans |-> {f \in Files : disk[f] # "none"} \ recon.refs]
    /\ UNCHANGED <<trail, exercise, lock, row, frozen, disk, after, crossed, abandoned, cut>>

\* An error of the file system ends the command, and nothing tells what it removed.
RemoveOrphan(f) ==
    /\ recon.phase = "listed" /\ f \in recon.orphans
    /\ \/ /\ disk' = [disk EXCEPT ![f] = "none"]
          /\ recon' = [recon EXCEPT !.orphans = @ \ {f}]
       \/ recon' = Idle /\ UNCHANGED disk
    /\ UNCHANGED <<trail, exercise, lock, row, frozen, after, crossed, abandoned, cut>>

ReconcileEnds ==
    /\ recon.phase = "listed" /\ recon.orphans = {}
    /\ recon' = Idle
    /\ EmitAndExit("attachments.reconcile", {})
    /\ UNCHANGED <<aged, stored, purged, sweep, untold>>
    /\ UNCHANGED <<exercise, lock, row, frozen, disk, after, crossed, abandoned, cut>>

-----------------------------------------------------------------------------
\* The server dies: its transactions are rolled back, what was to be done after a
\* commit is not, and the files stay as they are.
Crash ==
    /\ TrailDies
    /\ lock' = Free
    /\ after' = {}
    /\ cut' = cut \cup UNION {a.rows : a \in after}
    /\ UNCHANGED <<exercise, row, frozen, disk, recon, crossed, abandoned>>

Next ==
    \/ TrailNext /\ UNCHANGED files
    \/ \E f \in Files :
          \/ BeginUpload(f) \/ SaveAttachment(f) \/ TooLarge(f) \/ UploadBreaks(f) \/ CreateInject(f)
          \/ CreateFails(f) \/ DeleteInject(f) \/ RemoveOrphan(f)
          \/ \E a \in after : DeletePath(a, f)
    \/ LaunchReads \/ LaunchCommits \/ Complete \/ DeleteExercise
    \/ \E a \in after : TellDeleted(a)
    \/ ReconcileReads \/ ReconcileLists \/ ReconcileEnds
    \/ Crash

Spec == Init /\ [][Next]_vars

-----------------------------------------------------------------------------
(***************************************************************************)
(* Properties.                                                             *)
(***************************************************************************)

\* download finds the whole file of every row there is, unless a reconciliation ran
\* while it was being uploaded, or the request that made the row failed after its
\* commit and deleted the file of a row that stayed.
FilesMatchRows ==
    \A f \in Files : row[f] = "there" => Downloadable(f) \/ f \in crossed \/ f \in abandoned

\* Every row that was deleted has an event in the log that names it, or its request
\* is still deleting files, unless the server died in between: a file that cannot be
\* deleted does not keep the deletion out of the trail.
DeletionIsTold ==
    \A f \in Files :
        row[f] = "gone" => \/ f \in About("inject.delete") \cup About("exercise.delete") \cup cut
                           \/ \E a \in after : f \in a.rows
=============================================================================
