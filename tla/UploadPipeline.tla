--------------------------- MODULE UploadPipeline ---------------------------
(***************************************************************************)
(* From a raw file to an ingested one: multipart and single-request        *)
(* uploads, their cancellation, and the ingestion task                     *)
(* (backend/app/services/dataset_multipart_upload_service.py,              *)
(* services/dataset_file_service.py, routers/admin_datasets.py,            *)
(* worker/tasks/ingestion.py), for the files of one dataset.               *)
(*                                                                         *)
(* Storage and database do not share transactions: a handler loads the     *)
(* upload, calls storage, and commits, and may stop at each point.  The    *)
(* ingestion queue has one worker process of concurrency 1, so one task    *)
(* runs at a time; it meets the handlers through uploads.status.           *)
(***************************************************************************)
EXTENDS Naturals, FiniteSets

CONSTANTS
    Uploads,      \* uploads.id; the DatasetFile and its objects share the key
    Clients,      \* API requests that may be in flight together
    None,
    TotalParts,   \* parts of a multipart upload
    Kills,        \* whether a task may die, or raise outside its handlers
    MaxRestored   \* bound on the repeated deliveries of one message

ASSUME PipelineAssumption ==
    /\ None \notin Uploads
    /\ TotalParts \in Nat \ {0}
    /\ Kills \in BOOLEAN
    /\ MaxRestored \in Nat

VARIABLES
    upload,     \* uploads rows
    file,       \* dataset_files rows
    counted,    \* how often each file was added to the dataset's aggregates
    sessions,   \* open multipart sessions
    parts,      \* parts of a session that storage has received
    raw,        \* objects of the raw/ tier
    processed,  \* objects of the processed/ tier
    messages,   \* ingestion.process_dataset_file messages
    restored,   \* how often the broker put each message back
    revoked,    \* tasks whose termination was broadcast
    job,        \* what each client request is doing
    run         \* what the ingestion worker is doing

dbVars == <<upload, file, counted>>
storageVars == <<sessions, parts, raw, processed>>
brokerVars == <<messages, restored, revoked>>
vars == <<dbVars, storageVars, brokerVars, job, run>>

-----------------------------------------------------------------------------
(* Types                                                                   *)

UploadStatus == {"absent", "initiated", "queued", "processing", "complete", "failed", "cancelled"}

Upload ==
    [status : UploadStatus,
     multipart : BOOLEAN,    \* storage_key and the session's id are set
     linked : BOOLEAN]       \* dataset_file_id is set

NoUpload == [status |-> "absent", multipart |-> FALSE, linked |-> FALSE]

\* "ingested": the metadata that points to the processed artifact is committed.
FileStatus == {"absent", "stored", "ingested", "deleted"}

JobOps ==
    {"idle", "initiate", "assemble", "assembled", "put", "dispatch", "cancel", "cancelling"}

Job ==
    [op : JobOps,
     up : Uploads \cup {None},
     seen : UploadStatus,    \* the loaded status
     linked : BOOLEAN,       \* the loaded dataset_file_id is set
     drop : BOOLEAN]         \* the DatasetFile is to be deleted

Free == [op |-> "idle", up |-> None, seen |-> "absent", linked |-> FALSE, drop |-> FALSE]

\* The stages of process_dataset_file, named for the step that comes next.
Stages == {"download", "convert", "put", "check", "register"}

RunOps == Stages \cup
    {"idle", "begin", "finish", "undo", "drop", "dropfail", "cancelled", "failing", "ack"}

Run ==
    [op : RunOps,
     up : Uploads \cup {None},
     seen : UploadStatus,    \* the status loaded when the task began
     linked : BOOLEAN,       \* dataset_file_id at the last refresh
     wrote : BOOLEAN]        \* a processed artifact was stored

NoRun == [op |-> "idle", up |-> None, seen |-> "absent", linked |-> FALSE, wrote |-> FALSE]

UploadTypeOK ==
    /\ upload \in [Uploads -> Upload]
    /\ file \in [Uploads -> FileStatus]
    /\ counted \in [Uploads -> Nat]
    /\ sessions \subseteq Uploads
    /\ parts \in [Uploads -> 0..TotalParts]
    /\ raw \subseteq Uploads
    /\ processed \subseteq Uploads
    /\ messages \subseteq Uploads
    /\ restored \in [Uploads -> 0..MaxRestored]
    /\ revoked \subseteq Uploads
    /\ job \in [Clients -> Job]
    /\ run \in Run

Init ==
    /\ upload = [u \in Uploads |-> NoUpload]
    /\ file = [u \in Uploads |-> "absent"]
    /\ counted = [u \in Uploads |-> 0]
    /\ sessions = {}
    /\ parts = [u \in Uploads |-> 0]
    /\ raw = {}
    /\ processed = {}
    /\ messages = {}
    /\ restored = [u \in Uploads |-> 0]
    /\ revoked = {}
    /\ job = [c \in Clients |-> Free]
    /\ run = NoRun

FileStored(u) == file[u] \in {"stored", "ingested"}

SetJob(c, j) == job' = [job EXCEPT ![c] = j]

SetStatus(u, status) == upload' = [upload EXCEPT ![u].status = status]

-----------------------------------------------------------------------------
(* Multipart uploads                                                       *)

\* A key nobody has used: uuid4.
Fresh(u) ==
    /\ upload[u].status = "absent"
    /\ u \notin sessions \cup raw
    /\ \A c \in Clients : job[c].up # u

InitiateStorage(c, u) ==
    /\ job[c] = Free
    /\ Fresh(u)
    /\ sessions' = sessions \cup {u}
    /\ SetJob(c, [Free EXCEPT !.op = "initiate", !.up = u])
    /\ UNCHANGED <<dbVars, parts, raw, processed, brokerVars, run>>

InitiateCommit(c) ==
    /\ job[c].op = "initiate"
    /\ upload' = [upload EXCEPT ![job[c].up] =
           [status |-> "initiated", multipart |-> TRUE, linked |-> FALSE]]
    /\ SetJob(c, Free)
    /\ UNCHANGED <<file, counted, storageVars, brokerVars, run>>

PutPartTwice(u) ==
    /\ u \in sessions
    /\ upload[u].status # "absent"
    /\ parts' = [parts EXCEPT ![u] = @ + 1]
    /\ UNCHANGED <<dbVars, sessions, raw, processed, brokerVars, job, run>>
\* The browser PUTs a part to a URL that was presigned while the upload was
\* "initiated"; the URL outlives that status, the session does not.
PutPart(u) ==
    /\ u \in sessions
    /\ upload[u].status # "absent"
    /\ parts[u] < TotalParts
    /\ parts' = [parts EXCEPT ![u] = @ + 1]
    /\ UNCHANGED <<dbVars, sessions, raw, processed, brokerVars, job, run>>

\* list_parts must find all parts; a session that is gone has none.
CompleteLoad(c, u) ==
    /\ job[c] = Free
    /\ upload[u].status = "initiated"
    /\ u \in sessions
    /\ parts[u] = TotalParts
    /\ SetJob(c, [Free EXCEPT !.op = "assemble", !.up = u])
    /\ UNCHANGED <<dbVars, storageVars, brokerVars, run>>

\* complete_multipart_upload raises unless the session is still there.
CompleteStorage(c) ==
    LET u == job[c].up IN
    /\ job[c].op = "assemble"
    /\ u \in sessions
    /\ sessions' = sessions \ {u}
    /\ raw' = raw \cup {u}
    /\ SetJob(c, [job[c] EXCEPT !.op = "assembled"])
    /\ UNCHANGED <<dbVars, parts, processed, brokerVars, run>>

\* INSERT the file and UPDATE the upload, whatever its status is by now.
QueueWithoutFile(u) ==
    /\ upload' = [upload EXCEPT ![u].status = "queued", ![u].linked = TRUE]
    /\ file' = file
QueueWithFile(u) ==
    /\ upload' = [upload EXCEPT ![u].status = "queued", ![u].linked = TRUE]
    /\ file' = [file EXCEPT ![u] = "stored"]

CompleteCommit(c) ==
    LET u == job[c].up IN
    /\ job[c].op = "assembled"
    /\ file[u] = "absent"
    /\ QueueWithFile(u)
    /\ SetJob(c, [Free EXCEPT !.op = "dispatch", !.up = u])
    /\ UNCHANGED <<counted, storageVars, brokerVars, run>>

-----------------------------------------------------------------------------
(* Single-request uploads                                                  *)

SmallStorage(c, u) ==
    /\ job[c] = Free
    /\ Fresh(u)
    /\ raw' = raw \cup {u}
    /\ SetJob(c, [Free EXCEPT !.op = "put", !.up = u])
    /\ UNCHANGED <<dbVars, sessions, parts, processed, brokerVars, run>>

\* The upload does not name its file before the ingestion is complete.
SmallCommit(c) ==
    LET u == job[c].up IN
    /\ job[c].op = "put"
    /\ upload' = [upload EXCEPT ![u].status = "queued"]
    /\ file' = [file EXCEPT ![u] = "stored"]
    /\ SetJob(c, [Free EXCEPT !.op = "dispatch", !.up = u])
    /\ UNCHANGED <<counted, storageVars, brokerVars, run>>

DispatchAgain(c) ==
    /\ job[c].op = "dispatch"
    /\ messages' = messages \cup {job[c].up}
    /\ UNCHANGED <<dbVars, storageVars, restored, revoked, job, run>>
\* apply_async, after either kind of upload was committed.
Dispatch(c) ==
    /\ job[c].op = "dispatch"
    /\ messages' = messages \cup {job[c].up}
    /\ SetJob(c, Free)
    /\ UNCHANGED <<dbVars, storageVars, restored, revoked, run>>

-----------------------------------------------------------------------------
(* Cancellation                                                            *)

CancelLoad(c, u) ==
    /\ job[c] = Free
    /\ upload[u].status \in {"initiated", "queued", "processing"}
    /\ SetJob(c, [Free EXCEPT !.op = "cancel", !.up = u,
                              !.seen = upload[u].status, !.linked = upload[u].linked])
    /\ UNCHANGED <<dbVars, storageVars, brokerVars, run>>

CancelKeepingSession(c) ==
    /\ job[c].op = "cancel"
    /\ job[c].seen = "initiated"
    /\ SetJob(c, [job[c] EXCEPT !.op = "cancelling"])
    /\ UNCHANGED <<dbVars, storageVars, brokerVars, run>>
\* "initiated": abort the multipart session; aborting twice is no error.
CancelSession(c) ==
    /\ job[c].op = "cancel"
    /\ job[c].seen = "initiated"
    /\ sessions' = sessions \ {job[c].up}
    /\ SetJob(c, [job[c] EXCEPT !.op = "cancelling"])
    /\ UNCHANGED <<dbVars, parts, raw, processed, brokerVars, run>>

\* "queued": delete the object of the linked file, or of the multipart key.
\* A single-request upload has neither.
CancelObject(c) ==
    LET u == job[c].up
        drop == job[c].linked /\ FileStored(u)
    IN
    /\ job[c].op = "cancel"
    /\ job[c].seen = "queued"
    /\ raw' = IF drop \/ (~job[c].linked /\ upload[u].multipart) THEN raw \ {u} ELSE raw
    /\ SetJob(c, [job[c] EXCEPT !.op = "cancelling", !.drop = drop])
    /\ UNCHANGED <<dbVars, sessions, parts, processed, brokerVars, run>>

\* "processing": control.revoke(terminate=True) is broadcast to the workers.
CancelTask(c) ==
    /\ job[c].op = "cancel"
    /\ job[c].seen = "processing"
    /\ revoked' = revoked \cup {job[c].up}
    /\ SetJob(c, [job[c] EXCEPT !.op = "cancelling"])
    /\ UNCHANGED <<dbVars, storageVars, messages, restored, run>>

\* The status is written over whatever the task has made of it.  Deleting
\* the file's row sets uploads.dataset_file_id to NULL.
CancelRow(c) ==
    file' = IF job[c].drop THEN [file EXCEPT ![job[c].up] = "deleted"] ELSE file

CancelCommit(c) ==
    LET u == job[c].up IN
    /\ job[c].op = "cancelling"
    /\ upload' = [upload EXCEPT
           ![u].status = "cancelled",
           ![u].linked = IF job[c].seen = "queued" /\ job[c].linked THEN FALSE ELSE @]
    /\ CancelRow(c)
    /\ SetJob(c, Free)
    /\ UNCHANGED <<counted, storageVars, brokerVars, run>>

\* The request's process is lost, or storage, the broker or the database
\* refuses: it ends with what it had done.
ClientLost(c) ==
    /\ job[c] # Free
    /\ SetJob(c, Free)
    /\ UNCHANGED <<dbVars, storageVars, brokerVars, run>>

-----------------------------------------------------------------------------
(* process_dataset_file                                                    *)

Cancelled(u) == upload[u].status = "cancelled"

\* Nothing to do without the file, or for an upload already cancelled.
TaskSkip(u) ==
    /\ run = NoRun
    /\ u \in messages
    /\ ~FileStored(u) \/ Cancelled(u)
    /\ messages' = messages \ {u}
    /\ run' = [NoRun EXCEPT !.op = "ack", !.up = u]
    /\ UNCHANGED <<dbVars, storageVars, restored, revoked, job>>

TaskLoad(u) ==
    /\ run = NoRun
    /\ u \in messages
    /\ FileStored(u)
    /\ ~Cancelled(u)
    /\ messages' = messages \ {u}
    /\ run' = [NoRun EXCEPT !.op = "begin", !.up = u,
                            !.seen = upload[u].status, !.linked = upload[u].linked]
    /\ UNCHANGED <<dbVars, storageVars, restored, revoked, job>>

\* UPDATE status, unless it was loaded as "processing" already.
TaskBegin ==
    LET u == run.up IN
    /\ run.op = "begin"
    /\ IF run.seen = "processing" THEN upload' = upload ELSE SetStatus(u, "processing")
    /\ run' = [run EXCEPT !.op = "download"]
    /\ UNCHANGED <<file, counted, storageVars, brokerVars, job>>

\* _checkpoint re-reads the row and raises IngestionCancelled.
Checkpoint == ~Cancelled(run.up)

CheckpointCancelled ==
    /\ run.op \in Stages \ {"register"}
    /\ ~Checkpoint
    /\ run' = [run EXCEPT !.op = "undo"]
    /\ UNCHANGED <<dbVars, storageVars, brokerVars, job>>

Download ==
    /\ run.op = "download"
    /\ Checkpoint
    /\ run.up \in raw
    /\ run' = [run EXCEPT !.op = "convert"]
    /\ UNCHANGED <<dbVars, storageVars, brokerVars, job>>

\* Checksum, then parse and to_processed; one checkpoint before each of the
\* download, the conversion and the upload of its result, one after that.
Convert ==
    /\ run.op = "convert"
    /\ Checkpoint
    /\ run' = [run EXCEPT !.op = "put"]
    /\ UNCHANGED <<dbVars, storageVars, brokerVars, job>>

PutProcessed ==
    /\ run.op = "put"
    /\ Checkpoint
    /\ processed' = processed \cup {run.up}
    /\ run' = [run EXCEPT !.op = "check", !.wrote = TRUE]
    /\ UNCHANGED <<dbVars, sessions, parts, raw, brokerVars, job>>

\* Some chunk of a Zarr store failed: its prefix is deleted again.
ZarrUploadFailed ==
    /\ run.op = "put"
    /\ Checkpoint
    /\ processed' = processed \ {run.up}
    /\ run' = [run EXCEPT !.op = "dropfail"]
    /\ UNCHANGED <<dbVars, sessions, parts, raw, brokerVars, job>>

LastCheckpoint ==
    /\ run.op = "check"
    /\ Checkpoint
    /\ run' = [run EXCEPT !.op = "register", !.linked = upload[run.up].linked]
    /\ UNCHANGED <<dbVars, storageVars, brokerVars, job>>

\* Registry, file metadata and the dataset's version and record count, in
\* one commit; the UPDATE of a deleted file fails.
Register(u) ==
    /\ FileStored(u)
    /\ file' = [file EXCEPT ![u] = "ingested"]

RegisterCommit ==
    LET u == run.up IN
    /\ run.op = "register"
    /\ Register(u)
    /\ counted' = [counted EXCEPT ![u] = @ + 1]
    /\ run' = [run EXCEPT !.op = "finish"]
    /\ UNCHANGED <<upload, storageVars, brokerVars, job>>

\* status and dataset_file_id; a new reference needs the file's row.
FinishLinking(u) == upload' = [upload EXCEPT ![u].status = "complete", ![u].linked = TRUE]
FinishUpload(u) ==
    /\ run.linked \/ FileStored(u)
    /\ upload' = [upload EXCEPT ![u].status = "complete", ![u].linked = @ \/ ~run.linked]

Finish ==
    /\ run.op = "finish"
    /\ FinishUpload(run.up)
    /\ run' = [run EXCEPT !.op = "ack"]
    /\ UNCHANGED <<file, counted, storageVars, brokerVars, job>>

\* Any exception while running keeps the file and whatever was stored.
Fail ==
    /\ run.op \in Stages
    /\ run' = [run EXCEPT !.op = "failing"]
    /\ UNCHANGED <<dbVars, storageVars, brokerVars, job>>

SoftTimeLimit ==
    /\ run.op \in Stages
    /\ run' = [run EXCEPT !.op = "dropfail"]
    /\ UNCHANGED <<dbVars, storageVars, brokerVars, job>>

\* _cleanup_cancelled_ingestion: the artifact this run stored, if any, ...
UndoProcessed ==
    /\ run.op = "undo"
    /\ processed' = IF run.wrote THEN processed \ {run.up} ELSE processed
    /\ run' = [run EXCEPT !.op = "drop"]
    /\ UNCHANGED <<dbVars, sessions, parts, raw, brokerVars, job>>

\* ... and the file's row; the raw object stays.
DropRow ==
    LET u == run.up IN
    /\ run.op \in {"drop", "dropfail"}
    /\ file' = [file EXCEPT ![u] = "deleted"]
    /\ upload' = [upload EXCEPT ![u].linked = FALSE]
    /\ run' = [run EXCEPT !.op = IF run.op = "drop" THEN "cancelled" ELSE "failing"]
    /\ UNCHANGED <<counted, storageVars, brokerVars, job>>

\* The cleanup is best effort: its exceptions are logged and ignored.
CleanupFails ==
    /\ run.op \in {"undo", "drop", "dropfail"}
    /\ run' = [run EXCEPT !.op = IF run.op = "dropfail" THEN "failing" ELSE "cancelled"]
    /\ UNCHANGED <<dbVars, storageVars, brokerVars, job>>

LeaveStatus ==
    /\ run.op \in {"cancelled", "failing"}
    /\ run' = [run EXCEPT !.op = "ack"]
    /\ UNCHANGED <<dbVars, storageVars, brokerVars, job>>
\* _set_upload_terminal_state, on a session of its own.
WriteTerminal ==
    /\ run.op \in {"cancelled", "failing"}
    /\ SetStatus(run.up, IF run.op = "failing" THEN "failed" ELSE "cancelled")
    /\ run' = [run EXCEPT !.op = "ack"]
    /\ UNCHANGED <<file, counted, storageVars, brokerVars, job>>

Ack ==
    /\ run.op = "ack"
    /\ run' = NoRun
    /\ UNCHANGED <<dbVars, storageVars, brokerVars, job>>

-----------------------------------------------------------------------------
(* Broker and worker                                                       *)

\* An unacknowledged message goes back to the queue.
Restored ==
    /\ restored[run.up] < MaxRestored
    /\ messages' = messages \cup {run.up}
    /\ restored' = [restored EXCEPT ![run.up] = @ + 1]

WorkerLost ==
    /\ run # NoRun
    /\ Restored
    /\ run' = NoRun
    /\ UNCHANGED <<dbVars, storageVars, revoked, job>>

\* The visibility timeout passes while the task is still running.
Redeliver ==
    /\ run # NoRun
    /\ Restored
    /\ UNCHANGED <<dbVars, storageVars, revoked, job, run>>

\* The child process dies (hard time limit, out of memory) or the task raises
\* outside its try statement: the message is acknowledged.
Killed ==
    /\ Kills
    /\ run # NoRun
    /\ run' = NoRun
    /\ UNCHANGED <<dbVars, storageVars, brokerVars, job>>

\* The broadcast reaches the worker: it ends the task, or discards its message.
Terminated ==
    /\ run # NoRun
    /\ run.up \in revoked
    /\ run' = NoRun
    /\ UNCHANGED <<dbVars, storageVars, brokerVars, job>>

Discard(u) ==
    /\ run = NoRun
    /\ u \in messages \cap revoked
    /\ messages' = messages \ {u}
    /\ UNCHANGED <<dbVars, storageVars, restored, revoked, job, run>>

-----------------------------------------------------------------------------

ClientStep(c) ==
    \/ \E u \in Uploads :
          \/ InitiateStorage(c, u)
          \/ SmallStorage(c, u)
          \/ CompleteLoad(c, u)
          \/ CancelLoad(c, u)
    \/ InitiateCommit(c)
    \/ CompleteStorage(c)
    \/ CompleteCommit(c)
    \/ SmallCommit(c)
    \/ Dispatch(c)
    \/ CancelSession(c)
    \/ CancelObject(c)
    \/ CancelTask(c)
    \/ CancelCommit(c)
    \/ ClientLost(c)

TaskStep ==
    \/ TaskBegin
    \/ CheckpointCancelled
    \/ Download
    \/ Convert
    \/ PutProcessed
    \/ ZarrUploadFailed
    \/ LastCheckpoint
    \/ RegisterCommit
    \/ Finish
    \/ Fail
    \/ SoftTimeLimit
    \/ UndoProcessed
    \/ DropRow
    \/ CleanupFails
    \/ WriteTerminal
    \/ Ack

WorkerStep == WorkerLost \/ Redeliver \/ Killed \/ Terminated

Next ==
    \/ \E c \in Clients : ClientStep(c)
    \/ \E u \in Uploads : PutPart(u) \/ TaskSkip(u) \/ TaskLoad(u) \/ Discard(u)
    \/ TaskStep
    \/ WorkerStep

Spec == Init /\ [][Next]_vars

\* The worker takes every message in the end and carries its task on; that it
\* is not lost for ever is in MaxRestored.
WorkerFairness ==
    /\ \A u \in Uploads : SF_vars(TaskSkip(u) \/ TaskLoad(u))
    /\ WF_vars(TaskStep)

FairSpec == Spec /\ WorkerFairness

-----------------------------------------------------------------------------
(* Properties                                                              *)

\* No upload leaves "initiated" with its multipart session still open in
\* storage, however cancellations and completions of it overlap.
SessionsClosed == \A u \in sessions : upload[u].status \in {"absent", "initiated"}

\* A queued upload has its file's row, so the task finds what it is sent for,
\* although cancellation, cleanup and completion write both rows.
QueuedHasFile == \A u \in Uploads : upload[u].status = "queued" => FileStored(u)

\* A complete upload that names its file names one that can be queried: its
\* row has metadata, the artifact this points to is stored, and its content
\* is in the dataset's aggregates.
LinkedCompleteIsQueryable ==
    \A u \in Uploads : upload[u].status = "complete" /\ upload[u].linked =>
        file[u] = "ingested" /\ u \in processed /\ counted[u] > 0

\* Only the content of an ingested file is counted.
CountedIsIngested == \A u \in Uploads : counted[u] > 0 => file[u] \in {"ingested", "deleted"}

\* A file is counted at most once per delivery of its message, and one that
\* was ingested by the only delivery never loses its artifact.
IngestedOnce ==
    \A u \in Uploads :
        /\ counted[u] <= 1 + restored[u]
        /\ file[u] = "ingested" /\ restored[u] = 0 => u \in processed

\* A dispatched upload does not stay queued or processing, unless a
\* cancellation had its task terminated, or its worker was lost between the
\* deletion of the file's row and the terminal status: the task that is
\* delivered again finds no file and leaves the upload as it is.
DispatchedSettles ==
    \A u \in Uploads :
        u \in messages ~>
            \/ upload[u].status \notin {"queued", "processing"}
            \/ u \in revoked
            \/ file[u] = "deleted"
=============================================================================
