--------------------------- MODULE StoredObjects ---------------------------
(***************************************************************************)
(* The objects in storage and the rows that name them: uploads of files,   *)
(* media, supporting documents and avatars, the outputs of ingestions,     *)
(* reports and backups, their deletion, and the orphan sweep               *)
(* (worker/tasks/integrity.py, scripts/orphan_sweep.py) that compares the  *)
(* two while all of this goes on.  SubsetExtraction has the extractions.   *)
(*                                                                         *)
(* No transaction spans the database and the storage, so every operation   *)
(* is cut between its storage call and its commit.  A Zarr store, which is *)
(* many objects under a prefix, counts as one; snapshots and previews,     *)
(* which the sweep only counts, and the second storage backend are left    *)
(* out.  All avatars are of one user.                                      *)
(***************************************************************************)
EXTENDS Integers, FiniteSets, Sequences

CONSTANTS
    Keys,      \* storage keys; none is used for two objects
    Kind,      \* what is stored under a key
    RawOf,     \* of the key of a processed artifact: the key of its raw file
    Workers,   \* API requests, Celery processes, scripts
    MaxStored, \* bound: keys used in one behaviour, however often each is used
    MaxSweeps, \* bound: runs of the sweep
    None

Kinds == {"raw", "processed", "zarr", "media", "document", "avatar", "report", "backup"}

KeysOf(kinds) == {k \in Keys : Kind[k] \in kinds}

Raws == KeysOf({"raw"})
Artifacts == KeysOf({"processed", "zarr"})
Zarrs == KeysOf({"zarr"})
Documents == KeysOf({"document"})
Media == KeysOf({"media"})
Avatars == KeysOf({"avatar"})
Reports == KeysOf({"report"})
Backups == KeysOf({"backup"})

\* Kinds whose row is there before the object, which a task then makes.
Tasked == Reports \cup Backups

ASSUME StoredAssumption ==
    /\ Kind \in [Keys -> Kinds]
    /\ RawOf \in [Artifacts -> Raws]
    /\ MaxStored \in Nat /\ MaxSweeps \in Nat
    /\ None \notin Keys

VARIABLES
    objects,   \* keys under which an object is stored
    named,     \* keys that a committed row names
    fresh,     \* keys not used yet
    task,      \* the rows of reports and backups
    expired,   \* backups that were seen to be older than the retention period
    messages,  \* reports and backups whose task message is not acknowledged
    job,       \* what a worker is at
    sweep,     \* the run of the orphan sweep
    touched,   \* history: keys with a change since the sweep began
    abandoned, \* history: keys whose object was deleted by a worker that ended before its commit
    swept      \* history: keys the sweep's script deleted (both: and that were not stored again)

storage == <<objects, named, fresh>>
history == <<touched, abandoned, swept>>
vars == <<storage, task, expired, messages, job, sweep, history>>

Idle == [op |-> "idle", key |-> None, todo |-> {}, gone |-> {}]

Job == [op : {"idle", "stored", "remove", "generate", "generated", "dump",
              "dumped", "retention", "expire"},
        key : Keys \cup {None}, todo : SUBSET Keys, gone : SUBSET Keys]

\* Status of the row; a report without its output counts as running.
TaskStatus == {"absent", "running", "success", "failed", "deleted"}
HasRow(k) == task[k] \notin {"absent", "deleted"}

NoSweep ==
    [step |-> "idle", runs |-> 0, pos |-> 1, known |-> {}, todo |-> {}, missing |-> {},
     orphans |-> {}, skipped |-> {}]

Init ==
    /\ objects = {} /\ named = {} /\ fresh = Keys
    /\ task = [k \in Tasked |-> "absent"]
    /\ expired = {} /\ messages = {}
    /\ job = [w \in Workers |-> Idle]
    /\ sweep = NoSweep
    /\ touched = {} /\ abandoned = {} /\ swept = {}

SetJob(w, j) == job' = [job EXCEPT ![w] = j]

\* Keys that change while a sweep runs.
Touch(S) == touched' = IF sweep.step = "idle" THEN touched ELSE touched \cup S

-----------------------------------------------------------------------------
(* Object first, then row                                                  *)

\* What is stored again is there again.
Store(k) ==
    /\ objects' = objects \cup {k}
    /\ abandoned' = abandoned \ {k} /\ swept' = swept \ {k}
    /\ Touch({k})

Put(w, k) ==
    /\ job[w] = Idle
    /\ k \in fresh => Cardinality(Keys \ fresh) < MaxStored
    /\ fresh' = fresh \ {k}
    /\ Store(k)
    /\ SetJob(w, [Idle EXCEPT !.op = "stored", !.key = k])
    /\ UNCHANGED <<named, task, expired, messages, sweep>>

\* The key carries a new uuid ...
PutNew(w, k) == k \in fresh /\ Put(w, k)

UploadFile(w, k) == k \in Raws /\ PutNew(w, k)
ImportFile(w, k) == k \in Raws /\ PutNew(w, k)
UploadDocument(w, k) == k \in Documents /\ PutNew(w, k)
UploadMedia(w, k) == k \in Media /\ PutNew(w, k)
UploadAvatar(w, k) == k \in Avatars /\ PutNew(w, k)

\* ... but that of an artifact carries its file's: an ingestion that is
\* delivered again stores under the key of the one before.
PutProcessed(w, k) == k \in Artifacts /\ RawOf[k] \in named /\ Put(w, k)

Name(w, S) ==
    /\ named' = S
    /\ SetJob(w, Idle)
    /\ Touch((named \ S) \cup (S \ named))
    /\ UNCHANGED <<objects, fresh, task, expired, messages, sweep, abandoned, swept>>

\* The commit of a new row, or of the row that has waited for the object.
CommitRow(w) ==
    /\ job[w].op = "stored"
    /\ job[w].key \in Raws \cup Documents \cup Media
    /\ Name(w, named \cup {job[w].key})

\* file_metadata of the file's row, if it is still there.
CommitMetadata(w) ==
    /\ job[w].op = "stored" /\ job[w].key \in Artifacts
    /\ RawOf[job[w].key] \in named
    /\ Name(w, named \cup {job[w].key})

\* The user's row names the new avatar only; the old object stays.
CommitAvatar(w) ==
    /\ job[w].op = "stored" /\ job[w].key \in Avatars
    /\ Name(w, (named \ Avatars) \cup {job[w].key})

\* anonymize_user forgets the key of the avatar, not the object.
ForgetAvatar(w) ==
    /\ job[w] = Idle
    /\ named \cap Avatars # {}
    /\ Name(w, named \ Avatars)

\* The INSERT of a document is flushed inside a try: its object is deleted.
DocumentFails(w) ==
    /\ job[w].op = "stored" /\ job[w].key \in Documents
    /\ objects' = objects \ {job[w].key}
    /\ SetJob(w, Idle)
    /\ Touch({job[w].key})
    /\ UNCHANGED <<named, fresh, task, expired, messages, sweep, abandoned, swept>>

-----------------------------------------------------------------------------
(* Object deleted first, then row                                          *)

ArtifactsOf(k) == {p \in Artifacts : RawOf[p] = k}

Remove(w, k, S) ==
    /\ job[w] = Idle
    /\ SetJob(w, [Idle EXCEPT !.op = "remove", !.key = k, !.todo = S])
    /\ UNCHANGED <<storage, task, expired, messages, sweep, history>>

\* A file goes with the artifact that its row names when it is loaded ...
RemoveFile(w, k) ==
    /\ k \in Raws /\ k \in named
    /\ Remove(w, k, {k} \cup (ArtifactsOf(k) \cap named))

\* ... but the cleanup script does not look for a Zarr store.
CleanupUpload(w, k) ==
    /\ k \in Raws /\ k \in named
    /\ Remove(w, k, {k} \cup ((ArtifactsOf(k) \cap named) \ Zarrs))

RemoveMedia(w, k) ==
    /\ k \in Media /\ k \in named
    /\ Remove(w, k, {k})

DeleteObject(w, k) ==
    /\ job[w].op \in {"remove", "expire"} /\ k \in job[w].todo
    /\ objects' = objects \ {k}
    /\ SetJob(w, [job[w] EXCEPT !.todo = @ \ {k}, !.gone = @ \cup {k}])
    /\ Touch({k})
    /\ UNCHANGED <<named, fresh, task, expired, messages, sweep, abandoned, swept>>

\* Mutant for NamedHasObject: the artifact stays in the catalogue.
RemoveCommitKeepsArtifact(w) ==
    /\ job[w].op = "remove" /\ job[w].todo = {}
    /\ Name(w, named \ {job[w].key})

\* An ingestion that is cancelled or runs out of time deletes the file's row
\* and keeps the raw object: before it has stored an artifact ...
AbandonIngestion(w, k) ==
    /\ k \in Raws /\ k \in named
    /\ Remove(w, k, {})

Withdrawn(k, gone) == [op |-> "remove", key |-> RawOf[k], todo |-> {}, gone |-> gone]

\* ... after it has, out of time, or when the deletion of a Zarr store whose
\* upload failed has failed too ...
KeepArtifact(w) ==
    /\ job[w].op = "stored" /\ job[w].key \in Artifacts
    /\ SetJob(w, Withdrawn(job[w].key, {}))
    /\ UNCHANGED <<storage, task, expired, messages, sweep, history>>

\* ... or after it has deleted the artifact again: cancelled, or because a
\* part of a Zarr store could not be uploaded.  It may be the artifact that
\* the row names since an earlier delivery.
WithdrawArtifact(w) ==
    LET k == job[w].key IN
    /\ job[w].op = "stored" /\ k \in Artifacts
    /\ objects' = objects \ {k}
    /\ SetJob(w, Withdrawn(k, {k}))
    /\ Touch({k})
    /\ UNCHANGED <<named, fresh, task, expired, messages, sweep, abandoned, swept>>

\* The file's row goes with all that it names by then.
RemoveCommit(w) ==
    /\ job[w].op = "remove" /\ job[w].todo = {}
    /\ Name(w, named \ ({job[w].key} \cup ArtifactsOf(job[w].key)))

-----------------------------------------------------------------------------
(* Reports and backups                                                     *)

\* The row is committed, then the task is dispatched, unless the process
\* ends in between.
CreateTask(w, k) ==
    /\ job[w] = Idle
    /\ task[k] = "absent"
    /\ Cardinality(Keys \ fresh) < MaxStored
    /\ fresh' = fresh \ {k}
    /\ task' = [task EXCEPT ![k] = "running"]
    /\ messages' \in {messages, messages \cup {k}}
    /\ UNCHANGED <<objects, named, expired, job, sweep, history>>

CreateReport(w, k) == k \in Reports /\ CreateTask(w, k)
CreateBackup(w, k) == k \in Backups /\ CreateTask(w, k)

\* Nothing but the row is there to tell of a scheduled backup that is lost.
ScheduledBackup(w, k) ==
    /\ job[w] = Idle
    /\ k \in Backups /\ task[k] = "absent"
    /\ Cardinality(Keys \ fresh) < MaxStored
    /\ fresh' = fresh \ {k}
    /\ task' = [task EXCEPT ![k] = "running"]
    /\ SetJob(w, [Idle EXCEPT !.op = "dump", !.key = k])
    /\ UNCHANGED <<objects, named, expired, messages, sweep, history>>

Acknowledge(w) == messages' = messages \ {job[w].key}

GenerateReport(w, k) ==
    /\ job[w] = Idle
    /\ k \in messages \cap Reports
    /\ SetJob(w, [Idle EXCEPT !.op = "generate", !.key = k])
    /\ UNCHANGED <<storage, task, expired, messages, sweep, history>>

PutOutput(w, from, to) ==
    /\ job[w].op = from
    /\ Store(job[w].key)
    /\ SetJob(w, [job[w] EXCEPT !.op = to])
    /\ UNCHANGED <<named, fresh, task, expired, messages, sweep>>

PutReport(w) == PutOutput(w, "generate", "generated")
PutDump(w) == PutOutput(w, "dump", "dumped")

ReportCommit(w) ==
    /\ job[w].op = "generated"
    /\ named' = named \cup {job[w].key}
    /\ task' = [task EXCEPT ![job[w].key] = "success"]
    /\ Acknowledge(w)
    /\ SetJob(w, Idle)
    /\ Touch({job[w].key})
    /\ UNCHANGED <<objects, fresh, expired, sweep, abandoned, swept>>

\* A delivered message runs the dump, of whatever status its row is.
StartBackup(w, k) ==
    /\ job[w] = Idle
    /\ k \in messages \cap Backups
    /\ IF HasRow(k)
       THEN /\ task' = [task EXCEPT ![k] = "running"]
            /\ SetJob(w, [Idle EXCEPT !.op = "dump", !.key = k])
            /\ UNCHANGED messages
       ELSE messages' = messages \ {k} /\ UNCHANGED <<task, job>>
    /\ UNCHANGED <<storage, expired, sweep, history>>

\* pg_dump or the upload fails: nothing is retried.
BackupFails(w) ==
    /\ job[w].op = "dump"
    /\ task' = IF HasRow(job[w].key) THEN [task EXCEPT ![job[w].key] = "failed"] ELSE task
    /\ Acknowledge(w)
    /\ SetJob(w, Idle)
    /\ UNCHANGED <<storage, expired, sweep, history>>

BackupCommit(w) ==
    LET k == job[w].key IN
    /\ job[w].op = "dumped"
    /\ IF HasRow(k)
       THEN task' = [task EXCEPT ![k] = "success"] /\ named' = named \cup {k}
       ELSE UNCHANGED <<task, named>>
    /\ SetJob(w, [job[w] EXCEPT !.op = "retention"])
    /\ Touch({k})
    /\ UNCHANGED <<objects, fresh, expired, messages, sweep, abandoned, swept>>

\* Mutant for StoredTypeOK: the rows of all tasks are selected.
RetentionLoadAnyTable(w) ==
    /\ job[w].op = "retention"
    /\ expired' \in {S \in SUBSET {k \in Tasked : task[k] # "absent"} : expired \subseteq S}
    /\ LET rows == {k \in expired' : HasRow(k)} IN
       SetJob(w, [job[w] EXCEPT !.op = "expire", !.todo = rows \cap named, !.gone = rows \ named])
    /\ UNCHANGED <<storage, task, messages, sweep, history>>

\* Mutant for BackupKept: rows are selected whatever their age.
RetentionLoadAnyAge(w) ==
    /\ job[w].op = "retention"
    /\ LET rows == {k \in Backups : HasRow(k)} IN
       SetJob(w, [job[w] EXCEPT !.op = "expire", !.todo = rows \cap named, !.gone = rows \ named])
    /\ UNCHANGED <<storage, task, expired, messages, sweep, history>>

\* Retention: the objects of the expired rows that name one.  A backup may
\* expire at any time, and is seen to when the rows are selected ...
RetentionLoad(w) ==
    /\ job[w].op = "retention"
    /\ expired' \in {S \in SUBSET {k \in Backups : task[k] # "absent"} : expired \subseteq S}
    /\ LET rows == {k \in expired' : HasRow(k)} IN
       SetJob(w, [job[w] EXCEPT !.op = "expire", !.todo = rows \cap named, !.gone = rows \ named])
    /\ UNCHANGED <<storage, task, messages, sweep, history>>

\* ... a deletion that fails keeps the object, not the row ...
RetentionKeeps(w, k) ==
    /\ job[w].op = "expire" /\ k \in job[w].todo
    /\ SetJob(w, [job[w] EXCEPT !.todo = @ \ {k}, !.gone = @ \cup {k}])
    /\ UNCHANGED <<storage, task, expired, messages, sweep, history>>

\* ... then the rows, in one commit.
RetentionCommit(w) ==
    LET rows == job[w].gone IN
    /\ job[w].op = "expire" /\ job[w].todo = {}
    /\ task' = [k \in Tasked |-> IF k \in rows THEN "deleted" ELSE task[k]]
    /\ named' = named \ rows
    /\ Acknowledge(w)
    /\ SetJob(w, Idle)
    /\ Touch(rows)
    /\ UNCHANGED <<objects, fresh, expired, sweep, abandoned, swept>>

\* The process ends, or a commit fails; the errors of an ingestion's cleanup
\* are swallowed, and the row stays.  The message of a task is delivered
\* again, or was acknowledged when only the child process was killed.
Lost(w) ==
    /\ job[w] # Idle
    /\ abandoned' = abandoned \cup job[w].gone
    /\ messages' \in {messages, messages \ {job[w].key}}
    /\ SetJob(w, Idle)
    /\ UNCHANGED <<storage, task, expired, sweep, touched, swept>>

-----------------------------------------------------------------------------
(* The orphan sweep                                                        *)

\* The tables with storage keys, in the order they are read, each by a
\* statement of its own.  users.avatar_key is not among them.
SweptTables == <<Raws \cup Artifacts, Media, Documents, Reports, Backups>>

Prefixes == <<Raws, Artifacts, Avatars, Documents, Media, Backups, Reports>>

SetSweep(s) ==
    /\ sweep' = s
    /\ UNCHANGED <<storage, task, expired, messages, job, history>>

\* The entry of a Zarr store is a prefix, which is not looked up.
Checked(keys) == keys \ Zarrs

Checking(keys) == IF keys = {} THEN "list" ELSE "exists"

SweepStart ==
    /\ sweep.step = "idle" /\ sweep.runs < MaxSweeps
    /\ sweep' = [sweep EXCEPT !.step = "collect", !.runs = @ + 1]
    /\ UNCHANGED <<storage, task, expired, messages, job, history>>

\* Mutant for SweepExact: the last table is not read.
CollectKnownKeysButLast ==
    LET known == sweep.known \cup (named \cap SweptTables[sweep.pos]) IN
    /\ sweep.step = "collect"
    /\ IF sweep.pos < Len(SweptTables) - 1
       THEN SetSweep([sweep EXCEPT !.known = known, !.pos = @ + 1])
       ELSE SetSweep([sweep EXCEPT !.step = Checking(Checked(known)), !.known = known,
                                   !.todo = Checked(known), !.pos = 1])

CollectKnownKeys ==
    LET known == sweep.known \cup (named \cap SweptTables[sweep.pos]) IN
    /\ sweep.step = "collect"
    /\ IF sweep.pos < Len(SweptTables)
       THEN SetSweep([sweep EXCEPT !.known = known, !.pos = @ + 1])
       ELSE SetSweep([sweep EXCEPT !.step = Checking(Checked(known)), !.known = known,
                                   !.todo = Checked(known), !.pos = 1])

\* A storage error skips a key, and its finding if there is one; at most one
\* error in a sweep hides something.
CheckKey(k) ==
    LET todo == sweep.todo \ {k} IN
    /\ sweep.step = "exists" /\ k \in sweep.todo
    /\ \/ SetSweep([sweep EXCEPT !.step = Checking(todo), !.todo = todo,
              !.missing = IF k \in objects THEN @ ELSE @ \cup {k}])
       \/ /\ k \notin objects /\ sweep.skipped = {}
          /\ SetSweep([sweep EXCEPT !.step = Checking(todo), !.todo = todo, !.skipped = {k}])

\* A storage error skips the rest of a prefix.
ListPrefix ==
    LET unknown == (objects \cap Prefixes[sweep.pos]) \ sweep.known
        listing == IF sweep.pos < Len(Prefixes)
                   THEN [sweep EXCEPT !.pos = @ + 1]
                   ELSE [sweep EXCEPT !.step = "report", !.pos = 1, !.known = {}]
    IN /\ sweep.step = "list"
       /\ \/ SetSweep([listing EXCEPT !.orphans = @ \cup unknown])
          \/ \E rest \in SUBSET unknown \ {{}} :
                /\ sweep.skipped = {}
                /\ SetSweep([listing EXCEPT !.orphans = @ \cup (unknown \ rest), !.skipped = rest])

\* The script, with --delete: only keys the same run has just reported.
DeleteOrphan(k) ==
    /\ sweep.step = "report" /\ k \in sweep.orphans
    /\ objects' = objects \ {k}
    /\ swept' = swept \cup {k}
    /\ Touch({k})
    /\ UNCHANGED <<named, fresh, task, expired, messages, job, sweep, abandoned>>

SweepEnd ==
    /\ sweep.step = "report"
    /\ sweep' = [NoSweep EXCEPT !.runs = sweep.runs]
    /\ touched' = {}
    /\ UNCHANGED <<storage, task, expired, messages, job, abandoned, swept>>

-----------------------------------------------------------------------------

UploadStep(w) ==
    \/ \E k \in Raws : UploadFile(w, k) \/ ImportFile(w, k)
    \/ \E k \in Documents : UploadDocument(w, k)
    \/ \E k \in Media : UploadMedia(w, k)
    \/ \E k \in Avatars : UploadAvatar(w, k)
    \/ \E k \in Artifacts : PutProcessed(w, k)

CommitStep(w) ==
    \/ CommitRow(w) \/ CommitMetadata(w) \/ CommitAvatar(w)
    \/ ForgetAvatar(w) \/ DocumentFails(w)

RemoveStep(w) ==
    \/ \E k \in Raws : RemoveFile(w, k) \/ CleanupUpload(w, k) \/ AbandonIngestion(w, k)
    \/ KeepArtifact(w) \/ WithdrawArtifact(w)
    \/ \E k \in Media : RemoveMedia(w, k)
    \/ \E k \in job[w].todo : DeleteObject(w, k) \/ RetentionKeeps(w, k)
    \/ RemoveCommit(w)

TaskStart(w) ==
    \/ \E k \in Reports : CreateReport(w, k) \/ GenerateReport(w, k)
    \/ \E k \in Backups : CreateBackup(w, k) \/ ScheduledBackup(w, k) \/ StartBackup(w, k)

TaskStep(w) ==
    \/ PutReport(w) \/ ReportCommit(w)
    \/ PutDump(w) \/ BackupFails(w) \/ BackupCommit(w)
    \/ RetentionLoad(w) \/ RetentionCommit(w)

SweepStep ==
    \/ SweepStart \/ CollectKnownKeys \/ ListPrefix \/ SweepEnd
    \/ \E k \in sweep.todo : CheckKey(k)
    \/ \E k \in sweep.orphans : DeleteOrphan(k)

Next ==
    \/ \E w \in Workers :
        UploadStep(w) \/ CommitStep(w) \/ RemoveStep(w) \/ TaskStart(w) \/ TaskStep(w) \/ Lost(w)
    \/ SweepStep

Spec == Init /\ [][Next]_vars

-----------------------------------------------------------------------------
(* Properties                                                              *)

StoredTypeOK ==
    /\ objects \subseteq Keys /\ named \subseteq Keys /\ fresh \subseteq Keys
    /\ task \in [Tasked -> TaskStatus]
    /\ expired \subseteq Backups /\ messages \subseteq Tasked
    /\ job \in [Workers -> Job]
    /\ sweep \in [step : {"idle", "collect", "exists", "list", "report"}, runs : Nat, pos : Nat,
                  known : SUBSET Keys, todo : SUBSET Keys, missing : SUBSET Keys,
                  orphans : SUBSET Keys, skipped : SUBSET Keys]
    /\ touched \subseteq Keys /\ abandoned \subseteq Keys /\ swept \subseteq Keys

\* A download of what a row names finds its object: whatever uploads, tasks
\* and deletions overlap, are lost or run again, and although an ingestion
\* that is delivered again stores, and may delete, what the row names since
\* the one before.  Excepted is what a deletion or a withdrawn ingestion that
\* still has to commit has taken away, or one that ended before its commit,
\* or the sweep's script, and that was not stored again since.
NamedHasObject ==
    \A k \in named :
        \/ k \in objects \cup abandoned \cup swept
        \/ \E w \in Workers : k \in job[w].gone

\* A successful backup inside the retention period can be restored, unless
\* the sweep's script deleted it: a run that is delivered again, or the
\* retention of another run, never takes its dump away.
BackupKept ==
    \A k \in Backups \ expired : task[k] = "success" => k \in objects \cup swept

\* For what nobody changed while the sweep ran, its findings are exact: they
\* name every key without object and every object without row that no
\* storage error hid, and nothing else.  Avatars are in no table it reads,
\* and a Zarr store is never missing: only what is there of it is looked up.
SweepExact ==
    sweep.step = "report" =>
        \A k \in Keys \ (touched \cup Avatars) :
            /\ k \in sweep.missing => k \in Checked(named) \ objects
            /\ k \in Checked(named) \ objects => k \in sweep.missing \cup sweep.skipped
            /\ k \in sweep.orphans => k \in objects \ named
            /\ k \in objects \ named => k \in sweep.orphans \cup sweep.skipped
=============================================================================
