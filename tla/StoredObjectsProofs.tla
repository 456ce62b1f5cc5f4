------------------------ MODULE StoredObjectsProofs ------------------------
(***************************************************************************)
(* Proofs about StoredObjects, for any number of keys, workers and sweeps. *)
(***************************************************************************)
EXTENDS StoredObjects, TLAPS

-----------------------------------------------------------------------------
(* Types.  A worker that stores, generates or dumps has a key of its kind. *)

Uploaded == Raws \cup Artifacts \cup Documents \cup Media \cup Avatars

GoodJob(j) ==
    /\ j \in Job
    /\ j.op = "stored" => j.key \in Uploaded
    /\ j.op = "remove" => /\ j.key \in Raws \cup Media
                          /\ j.todo \cup j.gone \subseteq {j.key} \cup ArtifactsOf(j.key)
    /\ j.op \in {"generate", "generated"} => j.key \in Reports
    /\ j.op \in {"dump", "dumped", "retention", "expire"} => j.key \in Backups
    /\ j.op = "expire" => j.todo \cup j.gone \subseteq expired
    /\ j.op \notin {"remove", "expire"} => j.todo = {} /\ j.gone = {}

JobsOK == \A w \in Workers : GoodJob(job[w])

TypeInv == StoredTypeOK /\ JobsOK

\* What a step may change of the rows and objects while a sweep runs.
Covered ==
    /\ touched \subseteq touched'
    /\ \A k \in Keys \ touched' : (k \in objects <=> k \in objects') /\ (k \in named <=> k \in named')

LEMMA KindSets ==
    /\ Keys = Uploaded \cup Tasked
    /\ Uploaded \cap Tasked = {}
    /\ Reports \cap Backups = {}
    /\ (Raws \cup Artifacts \cup Media) \cap Tasked = {}
    /\ Artifacts \cap (Raws \cup Documents \cup Media \cup Avatars) = {}
    /\ \A k \in Artifacts : RawOf[k] \in Raws /\ k \in ArtifactsOf(RawOf[k])
    /\ \A k \in Keys : \A p \in ArtifactsOf(k) : p \in Artifacts /\ RawOf[p] = k
    /\ \A k \in Keys : ArtifactsOf(k) \subseteq Artifacts
    /\ Raws \subseteq Keys /\ Artifacts \subseteq Keys /\ Documents \subseteq Keys
    /\ Media \subseteq Keys /\ Avatars \subseteq Keys /\ Tasked \subseteq Keys
    /\ None \notin Keys
BY StoredAssumption
   DEF StoredAssumption, Kinds, KeysOf, Uploaded, Tasked, Raws, Artifacts, Documents, Media,
       Avatars, Reports, Backups, ArtifactsOf

LEMMA IdleGood == GoodJob(Idle) /\ Idle.op = "idle" /\ Idle.todo = {} /\ Idle.gone = {}
BY DEF GoodJob, Idle, Job

USE DEF storage, history

LEMMA InitTypes == Init => TypeInv
<1> SUFFICES ASSUME Init PROVE TypeInv
  OBVIOUS
<1>1. Idle \in Job /\ GoodJob(Idle)
  BY IdleGood DEF GoodJob
<1>2. JobsOK /\ job \in [Workers -> Job]
  BY <1>1 DEF Init, JobsOK
<1>3. sweep = NoSweep /\ task \in [Tasked -> TaskStatus]
  BY DEF Init, TaskStatus
<1>4. QED
  BY <1>2, <1>3 DEF Init, TypeInv, StoredTypeOK, NoSweep

\* A worker's step: no key of another worker's job changes its kind.
LEMMA JobStep ==
    ASSUME TypeInv, NEW w \in Workers, NEW j, job' = [job EXCEPT ![w] = j],
           expired \subseteq expired', j \in Job, GoodJob(j)'
    PROVE  JobsOK' /\ job' \in [Workers -> Job]
BY DEF TypeInv, JobsOK, GoodJob, StoredTypeOK

LEMMA NameTypes ==
    ASSUME TypeInv, NEW w \in Workers, NEW S \in SUBSET Keys, Name(w, S)
    PROVE  TypeInv' /\ (sweep.step # "idle" => Covered)
<1>1. JobsOK' /\ job' \in [Workers -> Job]
  BY IdleGood, JobStep DEF Name, SetJob, GoodJob
<1>2. QED
  BY <1>1 DEF Name, Touch, TypeInv, StoredTypeOK, Covered

LEMMA PutTypes ==
    ASSUME TypeInv, NEW w \in Workers, NEW k \in Uploaded, Put(w, k)
    PROVE  TypeInv' /\ (sweep.step # "idle" => Covered)
<1>1. JobsOK' /\ job' \in [Workers -> Job]
  <2>1. PICK j : j = [Idle EXCEPT !.op = "stored", !.key = k]
    OBVIOUS
  <2>2. job' = [job EXCEPT ![w] = j] /\ expired' = expired
    BY <2>1 DEF Put, SetJob
  <2>3. j \in Job /\ GoodJob(j)'
    BY <2>1, KindSets DEF Idle, Job, GoodJob
  <2>4. QED
    BY <2>2, <2>3, JobStep
<1>2. QED
  BY <1>1, KindSets DEF Put, Store, Touch, TypeInv, StoredTypeOK, Covered

LEMMA UploadTypes ==
    ASSUME TypeInv, NEW w \in Workers, UploadStep(w)
    PROVE  TypeInv' /\ (sweep.step # "idle" => Covered)
BY PutTypes
   DEF UploadStep, UploadFile, ImportFile, UploadDocument, UploadMedia, UploadAvatar,
       PutNew, PutProcessed, Uploaded

LEMMA CommitTypes ==
    ASSUME TypeInv, NEW w \in Workers, CommitStep(w)
    PROVE  TypeInv' /\ (sweep.step # "idle" => Covered)
<1>1. CASE CommitRow(w)
  BY <1>1, NameTypes, KindSets DEF CommitRow, TypeInv, StoredTypeOK
<1>2. CASE CommitMetadata(w)
  BY <1>2, NameTypes, KindSets DEF CommitMetadata, TypeInv, StoredTypeOK
<1>3. CASE CommitAvatar(w)
  BY <1>3, NameTypes, KindSets DEF CommitAvatar, TypeInv, StoredTypeOK
<1>4. CASE ForgetAvatar(w)
  BY <1>4, NameTypes DEF ForgetAvatar, TypeInv, StoredTypeOK
<1>5. CASE DocumentFails(w)
  <2>1. JobsOK' /\ job' \in [Workers -> Job]
    BY <1>5, IdleGood, JobStep DEF DocumentFails, SetJob, GoodJob
  <2>2. QED
    BY <1>5, <2>1, KindSets DEF DocumentFails, Touch, TypeInv, StoredTypeOK, Covered
<1>6. QED
  BY <1>1, <1>2, <1>3, <1>4, <1>5 DEF CommitStep

\* The job of an ingestion that has given up its artifact.
LEMMA WithdrawnJob ==
    ASSUME NEW w \in Workers, KeepArtifact(w) \/ WithdrawArtifact(w)
    PROVE  \E p \in Artifacts, gone \in SUBSET Artifacts :
              /\ gone \in {{}, {p}}
              /\ job[w].op = "stored" /\ job[w].key = p
              /\ job' = [job EXCEPT ![w] = [op |-> "remove", key |-> RawOf[p], todo |-> {}, gone |-> gone]]
              /\ objects \ gone \subseteq objects'
<1>1. CASE KeepArtifact(w)
  BY <1>1 DEF KeepArtifact, SetJob, Withdrawn
<1>2. CASE WithdrawArtifact(w)
  <2>1. PICK p \in Artifacts :
           /\ job[w].op = "stored" /\ p = job[w].key /\ objects' = objects \ {p}
           /\ job' = [job EXCEPT ![w] = [op |-> "remove", key |-> RawOf[p], todo |-> {}, gone |-> {p}]]
    BY <1>2 DEF WithdrawArtifact, SetJob, Withdrawn
  <2>2. {p} \in SUBSET Artifacts
    BY <2>1
  <2>3. QED
    BY <2>1, <2>2
<1>3. QED
  BY <1>1, <1>2

LEMMA RemoveTypes ==
    ASSUME TypeInv, NEW w \in Workers, RemoveStep(w)
    PROVE  TypeInv' /\ (sweep.step # "idle" => Covered)
<1>1. ASSUME NEW k \in Raws \cup Media, NEW S \in SUBSET Keys, S \subseteq {k} \cup ArtifactsOf(k),
             Remove(w, k, S)
      PROVE  TypeInv' /\ (sweep.step # "idle" => Covered)
  <2>1. JobsOK' /\ job' \in [Workers -> Job]
    <3>1. PICK j : j = [Idle EXCEPT !.op = "remove", !.key = k, !.todo = S]
      OBVIOUS
    <3>2. job' = [job EXCEPT ![w] = j] /\ expired' = expired
      BY <1>1, <3>1 DEF Remove, SetJob
    <3>3. j \in Job /\ GoodJob(j)'
      BY <1>1, <3>1, KindSets DEF Idle, Job, GoodJob
    <3>4. QED
      BY <3>2, <3>3, JobStep
  <2>2. QED
    BY <1>1, <2>1 DEF Remove, TypeInv, StoredTypeOK, Covered
<1>2. ASSUME NEW k \in Raws, RemoveFile(w, k) \/ CleanupUpload(w, k) \/ AbandonIngestion(w, k)
      PROVE  TypeInv' /\ (sweep.step # "idle" => Covered)
  BY <1>1, <1>2, KindSets DEF RemoveFile, CleanupUpload, AbandonIngestion, TypeInv, StoredTypeOK
<1>3. ASSUME NEW k \in Media, RemoveMedia(w, k)
      PROVE  TypeInv' /\ (sweep.step # "idle" => Covered)
  BY <1>1, <1>3, KindSets DEF RemoveMedia
<1>4. ASSUME NEW k \in job[w].todo, DeleteObject(w, k) \/ RetentionKeeps(w, k)
      PROVE  TypeInv' /\ (sweep.step # "idle" => Covered)
  <2>1. JobsOK' /\ job' \in [Workers -> Job] /\ k \in Keys
    <3>1. PICK j : j = [job[w] EXCEPT !.todo = @ \ {k}, !.gone = @ \cup {k}]
      OBVIOUS
    <3>2. job[w] \in Job /\ GoodJob(job[w])
      BY DEF TypeInv, JobsOK, GoodJob
    <3>3. job' = [job EXCEPT ![w] = j] /\ expired' = expired
      BY <1>4, <3>1 DEF DeleteObject, RetentionKeeps, SetJob
    <3>4. j \in Job /\ k \in Keys
      BY <1>4, <3>1, <3>2 DEF Job
    <3>5. GoodJob(j)'
      BY <1>4, <3>1, <3>2, <3>3, <3>4 DEF Job, GoodJob
    <3>6. QED
      BY <3>3, <3>4, <3>5, JobStep
  <2>2. QED
    BY <1>4, <2>1 DEF DeleteObject, RetentionKeeps, Touch, TypeInv, StoredTypeOK, Covered
<1>5. CASE RemoveCommit(w)
  BY <1>5, NameTypes DEF RemoveCommit, TypeInv, StoredTypeOK
<1>6. CASE KeepArtifact(w) \/ WithdrawArtifact(w)
  <2>1. PICK p \in Artifacts, gone \in SUBSET Artifacts :
           /\ gone \in {{}, {p}}
           /\ job[w].op = "stored" /\ job[w].key = p
           /\ job' = [job EXCEPT ![w] = [op |-> "remove", key |-> RawOf[p], todo |-> {}, gone |-> gone]]
    BY <1>6, WithdrawnJob
  <2>2. PICK j : j = [op |-> "remove", key |-> RawOf[p], todo |-> {}, gone |-> gone]
    OBVIOUS
  <2>3. j \in Job /\ GoodJob(j)'
    <3>1. p \in Keys /\ RawOf[p] \in Raws /\ RawOf[p] \in Keys /\ p \in ArtifactsOf(RawOf[p])
      BY KindSets
    <3>2. j.op = "remove" /\ j.key = RawOf[p] /\ j.todo = {} /\ j.gone = gone /\ gone \subseteq {p}
      BY <2>1, <2>2
    <3>3. j \in Job
      BY <2>2, <3>1, <3>2 DEF Job
    <3>4. QED
      BY <3>1, <3>2, <3>3 DEF GoodJob
  <2>4. expired' = expired
    BY <1>6 DEF KeepArtifact, WithdrawArtifact
  <2>5. JobsOK' /\ job' \in [Workers -> Job]
    BY <2>1, <2>2, <2>3, <2>4, JobStep
  <2>6. QED
    BY <1>6, <2>1, <2>5, KindSets
       DEF KeepArtifact, WithdrawArtifact, Touch, TypeInv, StoredTypeOK, Covered
<1>7. QED
  BY <1>2, <1>3, <1>4, <1>5, <1>6 DEF RemoveStep

LEMMA StartTypes ==
    ASSUME TypeInv, NEW w \in Workers, TaskStart(w)
    PROVE  TypeInv' /\ (sweep.step # "idle" => Covered)
<1>1. ASSUME NEW k \in Tasked, CreateTask(w, k)
      PROVE  TypeInv' /\ (sweep.step # "idle" => Covered)
  BY <1>1, KindSets DEF CreateTask, TaskStatus, TypeInv, StoredTypeOK, JobsOK, GoodJob, Covered
<1>2. ASSUME NEW k \in Reports, GenerateReport(w, k)
      PROVE  TypeInv' /\ (sweep.step # "idle" => Covered)
  <2>1. JobsOK' /\ job' \in [Workers -> Job]
    <3>1. PICK j : j = [Idle EXCEPT !.op = "generate", !.key = k]
      OBVIOUS
    <3>2. job' = [job EXCEPT ![w] = j] /\ expired' = expired
      BY <1>2, <3>1 DEF GenerateReport, SetJob
    <3>3. j \in Job /\ GoodJob(j)'
      BY <3>1, KindSets DEF Idle, Job, GoodJob, Tasked
    <3>4. QED
      BY <3>2, <3>3, JobStep
  <2>2. QED
    BY <1>2, <2>1 DEF GenerateReport, TypeInv, StoredTypeOK, Covered
<1>3. ASSUME NEW k \in Backups, ScheduledBackup(w, k) \/ StartBackup(w, k)
      PROVE  TypeInv' /\ (sweep.step # "idle" => Covered)
  <2>1. JobsOK' /\ job' \in [Workers -> Job]
    <3>1. PICK j : j = [op |-> "dump", key |-> k, todo |-> {}, gone |-> {}]
      OBVIOUS
    <3>2. (job' = [job EXCEPT ![w] = j] \/ job' = job) /\ expired' = expired
      BY <1>3, <3>1 DEF ScheduledBackup, StartBackup, SetJob, Idle
    <3>3. j \in Job /\ GoodJob(j)'
      BY <3>1, KindSets DEF Job, GoodJob, Tasked
    <3>4. CASE job' = job
      BY <3>2, <3>4 DEF TypeInv, StoredTypeOK, JobsOK, GoodJob
    <3>5. QED
      BY <3>2, <3>3, <3>4, JobStep
  <2>2. QED
    BY <1>3, <2>1, KindSets
       DEF ScheduledBackup, StartBackup, TaskStatus, Tasked, TypeInv, StoredTypeOK, Covered
<1>4. QED
  BY <1>1, <1>2, <1>3 DEF TaskStart, CreateReport, CreateBackup, Tasked

LEMMA TaskTypes ==
    ASSUME TypeInv, NEW w \in Workers, TaskStep(w) \/ Lost(w)
    PROVE  TypeInv' /\ (sweep.step # "idle" => Covered)
<1>. job[w] \in Job /\ GoodJob(job[w])
  BY DEF TypeInv, JobsOK, GoodJob
<1>1. CASE PutReport(w) \/ PutDump(w)
  <2>1. JobsOK' /\ job' \in [Workers -> Job] /\ job[w].key \in Keys
    <3>1. PICK to \in {"generated", "dumped"} :
            /\ job[w].op = IF to = "generated" THEN "generate" ELSE "dump"
            /\ job' = [job EXCEPT ![w] = [job[w] EXCEPT !.op = to]]
            /\ expired' = expired
      BY <1>1 DEF PutReport, PutDump, PutOutput, SetJob
    <3>2. PICK j : j = [job[w] EXCEPT !.op = to]
      OBVIOUS
    <3>3. j \in Job
      BY <3>2 DEF Job, GoodJob
    <3>4. GoodJob(j)'
      BY <3>1, <3>2, <3>3 DEF Job, GoodJob
    <3>5. job[w].key \in Keys
      BY <3>1, KindSets DEF GoodJob, Tasked
    <3>6. QED
      BY <3>1, <3>2, <3>3, <3>4, <3>5, JobStep
  <2>2. QED
    BY <1>1, <2>1 DEF PutReport, PutDump, PutOutput, Store, Touch, TypeInv, StoredTypeOK, Covered
<1>2. CASE ReportCommit(w)
  <2>1. JobsOK' /\ job' \in [Workers -> Job]
    BY <1>2, IdleGood, JobStep DEF ReportCommit, SetJob, GoodJob
  <2>2. QED
    BY <1>2, <2>1, KindSets
       DEF ReportCommit, Acknowledge, Touch, TaskStatus, Tasked, GoodJob, TypeInv, StoredTypeOK,
           Covered
<1>3. CASE BackupFails(w)
  <2>1. JobsOK' /\ job' \in [Workers -> Job]
    BY <1>3, IdleGood, JobStep DEF BackupFails, SetJob, GoodJob
  <2>2. QED
    BY <1>3, <2>1, KindSets
       DEF BackupFails, Acknowledge, TaskStatus, Tasked, GoodJob, TypeInv, StoredTypeOK, Covered
<1>4. CASE BackupCommit(w)
  <2>1. JobsOK' /\ job' \in [Workers -> Job]
    BY <1>4, KindSets DEF BackupCommit, SetJob, GoodJob, Job, TypeInv, StoredTypeOK, JobsOK
  <2>2. job[w].key \in Backups /\ job[w].key \in Tasked /\ job[w].key \in Keys
    BY <1>4, KindSets DEF BackupCommit, GoodJob, Tasked
  <2>3. task' \in [Tasked -> TaskStatus] /\ named' \subseteq Keys
    BY <1>4, <2>2 DEF BackupCommit, TaskStatus, TypeInv, StoredTypeOK
  <2>4. QED
    BY <1>4, <2>1, <2>2, <2>3 DEF BackupCommit, Touch, TypeInv, StoredTypeOK, Covered
<1>5. CASE RetentionLoad(w)
  <2>1. JobsOK' /\ job' \in [Workers -> Job]
    <3>1. PICK rows : rows = {k \in expired' : HasRow(k)}
      OBVIOUS
    <3>2. PICK j : j = [job[w] EXCEPT !.op = "expire", !.todo = rows \cap named,
                                      !.gone = rows \ named]
      OBVIOUS
    <3>3. job' = [job EXCEPT ![w] = j] /\ expired \subseteq expired' /\ expired' \subseteq Backups
      BY <1>5, <3>1, <3>2 DEF RetentionLoad, SetJob, TypeInv, StoredTypeOK
    <3>4. rows \subseteq expired' /\ rows \subseteq Keys
      BY <3>1, <3>3, KindSets DEF Tasked
    <3>5. j \in Job
      BY <3>2, <3>4 DEF Job
    <3>6. GoodJob(j)'
      BY <1>5, <3>2, <3>4, <3>5 DEF RetentionLoad, GoodJob, Job
    <3>7. QED
      BY <3>3, <3>5, <3>6, JobStep
  <2>2. QED
    BY <1>5, <2>1 DEF RetentionLoad, TypeInv, StoredTypeOK, Covered
<1>6. CASE RetentionCommit(w)
  <2>1. JobsOK' /\ job' \in [Workers -> Job]
    BY <1>6, IdleGood, JobStep DEF RetentionCommit, SetJob, GoodJob
  <2>2. job[w].gone \subseteq Keys
    BY DEF Job
  <2>3. task' \in [Tasked -> TaskStatus]
    BY <1>6 DEF RetentionCommit, TaskStatus, TypeInv, StoredTypeOK
  <2>4. QED
    BY <1>6, <2>1, <2>2, <2>3
       DEF RetentionCommit, Acknowledge, Touch, TypeInv, StoredTypeOK, Covered
<1>7. CASE Lost(w)
  <2>1. JobsOK' /\ job' \in [Workers -> Job]
    BY <1>7, IdleGood, JobStep DEF Lost, SetJob, GoodJob
  <2>2. job[w].gone \subseteq Keys
    BY DEF Job
  <2>3. QED
    BY <1>7, <2>1, <2>2 DEF Lost, TypeInv, StoredTypeOK, Covered
<1>8. QED
  BY <1>1, <1>2, <1>3, <1>4, <1>5, <1>6, <1>7 DEF TaskStep

Sweeps ==
    [step : {"idle", "collect", "exists", "list", "report"}, runs : Nat, pos : Nat,
     known : SUBSET Keys, todo : SUBSET Keys, missing : SUBSET Keys,
     orphans : SUBSET Keys, skipped : SUBSET Keys]

LEMMA SetSweepTypes ==
    ASSUME TypeInv, UNCHANGED <<storage, task, expired, messages, job>>, sweep' \in Sweeps,
           touched' \subseteq Keys, abandoned' \subseteq Keys, swept' \subseteq Keys
    PROVE  TypeInv'
BY DEF TypeInv, StoredTypeOK, JobsOK, GoodJob, Sweeps

LEMMA SweepTypes ==
    ASSUME TypeInv, SweepStep
    PROVE  TypeInv'
<1>. sweep \in Sweeps /\ objects \subseteq Keys /\ named \subseteq Keys
  BY DEF TypeInv, StoredTypeOK, Sweeps
<1>. touched \subseteq Keys /\ abandoned \subseteq Keys /\ swept \subseteq Keys
  BY DEF TypeInv, StoredTypeOK
<1>1. PICK runs \in Nat, pos \in Nat : runs = sweep.runs + 1 /\ pos = sweep.pos + 1
  BY DEF Sweeps
<1>2. CASE SweepStart
  <2>1. sweep' \in Sweeps
    BY <1>1, <1>2 DEF SweepStart, Sweeps
  <2>2. QED
    BY <1>2, <2>1, SetSweepTypes DEF SweepStart
<1>3. CASE CollectKnownKeys
  <2>1. PICK known : known = sweep.known \cup (named \cap SweptTables[sweep.pos])
    OBVIOUS
  <2>2. known \subseteq Keys
    BY <2>1 DEF Sweeps
  <2>3. \/ sweep' = [sweep EXCEPT !.known = known, !.pos = pos]
        \/ sweep' = [sweep EXCEPT !.step = Checking(Checked(known)), !.known = known,
                                  !.todo = Checked(known), !.pos = 1]
    <3>1. \/ sweep' = [sweep EXCEPT !.known = known, !.pos = @ + 1]
          \/ sweep' = [sweep EXCEPT !.step = Checking(Checked(known)), !.known = known,
                                    !.todo = Checked(known), !.pos = 1]
      BY <1>3, <2>1, Zenon DEF CollectKnownKeys, SetSweep
    <3>2. [sweep EXCEPT !.known = known, !.pos = @ + 1] = [sweep EXCEPT !.known = known, !.pos = pos]
      BY <1>1, Zenon
    <3>3. QED
      BY <3>1, <3>2
  <2>4. sweep' \in Sweeps
    <3>1. CASE sweep' = [sweep EXCEPT !.known = known, !.pos = pos]
      BY <2>2, <3>1 DEF Sweeps
    <3>2. CASE sweep' = [sweep EXCEPT !.step = Checking(Checked(known)), !.known = known,
                                      !.todo = Checked(known), !.pos = 1]
      <4>1. PICK step \in {"list", "exists"}, todo \in SUBSET Keys :
               step = Checking(Checked(known)) /\ todo = Checked(known)
        BY <2>2 DEF Checking, Checked
      <4>2. QED
        BY <2>2, <3>2, <4>1 DEF Sweeps
    <3>3. QED
      BY <2>3, <3>1, <3>2
  <2>5. QED
    BY <1>3, <2>4, SetSweepTypes DEF CollectKnownKeys, SetSweep
<1>4. ASSUME NEW k \in sweep.todo, CheckKey(k)
      PROVE  TypeInv'
  <2>1. PICK todo : todo = sweep.todo \ {k}
    OBVIOUS
  <2>2. todo \subseteq Keys /\ k \in Keys
    BY <2>1 DEF Sweeps
  <2>3. \E missing, skipped \in SUBSET Keys :
           sweep' = [sweep EXCEPT !.step = Checking(todo), !.todo = todo, !.missing = missing,
                                  !.skipped = skipped]
    <3>1. CASE sweep' = [sweep EXCEPT !.step = Checking(todo), !.todo = todo,
                             !.missing = IF k \in objects THEN @ ELSE @ \cup {k}]
      <4>1. PICK missing \in SUBSET Keys :
               missing = IF k \in objects THEN sweep.missing ELSE sweep.missing \cup {k}
        BY <2>2 DEF Sweeps
      <4>2. sweep' = [sweep EXCEPT !.step = Checking(todo), !.todo = todo, !.missing = missing,
                                   !.skipped = sweep.skipped]
        BY <3>1, <4>1 DEF Sweeps
      <4>3. QED
        BY <4>2 DEF Sweeps
    <3>2. CASE sweep' = [sweep EXCEPT !.step = Checking(todo), !.todo = todo, !.skipped = {k}]
      <4>1. sweep' = [sweep EXCEPT !.step = Checking(todo), !.todo = todo,
                                   !.missing = sweep.missing, !.skipped = {k}]
        BY <3>2 DEF Sweeps
      <4>2. QED
        BY <2>2, <4>1 DEF Sweeps
    <3>3. QED
      BY <1>4, <2>1, <3>1, <3>2 DEF CheckKey, SetSweep
  <2>4. sweep' \in Sweeps
    BY <2>2, <2>3 DEF Checking, Sweeps
  <2>5. QED
    BY <1>4, <2>4, SetSweepTypes DEF CheckKey, SetSweep
<1>5. CASE ListPrefix
  <2>1. PICK unknown : unknown = (objects \cap Prefixes[sweep.pos]) \ sweep.known
    OBVIOUS
  <2>2. unknown \subseteq Keys
    BY <2>1
  <2>3. PICK listing :
           listing = IF sweep.pos < Len(Prefixes)
                     THEN [sweep EXCEPT !.pos = pos]
                     ELSE [sweep EXCEPT !.step = "report", !.pos = 1, !.known = {}]
    OBVIOUS
  <2>4. listing \in Sweeps
    BY <2>3 DEF Sweeps
  <2>5. \/ sweep' = [listing EXCEPT !.orphans = @ \cup unknown]
        \/ \E rest \in SUBSET unknown :
              sweep' = [listing EXCEPT !.orphans = @ \cup (unknown \ rest), !.skipped = rest]
    <3>1. listing = IF sweep.pos < Len(Prefixes)
                    THEN [sweep EXCEPT !.pos = @ + 1]
                    ELSE [sweep EXCEPT !.step = "report", !.pos = 1, !.known = {}]
      BY <1>1, <2>3
    <3>2. QED
      BY <1>5, <2>1, <3>1, Zenon DEF ListPrefix, SetSweep
  <2>6. sweep' \in Sweeps
    <3>1. listing.orphans \cup unknown \in SUBSET Keys
      BY <2>2, <2>4 DEF Sweeps
    <3>2. CASE sweep' = [listing EXCEPT !.orphans = @ \cup unknown]
      BY <2>4, <3>1, <3>2 DEF Sweeps
    <3>3. ASSUME NEW rest \in SUBSET unknown,
                 sweep' = [listing EXCEPT !.orphans = @ \cup (unknown \ rest), !.skipped = rest]
          PROVE  sweep' \in Sweeps
      <4>1. PICK orphans \in SUBSET Keys : orphans = listing.orphans \cup (unknown \ rest)
        BY <3>1
      <4>2. sweep' = [listing EXCEPT !.orphans = orphans, !.skipped = rest]
        BY <3>3, <4>1
      <4>3. QED
        BY <2>2, <2>4, <4>2 DEF Sweeps
    <3>4. QED
      BY <2>5, <3>2, <3>3
  <2>7. QED
    BY <1>5, <2>6, SetSweepTypes DEF ListPrefix, SetSweep
<1>6. CASE SweepEnd
  <2>1. sweep' \in Sweeps
    BY <1>6 DEF SweepEnd, NoSweep, Sweeps
  <2>2. QED
    BY <1>6, <2>1, SetSweepTypes DEF SweepEnd
<1>7. ASSUME NEW k \in sweep.orphans, DeleteOrphan(k)
      PROVE  TypeInv'
  <2>1. k \in Keys
    BY DEF Sweeps
  <2>2. QED
    BY <1>7, <2>1 DEF DeleteOrphan, Touch, TypeInv, StoredTypeOK, JobsOK, GoodJob
<1>8. QED
  BY <1>2, <1>3, <1>4, <1>5, <1>6, <1>7 DEF SweepStep

WorkerStep(w) ==
    UploadStep(w) \/ CommitStep(w) \/ RemoveStep(w) \/ TaskStart(w) \/ TaskStep(w) \/ Lost(w)

LEMMA NextTypes == TypeInv /\ [Next]_vars => TypeInv'
<1> SUFFICES ASSUME TypeInv, [Next]_vars PROVE TypeInv'
  OBVIOUS
<1>1. ASSUME NEW w \in Workers, WorkerStep(w)
      PROVE  TypeInv'
  BY <1>1, UploadTypes, CommitTypes, RemoveTypes, StartTypes, TaskTypes DEF WorkerStep
<1>2. CASE SweepStep
  BY <1>2, SweepTypes
<1>3. CASE UNCHANGED vars
  BY <1>3 DEF vars, TypeInv, StoredTypeOK, JobsOK, GoodJob
<1>4. QED
  BY <1>1, <1>2, <1>3 DEF Next, WorkerStep

\* Every reachable state has the types above.
THEOREM Types == Spec => []TypeInv
<1>1. TypeInv /\ [Next]_vars => TypeInv'
  BY NextTypes
<1>2. QED
  BY InitTypes, <1>1, PTL DEF Spec

\* The state keeps its types: a worker's job names a key of the kind it
\* handles, whatever overlaps.
THEOREM StoredTypesHold == Spec => []StoredTypeOK
<1>1. TypeInv => StoredTypeOK
  BY DEF TypeInv
<1>2. QED
  BY Types, <1>1, PTL

-----------------------------------------------------------------------------
(* Backups.  The dump of a backup that has not expired is only lost to the *)
(* sweep's script, from the moment it is stored.                           *)

DumpKept(w) == job[w].op = "dumped" => job[w].key \in objects \cup swept \cup expired

BackupInv == BackupKept /\ \A w \in Workers : DumpKept(w)

\* What a step may take from the storage, or from what the script deleted.
Kept(S) == (objects \cup swept) \ (objects' \cup swept') \subseteq S

LEMMA Losses ==
    ASSUME TypeInv, Next
    PROVE  expired \subseteq expired' /\ Kept(expired \cup Uploaded)
<1>1. ASSUME NEW w \in Workers, UploadStep(w)
      PROVE  Kept({}) /\ UNCHANGED expired
  BY <1>1 DEF UploadStep, UploadFile, ImportFile, UploadDocument, UploadMedia, UploadAvatar,
              PutNew, PutProcessed, Put, Store, Kept
<1>2. ASSUME NEW w \in Workers, CommitStep(w)
      PROVE  Kept(Uploaded) /\ UNCHANGED expired
  BY <1>2 DEF CommitStep, CommitRow, CommitMetadata, CommitAvatar, ForgetAvatar, DocumentFails,
              Name, Uploaded, Kept
<1>3. ASSUME NEW w \in Workers, RemoveStep(w)
      PROVE  Kept(Uploaded \cup expired) /\ UNCHANGED expired
  <2>1. CASE \E k \in job[w].todo : DeleteObject(w, k)
    <3>1. PICK k \in job[w].todo : DeleteObject(w, k)
      BY <2>1
    <3>2. k \in Uploaded \cup expired
      BY <3>1, KindSets DEF DeleteObject, TypeInv, JobsOK, GoodJob, Uploaded
    <3>3. QED
      BY <3>1, <3>2 DEF DeleteObject, Kept
  <2>2. CASE WithdrawArtifact(w)
    BY <2>2 DEF WithdrawArtifact, Uploaded, Kept
  <2>3. CASE ~ WithdrawArtifact(w) /\ ~ \E k \in job[w].todo : DeleteObject(w, k)
    BY <1>3, <2>3 DEF RemoveStep, RemoveFile, CleanupUpload, AbandonIngestion, KeepArtifact,
                      RemoveMedia, Remove, RetentionKeeps, RemoveCommit, Name, Kept
  <2>4. QED
    BY <2>1, <2>2, <2>3
<1>4. ASSUME NEW w \in Workers, TaskStart(w)
      PROVE  Kept({}) /\ UNCHANGED expired
  BY <1>4 DEF TaskStart, CreateReport, CreateBackup, CreateTask, GenerateReport, ScheduledBackup,
              StartBackup, Kept
<1>5. ASSUME NEW w \in Workers, TaskStep(w) \/ Lost(w)
      PROVE  Kept({}) /\ expired \subseteq expired'
  BY <1>5 DEF TaskStep, PutReport, PutDump, PutOutput, Store, ReportCommit, BackupFails,
              BackupCommit, RetentionLoad, RetentionCommit, Lost, Kept
<1>6. ASSUME SweepStep
      PROVE  Kept({}) /\ UNCHANGED expired
  BY <1>6 DEF SweepStep, SweepStart, CollectKnownKeys, CheckKey, ListPrefix, DeleteOrphan,
              SweepEnd, SetSweep, Kept
<1>7. QED
  BY <1>1, <1>2, <1>3, <1>4, <1>5, <1>6 DEF Next, Kept


\* A step of a worker is of no other worker's job.
LEMMA OwnJob ==
    ASSUME TypeInv, NEW w \in Workers, WorkerStep(w)
    PROVE  \A v \in Workers \ {w} : job'[v] = job[v]
<1>. job \in [Workers -> Job]
  BY DEF TypeInv, StoredTypeOK
<1>1. ASSUME NEW j, SetJob(w, j)
      PROVE  \A v \in Workers \ {w} : job'[v] = job[v]
  BY <1>1 DEF SetJob
<1>2. CASE UploadStep(w)
  BY <1>1, <1>2
     DEF UploadStep, UploadFile, ImportFile, UploadDocument, UploadMedia, UploadAvatar,
         PutNew, PutProcessed, Put
<1>3. CASE CommitStep(w)
  BY <1>1, <1>3
     DEF CommitStep, CommitRow, CommitMetadata, CommitAvatar, ForgetAvatar, DocumentFails, Name
<1>4. CASE RemoveStep(w)
  BY <1>1, <1>4
     DEF RemoveStep, RemoveFile, CleanupUpload, AbandonIngestion, KeepArtifact,
         WithdrawArtifact, RemoveMedia, Remove, DeleteObject, RetentionKeeps, RemoveCommit, Name
<1>5. CASE TaskStart(w)
  BY <1>1, <1>5
     DEF TaskStart, CreateReport, CreateBackup, CreateTask, GenerateReport, ScheduledBackup,
         StartBackup
<1>6. CASE TaskStep(w) \/ Lost(w)
  BY <1>1, <1>6
     DEF TaskStep, PutReport, PutDump, PutOutput, ReportCommit, BackupFails, BackupCommit,
         RetentionLoad, RetentionCommit, Lost
<1>7. QED
  BY <1>2, <1>3, <1>4, <1>5, <1>6 DEF WorkerStep

\* What a worker is at after its step.
Plain == {"idle", "stored", "remove", "generate", "generated", "retention"}

Deletes(w) == \E k \in job[w].todo : DeleteObject(w, k) \/ RetentionKeeps(w, k)

StartsDump(w) ==
    /\ job'[w].op = "dump" /\ job'[w].key \in Backups
    /\ task'[job'[w].key] = "running"
    /\ job'[w].todo = {} /\ job'[w].gone = {}

LEMMA JobSteps ==
    ASSUME TypeInv, NEW w \in Workers, WorkerStep(w)
    PROVE  \/ job'[w].op \in Plain
           \/ Deletes(w)
           \/ StartsDump(w)
           \/ PutDump(w)
           \/ RetentionLoad(w)
<1>. job \in [Workers -> Job] /\ job[w] \in Job /\ task \in [Tasked -> TaskStatus]
  BY DEF TypeInv, StoredTypeOK
<1>1. ASSUME NEW j, SetJob(w, j)
      PROVE  job'[w] = j
  BY <1>1 DEF SetJob
<1>2. ASSUME NEW k, Put(w, k)
      PROVE  job'[w].op \in Plain
  <2>1. job'[w] = [Idle EXCEPT !.op = "stored", !.key = k]
    BY <1>1, <1>2 DEF Put
  <2>2. QED
    BY <2>1 DEF Idle, Plain
<1>3. CASE UploadStep(w)
  BY <1>2, <1>3 DEF UploadStep, UploadFile, ImportFile, UploadDocument, UploadMedia, UploadAvatar,
                    PutNew, PutProcessed
<1>4. ASSUME job'[w] = Idle
      PROVE  job'[w].op \in Plain
  BY <1>4 DEF Idle, Plain
<1>5. CASE CommitStep(w) \/ RemoveCommit(w)
  BY <1>1, <1>4, <1>5
     DEF CommitStep, CommitRow, CommitMetadata, CommitAvatar, ForgetAvatar, DocumentFails, Name,
         RemoveCommit
<1>6. ASSUME NEW k, NEW S, Remove(w, k, S)
      PROVE  job'[w].op \in Plain
  <2>1. job'[w] = [Idle EXCEPT !.op = "remove", !.key = k, !.todo = S]
    BY <1>1, <1>6 DEF Remove
  <2>2. QED
    BY <2>1 DEF Idle, Plain
<1>7. CASE RemoveStep(w)
  <2>1. CASE KeepArtifact(w) \/ WithdrawArtifact(w)
    BY <2>1, WithdrawnJob DEF Plain
  <2>2. QED
    BY <1>5, <1>6, <1>7, <2>1
       DEF RemoveStep, RemoveFile, CleanupUpload, AbandonIngestion, RemoveMedia, Deletes
<1>8. ASSUME NEW k, GenerateReport(w, k) \/ CreateTask(w, k)
      PROVE  job'[w].op \in Plain
  <2>1. \/ job'[w] = [Idle EXCEPT !.op = "generate", !.key = k]
        \/ job'[w] = Idle
    BY <1>1, <1>8 DEF GenerateReport, CreateTask
  <2>2. CASE job'[w] = [Idle EXCEPT !.op = "generate", !.key = k]
    BY <2>2 DEF Idle, Plain
  <2>3. QED
    BY <1>4, <2>1, <2>2
<1>9. ASSUME NEW k \in Backups, ScheduledBackup(w, k) \/ StartBackup(w, k)
      PROVE  job'[w].op \in Plain \/ StartsDump(w)
  <2>1. CASE job' = job /\ job[w] = Idle
    BY <1>4, <2>1
  <2>2. CASE task' = [task EXCEPT ![k] = "running"] /\ SetJob(w, [Idle EXCEPT !.op = "dump", !.key = k])
    <3>1. job'[w] = [Idle EXCEPT !.op = "dump", !.key = k]
      BY <1>1, <2>2
    <3>2. QED
      BY <2>2, <3>1 DEF Idle, StartsDump, Tasked
  <2>3. QED
    BY <1>9, <2>1, <2>2 DEF ScheduledBackup, StartBackup
<1>10. CASE TaskStart(w)
  BY <1>8, <1>9, <1>10 DEF TaskStart, CreateReport, CreateBackup
<1>11. CASE ReportCommit(w) \/ BackupFails(w) \/ RetentionCommit(w) \/ Lost(w)
  BY <1>1, <1>4, <1>11 DEF ReportCommit, BackupFails, RetentionCommit, Lost
<1>12. CASE PutReport(w) \/ BackupCommit(w)
  <2>1. \/ job'[w] = [job[w] EXCEPT !.op = "generated"]
        \/ job'[w] = [job[w] EXCEPT !.op = "retention"]
    BY <1>1, <1>12 DEF PutReport, PutOutput, BackupCommit
  <2>2. QED
    BY <2>1 DEF Job, Plain
<1>13. QED
  BY <1>3, <1>5, <1>7, <1>10, <1>11, <1>12 DEF WorkerStep, TaskStep

\* What the steps that are not plain make of the job.
LEMMA DeletesJob ==
    ASSUME TypeInv, NEW w \in Workers, NEW k \in job[w].todo, DeleteObject(w, k) \/ RetentionKeeps(w, k)
    PROVE  /\ job[w].op \in {"remove", "expire"}
           /\ job'[w].op = job[w].op /\ job'[w].key = job[w].key
           /\ job'[w].todo = job[w].todo \ {k} /\ job'[w].gone = job[w].gone \cup {k}
<1>. job \in [Workers -> Job] /\ job[w] \in Job
  BY DEF TypeInv, StoredTypeOK
<1>1. job'[w] = [job[w] EXCEPT !.todo = @ \ {k}, !.gone = @ \cup {k}]
  BY DEF DeleteObject, RetentionKeeps, SetJob
<1>2. job[w].op \in {"remove", "expire"}
  BY DEF DeleteObject, RetentionKeeps
<1>3. QED
  BY <1>1, <1>2 DEF Job

LEMMA DumpJob ==
    ASSUME TypeInv, NEW w \in Workers, PutDump(w)
    PROVE  /\ job[w].op = "dump" /\ job'[w].op = "dumped" /\ job'[w].key = job[w].key
           /\ job'[w].key \in objects' /\ job'[w].todo = {} /\ job'[w].gone = {}
<1>. job \in [Workers -> Job] /\ job[w] \in Job /\ GoodJob(job[w])
  BY DEF TypeInv, StoredTypeOK, JobsOK
<1>1. job'[w] = [job[w] EXCEPT !.op = "dumped"] /\ job[w].op = "dump"
  BY DEF PutDump, PutOutput, SetJob
<1>2. QED
  BY <1>1 DEF PutDump, PutOutput, Store, Job, GoodJob

LEMMA LoadJob ==
    ASSUME TypeInv, NEW w \in Workers, RetentionLoad(w)
    PROVE  /\ job'[w].op = "expire" /\ job'[w].todo = (job'[w].todo \cup job'[w].gone) \cap named
           /\ \A k \in job'[w].todo \cup job'[w].gone : HasRow(k)
<1>. job \in [Workers -> Job] /\ job[w] \in Job
  BY DEF TypeInv, StoredTypeOK
<1>1. PICK rows : rows = {k \in expired' : HasRow(k)}
  OBVIOUS
<1>2. PICK j : j = [job[w] EXCEPT !.op = "expire", !.todo = rows \cap named, !.gone = rows \ named]
  OBVIOUS
<1>3. job' = [job EXCEPT ![w] = j]
  BY <1>1, <1>2 DEF RetentionLoad, SetJob
<1>4. j.op = "expire" /\ j.todo = rows \cap named /\ j.gone = rows \ named
  BY <1>2 DEF Job
<1>5. QED
  BY <1>1, <1>3, <1>4

\* Where a dump comes from.
LEMMA DumpSteps ==
    ASSUME TypeInv, NEW w \in Workers, WorkerStep(w), job'[w].op = "dumped"
    PROVE  PutDump(w)
BY JobSteps, DeletesJob, LoadJob DEF Plain, Deletes, StartsDump

\* Where a successful backup comes from.
LEMMA SuccessSteps ==
    ASSUME TypeInv, Next, NEW k \in Backups, task[k] # "success", task'[k] = "success"
    PROVE  \E w \in Workers : job[w].op = "dumped" /\ job[w].key = k
<1>. task \in [Tasked -> TaskStatus] /\ k \in Tasked /\ k \notin Reports
  BY KindSets DEF TypeInv, StoredTypeOK, Tasked
<1>1. ASSUME NEW w \in Workers, UploadStep(w) \/ CommitStep(w) \/ RemoveStep(w) \/ Lost(w)
      PROVE  task' = task
  BY <1>1 DEF UploadStep, UploadFile, ImportFile, UploadDocument, UploadMedia, UploadAvatar,
              PutNew, PutProcessed, Put, CommitStep, CommitRow, CommitMetadata, CommitAvatar,
              ForgetAvatar, DocumentFails, Name, RemoveStep, RemoveFile, CleanupUpload,
              AbandonIngestion, KeepArtifact, WithdrawArtifact, RemoveMedia, Remove, DeleteObject, RetentionKeeps, RemoveCommit, Lost
<1>2. CASE SweepStep
  BY <1>2 DEF SweepStep, SweepStart, CollectKnownKeys, CheckKey, ListPrefix, DeleteOrphan,
              SweepEnd, SetSweep
<1>3. ASSUME NEW w \in Workers, NEW r, CreateTask(w, r)
      PROVE  FALSE
  BY <1>3 DEF CreateTask
<1>4. ASSUME NEW w \in Workers, NEW r, GenerateReport(w, r) \/ ScheduledBackup(w, r) \/ StartBackup(w, r)
      PROVE  FALSE
  BY <1>4 DEF GenerateReport, ScheduledBackup, StartBackup
<1>5. ASSUME NEW w \in Workers, TaskStep(w)
      PROVE  job[w].op = "dumped" /\ job[w].key = k
  <2>1. CASE ReportCommit(w)
    BY <1>5, <2>1 DEF ReportCommit, TypeInv, JobsOK, GoodJob
  <2>2. CASE BackupFails(w) \/ RetentionCommit(w)
    BY <2>2 DEF BackupFails, RetentionCommit
  <2>3. CASE PutReport(w) \/ PutDump(w) \/ RetentionLoad(w)
    BY <2>3 DEF PutReport, PutDump, PutOutput, RetentionLoad
  <2>4. CASE BackupCommit(w)
    BY <2>4 DEF BackupCommit
  <2>5. QED
    BY <1>5, <2>1, <2>2, <2>3, <2>4 DEF TaskStep
<1>6. QED
  BY <1>1, <1>2, <1>3, <1>4, <1>5 DEF Next, TaskStart, CreateReport, CreateBackup

LEMMA NextBackup == TypeInv /\ BackupInv /\ [Next]_vars => BackupInv'
<1> SUFFICES ASSUME TypeInv, BackupInv, Next PROVE BackupInv'
  BY DEF vars, BackupInv, BackupKept, DumpKept
<1>1. BackupKept'
  <2> SUFFICES ASSUME NEW k \in Backups, k \notin expired', task'[k] = "success"
               PROVE  k \in objects' \cup swept'
    BY DEF BackupKept
  <2>1. k \in objects \cup swept \cup expired
    BY SuccessSteps DEF BackupInv, BackupKept, DumpKept
  <2>2. QED
    BY <2>1, Losses, KindSets DEF Kept, Tasked
<1>2. ASSUME NEW v \in Workers
      PROVE  DumpKept(v)'
  <2> SUFFICES ASSUME job'[v].op = "dumped" PROVE job'[v].key \in objects' \cup swept' \cup expired'
    BY DEF DumpKept
  <2>1. CASE job'[v] = job[v]
    BY <2>1, Losses, KindSets DEF Kept, BackupInv, DumpKept, TypeInv, JobsOK, GoodJob, Tasked
  <2>2. CASE WorkerStep(v)
    <3>1. PutDump(v)
      BY <2>2, DumpSteps
    <3>2. QED
      BY <3>1 DEF PutDump, PutOutput, Store, SetJob, TypeInv, StoredTypeOK, Job
  <2>3. CASE SweepStep
    BY <2>1, <2>3 DEF SweepStep, SweepStart, CollectKnownKeys, CheckKey, ListPrefix,
                      DeleteOrphan, SweepEnd, SetSweep
  <2>4. QED
    BY <2>1, <2>2, <2>3, OwnJob DEF Next, WorkerStep
<1>3. QED
  BY <1>1, <1>2 DEF BackupInv

\* A successful backup inside the retention period keeps its dump, unless
\* the sweep's script deleted it, whatever tasks are delivered again.
THEOREM BackupsKept == Spec => []BackupKept
<1>1. Init => BackupInv
  BY KindSets, IdleGood DEF Init, BackupInv, BackupKept, DumpKept, Tasked
<1>2. TypeInv /\ BackupInv /\ [Next]_vars => BackupInv'
  BY NextBackup
<1>3. BackupInv => BackupKept
  BY DEF BackupInv
<1>4. QED
  BY Types, <1>1, <1>2, <1>3, PTL DEF Spec

-----------------------------------------------------------------------------
(* Rows and objects.  A key is safe when its object is there, or was taken *)
(* away by a deletion that still has to commit, or by one that was lost.   *)

Safe(k) ==
    \/ k \in objects \cup swept \cup abandoned
    \/ k \in named /\ \E w \in Workers : k \in job[w].gone

\* An upload that is not committed is of nobody else ...
UploadOwned(w) ==
    job[w].op = "stored" /\ job[w].key \notin Artifacts =>
        /\ job[w].key \in objects \cup swept
        /\ job[w].key \notin named \cup fresh
        /\ \A v \in Workers \ {w} :
              /\ job[v].op = "stored" => job[v].key # job[w].key
              /\ job[w].key \notin job[v].todo \cup job[v].gone

\* ... but the key of an artifact is that of every delivery of its file: it
\* may be named, and another delivery may take the object away.  Then that
\* one has still to delete the file's row, or ended before, or has done it.
Placed(k) ==
    \/ k \in objects \cup swept \cup abandoned
    \/ \E w \in Workers : k \in job[w].gone

ArtifactOwned(w) ==
    LET k == job[w].key IN
    job[w].op = "stored" /\ k \in Artifacts =>
        /\ k \notin fresh /\ RawOf[k] \notin fresh
        /\ \A v \in Workers : job[v].op = "stored" => job[v].key # RawOf[k]
        /\ RawOf[k] \in named => Placed(k)

ArtifactInv == \A w \in Workers : ArtifactOwned(w)

OutputSafe(w) ==
    /\ job[w].op = "generated" => job[w].key \in objects \cup swept
    /\ job[w].op = "dumped" /\ HasRow(job[w].key) => Safe(job[w].key)
    /\ job[w].op = "expire" => \A k \in job[w].todo : k \in named \/ ~ HasRow(k)

FreshUnused ==
    \A k \in fresh \cap Uploaded :
        k \notin named /\ \A w \in Workers : k \notin job[w].todo \cup job[w].gone

NamedInv ==
    /\ \A k \in named : Safe(k)
    /\ FreshUnused
    /\ \A w \in Workers : UploadOwned(w) /\ OutputSafe(w)

LEMMA InitNamed == Init => NamedInv /\ ArtifactInv
BY IdleGood
   DEF Init, NamedInv, FreshUnused, UploadOwned, OutputSafe, ArtifactInv, ArtifactOwned

\* What a step that stores no upload may do of artifacts.
LEMMA KeepArtifacts ==
    ASSUME TypeInv, ArtifactInv, NEW w \in Workers,
           \A v \in Workers \ {w} : job'[v] = job[v],
           job'[w].op # "stored", fresh' \subseteq fresh,
           \A k \in (named' \ named) \cap Raws : job[w].op = "stored" /\ k = job[w].key,
           \A p \in Artifacts : /\ RawOf[p] \in named'
                               /\ p \in objects \cup swept \cup abandoned \cup job[w].gone
                               => Placed(p)'
    PROVE  ArtifactInv'
<1> SUFFICES ASSUME NEW v \in Workers \ {w}, job[v].op = "stored", job[v].key \in Artifacts
             PROVE  ArtifactOwned(v)'
  BY DEF ArtifactInv, ArtifactOwned
<1>1. PICK p \in Artifacts : p = job[v].key /\ job'[v].key = p /\ RawOf[p] \in Raws
  BY KindSets
<1>2. /\ p \notin fresh /\ RawOf[p] \notin fresh
      /\ \A u \in Workers : job[u].op = "stored" => job[u].key # RawOf[p]
      /\ RawOf[p] \in named => Placed(p)
  BY <1>1 DEF ArtifactInv, ArtifactOwned
<1>3. \A u \in Workers : job'[u].op = "stored" => job'[u].key # RawOf[p]
  BY <1>2
<1>4. ASSUME RawOf[p] \in named'
      PROVE  Placed(p)'
  <2>1. Placed(p)
    BY <1>1, <1>2, <1>4
  <2>2. CASE p \in objects \cup swept \cup abandoned \cup job[w].gone
    BY <1>4, <2>2
  <2>3. ASSUME NEW u \in Workers \ {w}, p \in job[u].gone
        PROVE  Placed(p)'
    BY <2>3 DEF Placed
  <2>4. QED
    BY <2>1, <2>2, <2>3 DEF Placed
<1>5. QED
  BY <1>1, <1>2, <1>3, <1>4 DEF ArtifactOwned

LEMMA PutNamed ==
    ASSUME TypeInv, NamedInv, ArtifactInv, NEW w \in Workers, NEW k \in Uploaded, Put(w, k),
           IF k \in Artifacts THEN RawOf[k] \in named ELSE k \in fresh
    PROVE  NamedInv' /\ ArtifactInv'
<1>. job \in [Workers -> Job]
  BY DEF TypeInv, StoredTypeOK
<1>1. PICK j : j = [Idle EXCEPT !.op = "stored", !.key = k]
  OBVIOUS
<1>2. j.op = "stored" /\ j.key = k /\ j.todo = {} /\ j.gone = {}
  BY <1>1 DEF Idle
<1>3. job' = [job EXCEPT ![w] = j]
  BY <1>1 DEF Put, SetJob
<1>4. job[w].gone = {} /\ job'[w] = j /\ \A v \in Workers \ {w} : job'[v] = job[v]
  BY <1>3, IdleGood DEF Put
<1>5. /\ UNCHANGED <<named, task>> /\ objects' = objects \cup {k} /\ fresh' = fresh \ {k}
      /\ swept' = swept \ {k} /\ abandoned' = abandoned \ {k}
  BY DEF Put, Store
<1>6. \A c : Safe(c) => Safe(c)'
  BY <1>2, <1>4, <1>5 DEF Safe
<1>7. FreshUnused'
  BY <1>2, <1>4, <1>5 DEF FreshUnused, NamedInv
<1>8. ASSUME NEW v \in Workers
      PROVE  UploadOwned(v)' /\ OutputSafe(v)'
  <2>1. CASE v = w /\ k \notin Artifacts
    <3>1. k \notin named /\ \A u \in Workers : k \notin job[u].todo \cup job[u].gone
      BY <2>1 DEF NamedInv, FreshUnused
    <3>2. \A u \in Workers : job[u].op = "stored" => job[u].key # k
      BY <2>1 DEF NamedInv, UploadOwned
    <3>3. QED
      BY <1>2, <1>4, <1>5, <2>1, <3>1, <3>2 DEF UploadOwned, OutputSafe
  <2>2. CASE v = w /\ k \in Artifacts
    BY <1>2, <1>4, <2>2 DEF UploadOwned, OutputSafe
  <2>3. CASE v # w
    <3>1. job[v].op = "stored" /\ job[v].key \notin Artifacts => job[v].key # k
      BY DEF NamedInv, UploadOwned
    <3>2. UploadOwned(v)'
      BY <1>2, <1>4, <1>5, <2>3, <3>1 DEF NamedInv, UploadOwned
    <3>3. OutputSafe(v)'
      BY <1>2, <1>4, <1>5, <1>6, <2>3 DEF NamedInv, OutputSafe, HasRow
    <3>4. QED
      BY <3>2, <3>3
  <2>4. QED
    BY <2>1, <2>2, <2>3
<1>9. \A p : Placed(p) => Placed(p)'
  BY <1>2, <1>4, <1>5 DEF Placed
<1>10. ASSUME NEW v \in Workers
       PROVE  ArtifactOwned(v)'
  <2>1. CASE v = w
    <3> SUFFICES ASSUME k \in Artifacts PROVE ArtifactOwned(v)'
      BY <1>2, <1>4, <2>1 DEF ArtifactOwned
    <3>1. RawOf[k] \in named /\ RawOf[k] \in Raws /\ RawOf[k] \in Uploaded /\ RawOf[k] \notin Artifacts
      BY KindSets DEF Uploaded
    <3>2. RawOf[k] \notin fresh
      BY <3>1 DEF NamedInv, FreshUnused
    <3>3. \A u \in Workers : job[u].op = "stored" => job[u].key # RawOf[k]
      BY <3>1 DEF NamedInv, UploadOwned
    <3>4. k # RawOf[k] /\ k \notin fresh' /\ RawOf[k] \notin fresh' /\ Placed(k)'
      BY <1>5, <3>1, <3>2 DEF Placed
    <3>5. \A u \in Workers : job'[u].op = "stored" => job'[u].key # RawOf[k]
      BY <1>2, <1>4, <3>3, <3>4
    <3>6. QED
      BY <1>2, <1>4, <2>1, <3>4, <3>5 DEF ArtifactOwned
  <2>2. CASE v # w
    <3> SUFFICES ASSUME job[v].op = "stored", job[v].key \in Artifacts PROVE ArtifactOwned(v)'
      BY <1>4, <2>2 DEF ArtifactOwned
    <3>1. PICK p \in Artifacts : p = job[v].key /\ job'[v].key = p /\ RawOf[p] \notin Artifacts
      BY <1>4, <2>2, KindSets
    <3>2. /\ p \notin fresh /\ RawOf[p] \notin fresh
          /\ \A u \in Workers : job[u].op = "stored" => job[u].key # RawOf[p]
          /\ RawOf[p] \in named => Placed(p)
      BY <3>1 DEF ArtifactInv, ArtifactOwned
    <3>3. k # RawOf[p]
      BY <3>1, <3>2
    <3>4. \A u \in Workers : job'[u].op = "stored" => job'[u].key # RawOf[p]
      BY <1>2, <1>4, <3>2, <3>3
    <3>5. QED
      BY <1>5, <1>9, <3>1, <3>2, <3>4 DEF ArtifactOwned
  <2>3. QED
    BY <2>1, <2>2
<1>11. QED
  BY <1>5, <1>6, <1>7, <1>8, <1>10 DEF NamedInv, ArtifactInv

LEMMA UploadNamed ==
    ASSUME TypeInv, NamedInv, ArtifactInv, NEW w \in Workers, UploadStep(w)
    PROVE  NamedInv' /\ ArtifactInv'
<1>1. ASSUME NEW k \in Raws \cup Documents \cup Media \cup Avatars, PutNew(w, k)
      PROVE  NamedInv' /\ ArtifactInv'
  BY <1>1, PutNamed, KindSets DEF PutNew, Uploaded
<1>2. ASSUME NEW k \in Artifacts, PutProcessed(w, k)
      PROVE  NamedInv' /\ ArtifactInv'
  BY <1>2, PutNamed DEF PutProcessed, Uploaded
<1>3. QED
  BY <1>1, <1>2 DEF UploadStep, UploadFile, ImportFile, UploadDocument, UploadMedia, UploadAvatar

\* The commit of an upload, or of a deletion that has taken all it holds.
LEMMA NameNamed ==
    ASSUME TypeInv, NamedInv, ArtifactInv, NEW w \in Workers, NEW S, Name(w, S),
           \A k \in S : \/ k \in named /\ k \notin job[w].gone
                        \/ /\ job[w].op = "stored" /\ k = job[w].key
                           /\ k \in Artifacts => RawOf[k] \in named,
           \A p \in Artifacts \cap job[w].gone : RawOf[p] \notin S,
           named \ S \subseteq Uploaded
    PROVE  NamedInv' /\ ArtifactInv'
<1>. job \in [Workers -> Job]
  BY DEF TypeInv, StoredTypeOK
<1>1. job'[w] = Idle /\ \A v \in Workers \ {w} : job'[v] = job[v]
  BY DEF Name, SetJob
<1>2. UNCHANGED <<objects, fresh, task, swept, abandoned>> /\ named' = S
  BY DEF Name
<1>3. ASSUME NEW k \in S
      PROVE  Safe(k)'
  <2>1. CASE k \in named /\ k \notin job[w].gone
    BY <1>1, <1>2, <1>3, <2>1 DEF NamedInv, Safe
  <2>2. CASE job[w].op = "stored" /\ k = job[w].key /\ k \notin Artifacts
    BY <1>2, <2>2 DEF NamedInv, UploadOwned, Safe
  <2>3. CASE job[w].op = "stored" /\ k = job[w].key /\ k \in Artifacts /\ RawOf[k] \in named
    <3>1. Placed(k) /\ job[w].gone = {}
      BY <2>3 DEF ArtifactInv, ArtifactOwned, TypeInv, JobsOK, GoodJob
    <3>2. QED
      BY <1>1, <1>2, <1>3, <3>1 DEF Placed, Safe
  <2>4. QED
    BY <1>3, <2>1, <2>2, <2>3
<1>4. \A k \in Backups : Safe(k) => Safe(k)'
  <2> SUFFICES ASSUME NEW k \in Backups, Safe(k) PROVE Safe(k)'
    OBVIOUS
  <2>1. k \in Tasked
    BY DEF Tasked
  <2>2. CASE k \in objects \cup swept \cup abandoned
    BY <1>2, <2>2 DEF Safe
  <2>3. CASE k \in named
    BY <1>3, <2>1, <2>3, KindSets
  <2>4. QED
    BY <2>2, <2>3 DEF Safe
<1>5. FreshUnused'
  BY <1>1, <1>2, IdleGood
     DEF NamedInv, FreshUnused, UploadOwned, ArtifactInv, ArtifactOwned
<1>6. ASSUME NEW v \in Workers
      PROVE  UploadOwned(v)' /\ OutputSafe(v)'
  <2>1. CASE v = w
    BY <1>1, <2>1, IdleGood DEF UploadOwned, OutputSafe
  <2>2. CASE v # w
    <3>1. UploadOwned(v)'
      BY <1>1, <1>2, <2>2, IdleGood DEF NamedInv, UploadOwned
    <3>2. job[v].op = "expire" => job[v].todo \subseteq Tasked
      BY DEF TypeInv, StoredTypeOK, JobsOK, GoodJob, Tasked
    <3>3. OutputSafe(v)'
      BY <1>1, <1>2, <1>4, <2>2, <3>2, KindSets
         DEF NamedInv, OutputSafe, HasRow, TypeInv, JobsOK, GoodJob
    <3>4. QED
      BY <3>1, <3>3
  <2>3. QED
    BY <2>1, <2>2
<1>7. ArtifactInv'
  BY <1>1, <1>2, IdleGood, KeepArtifacts DEF Placed
<1>8. QED
  BY <1>2, <1>3, <1>5, <1>6, <1>7 DEF NamedInv

LEMMA CommitNamed ==
    ASSUME TypeInv, NamedInv, ArtifactInv, NEW w \in Workers, CommitStep(w)
    PROVE  NamedInv' /\ ArtifactInv'
<1>. job \in [Workers -> Job] /\ GoodJob(job[w])
  BY DEF TypeInv, StoredTypeOK, JobsOK
<1>1. ASSUME NEW S, Name(w, S), job[w].op \in {"stored", "idle"}, named \ S \subseteq Avatars,
             \A k \in S \ named : /\ job[w].op = "stored" /\ k = job[w].key
                                  /\ k \in Artifacts => RawOf[k] \in named
      PROVE  NamedInv' /\ ArtifactInv'
  <2>1. job[w].gone = {} /\ named \ S \subseteq Uploaded
    BY <1>1 DEF GoodJob, Uploaded
  <2>2. \A p \in Artifacts \cap job[w].gone : RawOf[p] \notin S
    BY <2>1
  <2>3. \A k \in S : \/ k \in named /\ k \notin job[w].gone
                     \/ /\ job[w].op = "stored" /\ k = job[w].key
                        /\ k \in Artifacts => RawOf[k] \in named
    <3> SUFFICES ASSUME NEW k \in S, k \notin named
                 PROVE  job[w].op = "stored" /\ k = job[w].key /\ (k \in Artifacts => RawOf[k] \in named)
      BY <2>1
    <3>1. k \in S \ named
      OBVIOUS
    <3>2. QED
      BY <1>1, <3>1, Zenon
  <2>4. QED
    BY <1>1, <2>1, <2>2, <2>3, NameNamed
<1>2. CASE CommitRow(w)
  BY <1>1, <1>2, KindSets DEF CommitRow
<1>3. CASE CommitMetadata(w)
  BY <1>1, <1>3 DEF CommitMetadata
<1>4. CASE CommitAvatar(w)
  BY <1>1, <1>4, KindSets DEF CommitAvatar
<1>5. CASE ForgetAvatar(w)
  BY <1>1, <1>5, IdleGood DEF ForgetAvatar
<1>6. CASE DocumentFails(w)
  <2>1. PICK d : d = job[w].key
    OBVIOUS
  <2>2. job'[w] = Idle /\ \A v \in Workers \ {w} : job'[v] = job[v]
    BY <1>6 DEF DocumentFails, SetJob
  <2>3. UNCHANGED <<named, fresh, task, swept, abandoned>> /\ objects' = objects \ {d}
    BY <1>6, <2>1 DEF DocumentFails
  <2>4. d \notin named /\ d \in Uploaded /\ job[w].gone = {} /\ job[w].op = "stored" /\ d \notin Artifacts
    BY <1>6, <2>1, KindSets DEF DocumentFails, GoodJob, NamedInv, UploadOwned
  <2>5. \A k : k # d /\ Safe(k) => Safe(k)'
    BY <2>2, <2>3, <2>4 DEF Safe
  <2>6. FreshUnused'
    BY <2>2, <2>3, IdleGood DEF NamedInv, FreshUnused
  <2>7. ASSUME NEW v \in Workers
        PROVE  UploadOwned(v)' /\ OutputSafe(v)'
    <3>1. CASE v = w
      BY <2>2, <3>1, IdleGood DEF UploadOwned, OutputSafe
    <3>2. CASE v # w
      <4>1. UploadOwned(v)'
        BY <2>1, <2>2, <2>3, <2>4, <3>2, IdleGood DEF NamedInv, UploadOwned
      <4>2. OutputSafe(v)'
        BY <2>2, <2>3, <2>4, <2>5, <3>2, KindSets
           DEF NamedInv, OutputSafe, HasRow, TypeInv, JobsOK, GoodJob, Tasked
      <4>3. QED
        BY <4>1, <4>2
    <3>3. QED
      BY <3>1, <3>2
  <2>8. ArtifactInv'
    BY <2>2, <2>3, <2>4, IdleGood, KeepArtifacts DEF Placed
  <2>9. QED
    BY <2>3, <2>4, <2>5, <2>6, <2>7, <2>8 DEF NamedInv
<1>7. QED
  BY <1>2, <1>3, <1>4, <1>5, <1>6 DEF CommitStep

LEMMA RemoveNamed ==
    ASSUME TypeInv, NamedInv, ArtifactInv, NEW w \in Workers, RemoveStep(w)
    PROVE  NamedInv' /\ ArtifactInv'
<1>. job \in [Workers -> Job] /\ GoodJob(job[w]) /\ job[w] \in Job
  BY DEF TypeInv, StoredTypeOK, JobsOK
<1>1. ASSUME NEW k, NEW S \in SUBSET named, Remove(w, k, S)
      PROVE  NamedInv' /\ ArtifactInv'
  <2>1. PICK j : j = [Idle EXCEPT !.op = "remove", !.key = k, !.todo = S]
    OBVIOUS
  <2>2. j.op = "remove" /\ j.todo = S /\ j.gone = {}
    BY <2>1 DEF Idle
  <2>3. job' = [job EXCEPT ![w] = j]
    BY <1>1, <2>1 DEF Remove, SetJob
  <2>4. job[w].gone = {} /\ job'[w] = j /\ \A v \in Workers \ {w} : job'[v] = job[v]
    BY <1>1, <2>3, IdleGood DEF Remove
  <2>5. UNCHANGED <<objects, named, fresh, task, swept, abandoned>>
    BY <1>1 DEF Remove
  <2>6. \A c : Safe(c) => Safe(c)'
    BY <2>2, <2>4, <2>5 DEF Safe
  <2>7. FreshUnused'
    BY <2>2, <2>4, <2>5 DEF NamedInv, FreshUnused
  <2>8. ASSUME NEW v \in Workers
        PROVE  UploadOwned(v)' /\ OutputSafe(v)'
    <3>1. CASE v = w
      BY <2>2, <2>4, <3>1 DEF UploadOwned, OutputSafe
    <3>2. CASE v # w
      <4>1. UploadOwned(v)'
        BY <2>2, <2>4, <2>5, <3>2 DEF NamedInv, UploadOwned
      <4>2. OutputSafe(v)'
        BY <2>4, <2>5, <2>6, <3>2 DEF NamedInv, OutputSafe, HasRow
      <4>3. QED
        BY <4>1, <4>2
    <3>3. QED
      BY <3>1, <3>2
  <2>9. ArtifactInv'
    BY <2>2, <2>4, <2>5, KeepArtifacts DEF Placed
  <2>10. QED
    BY <2>5, <2>6, <2>7, <2>8, <2>9 DEF NamedInv
<1>2. CASE \E k \in Raws : RemoveFile(w, k) \/ CleanupUpload(w, k) \/ AbandonIngestion(w, k)
  BY <1>1, <1>2 DEF RemoveFile, CleanupUpload, AbandonIngestion
<1>3. CASE \E k \in Media : RemoveMedia(w, k)
  BY <1>1, <1>3 DEF RemoveMedia
<1>4. ASSUME NEW k \in job[w].todo, DeleteObject(w, k) \/ RetentionKeeps(w, k)
      PROVE  NamedInv' /\ ArtifactInv'
  <2>1. PICK j : j = [job[w] EXCEPT !.todo = @ \ {k}, !.gone = @ \cup {k}]
    OBVIOUS
  <2>2. j.op = job[w].op /\ j.key = job[w].key /\ j.todo = job[w].todo \ {k}
        /\ j.gone = job[w].gone \cup {k}
    BY <2>1 DEF Job
  <2>3. job'[w] = j /\ \A v \in Workers \ {w} : job'[v] = job[v]
    BY <1>4, <2>1 DEF DeleteObject, RetentionKeeps, SetJob
  <2>4. UNCHANGED <<named, fresh, task, swept, abandoned>>
    BY <1>4 DEF DeleteObject, RetentionKeeps
  <2>5. objects \ {k} \subseteq objects'
    BY <1>4 DEF DeleteObject, RetentionKeeps
  <2>6. job[w].op \in {"remove", "expire"}
    BY <1>4 DEF DeleteObject, RetentionKeeps
  <2>7. \A c : Safe(c) /\ (c = k => k \in named) => Safe(c)'
    BY <2>2, <2>3, <2>4, <2>5 DEF Safe
  <2>8. FreshUnused'
    BY <1>4, <2>2, <2>3, <2>4 DEF NamedInv, FreshUnused
  <2>9. k \in named \/ k \notin Backups \/ ~ HasRow(k)
    BY <1>4, <2>6, KindSets DEF NamedInv, OutputSafe, GoodJob, Tasked
  <2>10. k \notin Reports
    BY <1>4, <2>6, KindSets DEF GoodJob, Tasked, TypeInv, StoredTypeOK
  <2>11. ASSUME NEW v \in Workers
         PROVE  UploadOwned(v)' /\ OutputSafe(v)'
    <3>1. job[v].op = "stored" => v # w /\ (job[v].key \notin Artifacts => k # job[v].key)
      BY <1>4, <2>6 DEF NamedInv, UploadOwned
    <3>2. job[v].op = "generated" => k # job[v].key
      BY <2>10 DEF TypeInv, JobsOK, GoodJob
    <3>3. job[v].op = "dumped" => job[v].key \in Backups
      BY DEF TypeInv, JobsOK, GoodJob
    <3>4. UploadOwned(v)'
      BY <2>2, <2>3, <2>4, <2>5, <2>6, <3>1 DEF NamedInv, UploadOwned
    <3>5. OutputSafe(v)'
      BY <2>2, <2>3, <2>4, <2>5, <2>6, <2>7, <2>9, <3>2, <3>3 DEF NamedInv, OutputSafe, HasRow
    <3>6. QED
      BY <3>4, <3>5
  <2>12. ArtifactInv'
    BY <2>2, <2>3, <2>4, <2>5, <2>6, KeepArtifacts DEF Placed
  <2>13. QED
    BY <2>4, <2>7, <2>8, <2>11, <2>12 DEF NamedInv
<1>5. CASE RemoveCommit(w)
  <2>1. job[w].op = "remove" /\ Name(w, named \ ({job[w].key} \cup ArtifactsOf(job[w].key)))
    BY <1>5 DEF RemoveCommit
  <2>2. named \cap ({job[w].key} \cup ArtifactsOf(job[w].key)) \subseteq Uploaded
    BY <2>1, KindSets DEF GoodJob, Uploaded
  <2>3. job[w].gone \subseteq {job[w].key} \cup ArtifactsOf(job[w].key)
    BY <2>1 DEF GoodJob
  <2>4. \A p \in Artifacts \cap job[w].gone : RawOf[p] = job[w].key
    BY <2>1, <2>3, KindSets DEF GoodJob
  <2>5. QED
    BY <2>1, <2>2, <2>3, <2>4, NameNamed
<1>6. CASE KeepArtifact(w) \/ WithdrawArtifact(w)
  <2>1. PICK p \in Artifacts, gone \in SUBSET Artifacts :
           /\ gone \in {{}, {p}}
           /\ job[w].op = "stored" /\ job[w].key = p
           /\ job' = [job EXCEPT ![w] = [op |-> "remove", key |-> RawOf[p], todo |-> {}, gone |-> gone]]
           /\ objects \ gone \subseteq objects'
    BY <1>6, WithdrawnJob
  <2>2. UNCHANGED <<named, fresh, task, swept, abandoned>>
    BY <1>6 DEF KeepArtifact, WithdrawArtifact
  <2>3. /\ job'[w].op = "remove" /\ job'[w].todo = {} /\ job'[w].gone = gone /\ job[w].gone = {}
        /\ \A v \in Workers \ {w} : job'[v] = job[v]
    BY <2>1 DEF GoodJob
  <2>4. p \notin fresh /\ p \notin Tasked
    BY <2>1, KindSets DEF ArtifactInv, ArtifactOwned
  <2>5. \A c : Safe(c) /\ (c = p => p \in named) => Safe(c)'
    BY <2>1, <2>2, <2>3 DEF Safe
  <2>6. FreshUnused'
    <3> SUFFICES ASSUME NEW c \in fresh \cap Uploaded, NEW v \in Workers
                 PROVE  c \notin named' /\ c \notin job'[v].todo \cup job'[v].gone
      BY <2>2 DEF FreshUnused
    <3>1. c \notin named /\ c \notin job[v].todo \cup job[v].gone /\ c # p
      BY <2>4 DEF NamedInv, FreshUnused
    <3>2. QED
      BY <2>1, <2>2, <2>3, <3>1
  <2>7. ASSUME NEW v \in Workers
        PROVE  UploadOwned(v)' /\ OutputSafe(v)'
    <3>1. CASE v = w
      BY <2>3, <3>1 DEF UploadOwned, OutputSafe
    <3>2. CASE v # w
      <4>1. UploadOwned(v)'
        BY <2>1, <2>2, <2>3, <3>2 DEF NamedInv, UploadOwned
      <4>2. OutputSafe(v)'
        BY <2>1, <2>2, <2>3, <2>4, <2>5, <3>2
           DEF NamedInv, OutputSafe, HasRow, TypeInv, JobsOK, GoodJob, Tasked
      <4>3. QED
        BY <4>1, <4>2
    <3>3. QED
      BY <3>1, <3>2
  <2>8. ArtifactInv'
    BY <2>1, <2>2, <2>3, KeepArtifacts DEF Placed
  <2>9. QED
    BY <2>2, <2>5, <2>6, <2>7, <2>8 DEF NamedInv
<1>7. QED
  BY <1>2, <1>3, <1>4, <1>5, <1>6 DEF RemoveStep

\* A task is run, and a row is deleted, after the row was made.
Made(w) ==
    /\ job[w].op \in {"dump", "dumped"} => task[job[w].key] # "absent"
    /\ job[w].op = "expire" => \A k \in job[w].todo \cup job[w].gone : task[k] # "absent"

MadeInv == \A w \in Workers : Made(w)

LEMMA NoNewRows ==
    ASSUME TypeInv, NEW w \in Workers, TaskStart(w) \/ TaskStep(w) \/ Lost(w), NEW k \in Backups,
           task[k] # "absent"
    PROVE  task'[k] # "absent" /\ (HasRow(k)' => HasRow(k))
<1>. task \in [Tasked -> TaskStatus] /\ k \in Tasked /\ k \notin Reports
  BY KindSets DEF TypeInv, StoredTypeOK, Tasked
<1>1. CASE TaskStart(w)
  <2>1. ASSUME NEW c, CreateTask(w, c) \/ GenerateReport(w, c) \/ ScheduledBackup(w, c)
        PROVE  task'[k] = task[k]
    BY <2>1 DEF CreateTask, GenerateReport, ScheduledBackup
  <2>2. ASSUME NEW c, StartBackup(w, c)
        PROVE  task'[k] # "absent" /\ (HasRow(k)' => HasRow(k))
    BY <2>2 DEF StartBackup, HasRow
  <2>3. QED
    BY <1>1, <2>1, <2>2 DEF TaskStart, CreateReport, CreateBackup, HasRow
<1>2. CASE PutReport(w) \/ PutDump(w) \/ RetentionLoad(w) \/ Lost(w)
  BY <1>2 DEF PutReport, PutDump, PutOutput, RetentionLoad, Lost, HasRow
<1>3. CASE ReportCommit(w)
  BY <1>3 DEF ReportCommit, HasRow, TypeInv, JobsOK, GoodJob
<1>4. CASE BackupFails(w)
  BY <1>4 DEF BackupFails, HasRow
<1>5. CASE BackupCommit(w)
  BY <1>5 DEF BackupCommit, HasRow
<1>6. CASE RetentionCommit(w)
  BY <1>6 DEF RetentionCommit, HasRow
<1>7. QED
  BY <1>1, <1>2, <1>3, <1>4, <1>5, <1>6 DEF TaskStep

LEMMA NextMade == TypeInv /\ MadeInv /\ [Next]_vars => MadeInv'
<1> SUFFICES ASSUME TypeInv, MadeInv, Next PROVE MadeInv'
  BY DEF vars, MadeInv, Made
<1>. job \in [Workers -> Job] /\ task \in [Tasked -> TaskStatus]
  BY DEF TypeInv, StoredTypeOK
<1>1. ASSUME NEW w \in Workers, UploadStep(w) \/ CommitStep(w) \/ RemoveStep(w)
      PROVE  task' = task
  BY <1>1 DEF UploadStep, UploadFile, ImportFile, UploadDocument, UploadMedia, UploadAvatar,
              PutNew, PutProcessed, Put, CommitStep, CommitRow, CommitMetadata, CommitAvatar,
              ForgetAvatar, DocumentFails, Name, RemoveStep, RemoveFile, CleanupUpload,
              AbandonIngestion, KeepArtifact, WithdrawArtifact, RemoveMedia, Remove, DeleteObject, RetentionKeeps, RemoveCommit
<1>2. CASE SweepStep
  BY <1>2 DEF SweepStep, SweepStart, CollectKnownKeys, CheckKey, ListPrefix, DeleteOrphan,
              SweepEnd, SetSweep, MadeInv, Made
<1>3. ASSUME NEW w \in Workers, WorkerStep(w)
      PROVE  MadeInv'
  <2>1. \A k \in Backups : task[k] # "absent" => task'[k] # "absent"
    BY <1>1, <1>3, NoNewRows DEF WorkerStep
  <2>2. ASSUME NEW v \in Workers, job'[v] = job[v]
        PROVE  Made(v)'
    <3>1. /\ job[v].op \in {"dump", "dumped"} => job[v].key \in Backups
          /\ job[v].op = "expire" => job[v].todo \cup job[v].gone \subseteq Backups
      BY DEF TypeInv, StoredTypeOK, JobsOK, GoodJob
    <3>2. QED
      BY <2>1, <2>2, <3>1 DEF MadeInv, Made
  <2>3. Made(w)'
    <3>. GoodJob(job[w]) /\ Made(w)
      BY DEF TypeInv, JobsOK, MadeInv
    <3>1. CASE Deletes(w)
      BY <2>1, <3>1, DeletesJob DEF Deletes, Made, GoodJob, TypeInv, StoredTypeOK
    <3>2. CASE PutDump(w)
      BY <2>1, <3>2, DumpJob DEF Made, GoodJob
    <3>3. CASE RetentionLoad(w)
      <4>1. task' = task
        BY <3>3 DEF RetentionLoad
      <4>2. QED
        BY <3>3, <4>1, LoadJob DEF Made, HasRow
    <3>4. CASE job'[w].op \in Plain \/ StartsDump(w)
      BY <3>4 DEF Plain, StartsDump, Made
    <3>5. QED
      BY <1>3, <3>1, <3>2, <3>3, <3>4, JobSteps
  <2>4. QED
    BY <2>2, <2>3, <1>3, OwnJob DEF MadeInv
<1>4. QED
  BY <1>2, <1>3 DEF Next, WorkerStep

\* A step of a task that takes no object and no name away.
LEMMA KeepNamed ==
    ASSUME TypeInv, NamedInv, ArtifactInv, MadeInv, NEW w \in Workers,
           TaskStart(w) \/ TaskStep(w) \/ Lost(w),
           \A v \in Workers \ {w} : job'[v] = job[v],
           objects \cup swept \subseteq objects' \cup swept',
           abandoned \subseteq objects' \cup abandoned',
           named \subseteq named', named' \ named \subseteq Tasked, fresh' \subseteq fresh,
           job[w].gone \subseteq job'[w].gone \cup abandoned',
           (job'[w].todo \cup job'[w].gone) \cap Uploaded = {},
           job'[w].op # "stored",
           OutputSafe(w)', \A k \in named' \ named : Safe(k)'
    PROVE  NamedInv' /\ ArtifactInv'
<1>1. \A k : Safe(k) => Safe(k)'
  BY DEF Safe
<1>2. FreshUnused'
  BY KindSets DEF NamedInv, FreshUnused
<1>3. ASSUME NEW v \in Workers \ {w}
      PROVE  UploadOwned(v)' /\ OutputSafe(v)'
  <2>1. job[v].op = "stored" => job[v].key \in Uploaded
    BY DEF TypeInv, JobsOK, GoodJob
  <2>2. UploadOwned(v)'
    BY <2>1, KindSets DEF NamedInv, UploadOwned
  <2>3. job[v].op = "dumped" => job[v].key \in Backups /\ task[job[v].key] # "absent"
    BY DEF TypeInv, JobsOK, GoodJob, MadeInv, Made
  <2>4. job[v].op = "expire" => \A k \in job[v].todo : k \in Backups /\ task[k] # "absent"
    BY DEF TypeInv, StoredTypeOK, JobsOK, GoodJob, MadeInv, Made
  <2>5. OutputSafe(v)'
    BY <1>1, <2>3, <2>4, NoNewRows DEF NamedInv, OutputSafe
  <2>6. QED
    BY <2>2, <2>5
<1>4. UploadOwned(w)'
  BY DEF UploadOwned
<1>5. ArtifactInv'
  BY KindSets, KeepArtifacts DEF Placed
<1>6. QED
  BY <1>1, <1>2, <1>3, <1>4, <1>5 DEF NamedInv

LEMMA StartNamed ==
    ASSUME TypeInv, NamedInv, ArtifactInv, MadeInv, NEW w \in Workers, TaskStart(w)
    PROVE  NamedInv' /\ ArtifactInv'
<1>. job \in [Workers -> Job] /\ job' \in [Workers -> Job]
  BY StartTypes DEF TypeInv, StoredTypeOK
<1>1. \A v \in Workers \ {w} : job'[v] = job[v]
  BY OwnJob DEF WorkerStep
<1>2. job[w] = Idle /\ UNCHANGED <<objects, named, swept, abandoned>> /\ fresh' \subseteq fresh
  BY DEF TaskStart, CreateReport, CreateBackup, CreateTask, GenerateReport, ScheduledBackup,
         StartBackup
<1>3. PICK op \in {"idle", "generate", "dump"} :
         job'[w].op = op /\ job'[w].todo = {} /\ job'[w].gone = {}
  <2>1. ASSUME NEW op, NEW k, SetJob(w, [Idle EXCEPT !.op = op, !.key = k])
        PROVE  job'[w].op = op /\ job'[w].todo = {} /\ job'[w].gone = {}
    <3>1. job'[w] = [Idle EXCEPT !.op = op, !.key = k]
      BY <2>1 DEF SetJob
    <3>2. QED
      BY <3>1 DEF Idle
  <2>2. job' = job \/ \E k \in Keys : \/ SetJob(w, [Idle EXCEPT !.op = "generate", !.key = k])
                                      \/ SetJob(w, [Idle EXCEPT !.op = "dump", !.key = k])
    BY KindSets
       DEF TaskStart, CreateReport, CreateBackup, CreateTask, GenerateReport, ScheduledBackup,
           StartBackup, Tasked
  <2>3. CASE job' = job
    BY <1>2, <2>3, IdleGood
  <2>4. QED
    BY <2>1, <2>2, <2>3
<1>4. OutputSafe(w)'
  BY <1>3 DEF OutputSafe
<1>5. job[w].gone = {}
  BY <1>2, IdleGood
<1>6. QED
  BY <1>1, <1>2, <1>3, <1>4, <1>5, KeepNamed

LEMMA TaskNamed ==
    ASSUME TypeInv, NamedInv, ArtifactInv, MadeInv, NEW w \in Workers, TaskStep(w) \/ Lost(w)
    PROVE  NamedInv' /\ ArtifactInv'
<1>. /\ job \in [Workers -> Job] /\ job[w] \in Job /\ GoodJob(job[w])
     /\ job' \in [Workers -> Job] /\ GoodJob(job[w])'
  BY TaskTypes DEF TypeInv, StoredTypeOK, JobsOK
<1>1. \A v \in Workers \ {w} : job'[v] = job[v]
  BY OwnJob DEF WorkerStep
<1>2. ASSUME NEW op, job[w].op \notin {"remove", "expire"}, job'[w] = [job[w] EXCEPT !.op = op]
      PROVE  job'[w].op = op /\ job'[w].key = job[w].key /\ job[w].gone = {}
             /\ job'[w].todo = {} /\ job'[w].gone = {}
  BY <1>2 DEF Job, GoodJob
<1>3. ASSUME job'[w] = Idle
      PROVE  OutputSafe(w)' /\ job'[w].op # "stored" /\ job'[w].todo = {} /\ job'[w].gone = {}
  BY <1>3 DEF Idle, OutputSafe
<1>4. CASE PutReport(w)
  <2>1. job'[w] = [job[w] EXCEPT !.op = "generated"] /\ job[w].op = "generate"
    BY <1>4 DEF PutReport, PutOutput, SetJob
  <2>2. /\ UNCHANGED <<named, fresh>> /\ objects' = objects \cup {job[w].key}
        /\ swept' = swept \ {job[w].key} /\ abandoned' = abandoned \ {job[w].key}
    BY <1>4 DEF PutReport, PutOutput, Store
  <2>3. OutputSafe(w)'
    BY <1>2, <2>1, <2>2 DEF OutputSafe
  <2>4. QED
    BY <1>1, <1>2, <1>4, <2>1, <2>2, <2>3, KeepNamed
<1>5. CASE PutDump(w)
  <2>1. /\ UNCHANGED <<named, fresh>> /\ objects' = objects \cup {job[w].key}
        /\ swept' = swept \ {job[w].key} /\ abandoned' = abandoned \ {job[w].key}
    BY <1>5 DEF PutDump, PutOutput, Store
  <2>2. OutputSafe(w)' /\ job'[w].op # "stored" /\ job[w].gone = {}
    BY <1>5, DumpJob DEF OutputSafe, Safe, GoodJob
  <2>3. QED
    BY <1>1, <1>5, <2>1, <2>2, DumpJob, KeepNamed
<1>6. CASE ReportCommit(w)
  <2>1. job'[w] = Idle /\ job[w].op = "generated" /\ job[w].key \in Tasked
    BY <1>6 DEF ReportCommit, SetJob, GoodJob, Tasked
  <2>2. UNCHANGED <<objects, swept, abandoned, fresh>> /\ named' = named \cup {job[w].key}
    BY <1>6 DEF ReportCommit
  <2>3. job[w].gone = {} /\ job[w].key \in objects \cup swept
    BY <2>1 DEF GoodJob, NamedInv, OutputSafe
  <2>4. QED
    BY <1>1, <1>3, <1>6, <2>1, <2>2, <2>3, KeepNamed DEF Safe
<1>7. CASE BackupFails(w)
  <2>1. job'[w] = Idle /\ job[w].gone = {}
    BY <1>7 DEF BackupFails, SetJob, GoodJob
  <2>2. UNCHANGED <<objects, swept, abandoned, fresh, named>>
    BY <1>7 DEF BackupFails
  <2>3. QED
    BY <1>1, <1>3, <1>7, <2>1, <2>2, KeepNamed
<1>8. CASE BackupCommit(w)
  <2>1. job'[w] = [job[w] EXCEPT !.op = "retention"] /\ job[w].op = "dumped"
    BY <1>8 DEF BackupCommit, SetJob
  <2>2. UNCHANGED <<objects, swept, abandoned, fresh>>
    BY <1>8 DEF BackupCommit
  <2>3. \/ named' = named
        \/ HasRow(job[w].key) /\ named' = named \cup {job[w].key}
    BY <1>8 DEF BackupCommit
  <2>4. job[w].key \in Tasked /\ (HasRow(job[w].key) => Safe(job[w].key))
    BY <2>1 DEF GoodJob, Tasked, NamedInv, OutputSafe
  <2>5. job'[w].op = "retention" /\ job'[w].todo = {} /\ job'[w].gone = {} /\ job[w].gone = {}
    BY <1>2, <2>1
  <2>6. OutputSafe(w)'
    BY <2>5 DEF OutputSafe
  <2>7. \A k \in named' \ named : Safe(k)'
    BY <1>1, <2>2, <2>3, <2>4, <2>5 DEF Safe
  <2>8. QED
    BY <1>1, <1>8, <2>2, <2>3, <2>4, <2>5, <2>6, <2>7, KeepNamed
<1>9. CASE RetentionLoad(w)
  <2>1. UNCHANGED <<objects, swept, abandoned, fresh, named, task>>
    BY <1>9 DEF RetentionLoad
  <2>2. job[w].op = "retention" /\ job[w].gone = {}
    BY <1>9 DEF RetentionLoad, GoodJob
  <2>3. job'[w].op = "expire" /\ job'[w].todo \subseteq named
    BY <1>9, LoadJob
  <2>4. (job'[w].todo \cup job'[w].gone) \subseteq Tasked
    BY <1>9, <2>3 DEF RetentionLoad, GoodJob, TypeInv, StoredTypeOK, Tasked
  <2>5. OutputSafe(w)'
    BY <2>1, <2>3 DEF OutputSafe
  <2>6. QED
    BY <1>1, <1>9, <2>1, <2>2, <2>3, <2>4, <2>5, KeepNamed, KindSets
<1>10. CASE RetentionCommit(w)
  <2>1. PICK rows : rows = job[w].gone
    OBVIOUS
  <2>2. job'[w] = Idle /\ job[w].op = "expire"
    BY <1>10 DEF RetentionCommit, SetJob
  <2>3. UNCHANGED <<objects, swept, abandoned, fresh>> /\ named' = named \ rows
    BY <1>10, <2>1 DEF RetentionCommit
  <2>4. rows \subseteq Tasked /\ task' = [k \in Tasked |-> IF k \in rows THEN "deleted" ELSE task[k]]
    BY <1>10, <2>1, <2>2 DEF RetentionCommit, GoodJob, TypeInv, StoredTypeOK, Tasked
  <2>5. \A k \in Tasked : (HasRow(k)' => HasRow(k) /\ k \notin rows)
    BY <2>4 DEF HasRow
  <2>6. \A k : Safe(k) /\ k \notin rows => Safe(k)'
    BY <1>1, <2>1, <2>3 DEF Safe
  <2>7. FreshUnused'
    BY <1>1, <1>3, <2>2, <2>3 DEF NamedInv, FreshUnused
  <2>8. ASSUME NEW v \in Workers
        PROVE  UploadOwned(v)' /\ OutputSafe(v)'
    <3>1. CASE v = w
      BY <1>3, <2>2, <3>1 DEF UploadOwned
    <3>2. CASE v # w
      <4>1. UploadOwned(v)'
        BY <1>1, <1>3, <2>2, <2>3, <3>2 DEF NamedInv, UploadOwned
      <4>2. job[v].op = "dumped" => job[v].key \in Tasked
        BY DEF TypeInv, JobsOK, GoodJob, Tasked
      <4>3. job[v].op = "expire" => job[v].todo \subseteq Tasked
        BY DEF TypeInv, StoredTypeOK, JobsOK, GoodJob, Tasked
      <4>4. OutputSafe(v)'
        BY <1>1, <2>3, <2>5, <2>6, <3>2, <4>2, <4>3 DEF NamedInv, OutputSafe
      <4>5. QED
        BY <4>1, <4>4
    <3>3. QED
      BY <3>1, <3>2
  <2>9. ArtifactInv'
    BY <1>1, <1>3, <2>1, <2>2, <2>3, <2>4, KindSets, KeepArtifacts DEF Placed
  <2>10. QED
    BY <2>3, <2>6, <2>7, <2>8, <2>9 DEF NamedInv
<1>11. CASE Lost(w)
  <2>1. job'[w] = Idle /\ abandoned' = abandoned \cup job[w].gone
    BY <1>11 DEF Lost, SetJob
  <2>2. UNCHANGED <<objects, swept, fresh, named>>
    BY <1>11 DEF Lost
  <2>3. QED
    BY <1>1, <1>3, <1>11, <2>1, <2>2, KeepNamed
<1>12. QED
  BY <1>4, <1>5, <1>6, <1>7, <1>8, <1>9, <1>10, <1>11 DEF TaskStep

LEMMA SweepNamed ==
    ASSUME TypeInv, NamedInv, ArtifactInv, SweepStep
    PROVE  NamedInv' /\ ArtifactInv'
<1>1. UNCHANGED <<named, fresh, task, job, abandoned>> /\ swept \subseteq swept'
      /\ objects \cup swept \subseteq objects' \cup swept'
  BY DEF SweepStep, SweepStart, CollectKnownKeys, CheckKey, ListPrefix, DeleteOrphan, SweepEnd,
         SetSweep
<1>2. \A k : Safe(k) => Safe(k)'
  BY <1>1 DEF Safe
<1>3. ArtifactInv'
  BY <1>1 DEF ArtifactInv, ArtifactOwned, Placed
<1>4. QED
  BY <1>1, <1>2, <1>3 DEF NamedInv, FreshUnused, UploadOwned, OutputSafe, HasRow

LEMMA NextNamed ==
    TypeInv /\ MadeInv /\ NamedInv /\ ArtifactInv /\ [Next]_vars => NamedInv' /\ ArtifactInv'
<1> SUFFICES ASSUME TypeInv, MadeInv, NamedInv, ArtifactInv, [Next]_vars
             PROVE  NamedInv' /\ ArtifactInv'
  OBVIOUS
<1>1. CASE UNCHANGED vars
  <2>1. NamedInv'
    BY <1>1 DEF vars, NamedInv, FreshUnused, UploadOwned, OutputSafe, HasRow, Safe
  <2>2. ArtifactInv'
    BY <1>1 DEF vars, ArtifactInv, ArtifactOwned, Placed
  <2>3. QED
    BY <2>1, <2>2
<1>2. ASSUME NEW w \in Workers, WorkerStep(w)
      PROVE  NamedInv' /\ ArtifactInv'
  BY <1>2, UploadNamed, CommitNamed, RemoveNamed, StartNamed, TaskNamed DEF WorkerStep
<1>3. QED
  BY <1>1, <1>2, SweepNamed DEF Next, WorkerStep

\* What a row names is in the storage, although an ingestion that is
\* delivered again stores and deletes under the key of the one before: unless
\* the deletion that took it away has still to commit, or ended before it did,
\* or the sweep's script deleted it, and it was not stored again since.
THEOREM NamedObjects == Spec => []NamedHasObject
<1>1. Init => MadeInv
  BY IdleGood DEF Init, MadeInv, Made
<1>2. TypeInv /\ MadeInv /\ [Next]_vars => MadeInv'
  BY NextMade
<1>3. TypeInv /\ MadeInv /\ NamedInv /\ ArtifactInv /\ [Next]_vars => NamedInv' /\ ArtifactInv'
  BY NextNamed
<1>4. NamedInv => NamedHasObject
  BY DEF NamedInv, Safe, NamedHasObject
<1>5. QED
  BY Types, InitNamed, <1>1, <1>2, <1>3, <1>4, PTL DEF Spec

-----------------------------------------------------------------------------
(* The sweep.  For what nobody touched since it began it has, at every     *)
(* step, read the rows as they are, and found all there was to find.       *)

Untouched == Keys \ (touched \cup Avatars)

Exists(k) ==
    /\ k \in sweep.missing => k \in Checked(named) \ objects
    /\ k \in Checked(named) \ objects => k \in sweep.missing \cup sweep.skipped

Orphan(k) == k \in sweep.orphans => k \in objects \ named

Listed(k) == k \in objects \ named => k \in sweep.orphans \cup sweep.skipped

NothingFound == sweep.missing = {} /\ sweep.orphans = {} /\ sweep.skipped = {}

Collected(k) ==
    /\ k \in sweep.known => k \in named
    /\ k \in named => k \in sweep.known \/ \E i \in sweep.pos .. 5 : k \in SweptTables[i]

SweepInv ==
    /\ sweep.step = "idle" =>
          /\ touched = {} /\ NothingFound
          /\ sweep.known = {} /\ sweep.todo = {} /\ sweep.pos = 1
    /\ sweep.step = "collect" =>
          /\ sweep.pos \in 1 .. 5 /\ NothingFound
          /\ \A k \in Untouched : Collected(k)
    /\ sweep.step = "exists" =>
          /\ sweep.pos = 1 /\ sweep.orphans = {} /\ sweep.todo \subseteq Checked(sweep.known)
          /\ \A k \in Untouched :
                /\ k \in sweep.known <=> k \in named
                /\ k \in sweep.missing => k \in Checked(named) \ objects
                /\ k \in Checked(named) \ objects => k \in sweep.todo \cup sweep.missing \cup sweep.skipped
    /\ sweep.step = "list" =>
          /\ sweep.pos \in 1 .. 7
          /\ \A k \in Untouched :
                /\ k \in sweep.known <=> k \in named
                /\ Exists(k) /\ Orphan(k)
                /\ Listed(k) \/ \E i \in sweep.pos .. 7 : k \in Prefixes[i]
    /\ sweep.step = "report" => \A k \in Untouched : Exists(k) /\ Orphan(k) /\ Listed(k)

LEMMA Tables ==
    /\ Len(SweptTables) = 5 /\ Len(Prefixes) = 7
    /\ \A k \in Keys \ Avatars : \E i \in 1 .. 5 : k \in SweptTables[i]
    /\ \A k \in Keys : \E i \in 1 .. 7 : k \in Prefixes[i]
<1>1. Len(SweptTables) = 5 /\ Len(Prefixes) = 7
  BY DEF SweptTables, Prefixes
<1>2. ASSUME NEW k \in Keys \ Avatars
      PROVE  \E i \in 1 .. 5 : k \in SweptTables[i]
  BY KindSets DEF SweptTables, Uploaded, Tasked
<1>3. ASSUME NEW k \in Keys
      PROVE  \E i \in 1 .. 7 : k \in Prefixes[i]
  BY KindSets DEF Prefixes, Uploaded, Tasked
<1>4. QED
  BY <1>1, <1>2, <1>3

LEMMA WorkerCovered ==
    ASSUME TypeInv, NEW w \in Workers, WorkerStep(w)
    PROVE  sweep' = sweep /\ (sweep.step = "idle" => touched' = touched)
           /\ (sweep.step # "idle" => Covered)
<1>1. sweep.step # "idle" => Covered
  BY UploadTypes, CommitTypes, RemoveTypes, StartTypes, TaskTypes DEF WorkerStep
<1>2. ASSUME UploadStep(w)
      PROVE  sweep' = sweep /\ (sweep.step = "idle" => touched' = touched)
  BY <1>2 DEF UploadStep, UploadFile, ImportFile, UploadDocument, UploadMedia, UploadAvatar,
              PutNew, PutProcessed, Put, Store, Touch
<1>3. ASSUME CommitStep(w)
      PROVE  sweep' = sweep /\ (sweep.step = "idle" => touched' = touched)
  BY <1>3 DEF CommitStep, CommitRow, CommitMetadata, CommitAvatar, ForgetAvatar, DocumentFails,
              Name, Touch
<1>4. ASSUME RemoveStep(w)
      PROVE  sweep' = sweep /\ (sweep.step = "idle" => touched' = touched)
  BY <1>4 DEF RemoveStep, RemoveFile, CleanupUpload, AbandonIngestion, KeepArtifact,
              WithdrawArtifact, RemoveMedia, Remove, DeleteObject, RetentionKeeps, RemoveCommit,
              Name, Touch
<1>5. ASSUME TaskStart(w)
      PROVE  sweep' = sweep /\ touched' = touched
  BY <1>5 DEF TaskStart, CreateReport, CreateBackup, CreateTask, GenerateReport,
              ScheduledBackup, StartBackup
<1>6. ASSUME TaskStep(w) \/ Lost(w)
      PROVE  sweep' = sweep /\ (sweep.step = "idle" => touched' = touched)
  BY <1>6 DEF TaskStep, PutReport, PutDump, PutOutput, Store, ReportCommit, BackupFails,
              BackupCommit, RetentionLoad, RetentionCommit, Lost, Touch
<1>7. QED
  BY <1>1, <1>2, <1>3, <1>4, <1>5, <1>6 DEF WorkerStep

LEMMA CoveredExact ==
    ASSUME SweepInv, sweep' = sweep, sweep.step # "idle", Covered
    PROVE  SweepInv'
<1>1. \A k \in Untouched' : k \in Untouched /\ (k \in objects <=> k \in objects')
                            /\ (k \in named <=> k \in named')
  BY DEF Covered, Untouched
<1>2. QED
  BY <1>1 DEF SweepInv, NothingFound, Collected, Exists, Orphan, Listed, Checked

LEMMA CollectExact ==
    ASSUME TypeInv, SweepInv, CollectKnownKeys
    PROVE  SweepInv'
<1>. sweep \in Sweeps
  BY DEF TypeInv, StoredTypeOK, Sweeps
<1>1. PICK known : known = sweep.known \cup (named \cap SweptTables[sweep.pos])
  OBVIOUS
<1>2. sweep.step = "collect" /\ sweep.pos \in 1 .. 5 /\ NothingFound
      /\ \A k \in Untouched : Collected(k)
  BY DEF CollectKnownKeys, SweepInv
<1>3. UNCHANGED <<objects, named, touched>> /\ Untouched' = Untouched
  BY DEF CollectKnownKeys, SetSweep, Untouched
<1>4. \A k \in Untouched :
          /\ k \in known => k \in named
          /\ k \in named => k \in known \/ \E i \in sweep.pos + 1 .. 5 : k \in SweptTables[i]
  <2> SUFFICES ASSUME NEW k \in Untouched, k \in named, k \notin known
               PROVE  \E i \in sweep.pos + 1 .. 5 : k \in SweptTables[i]
    BY <1>1, <1>2 DEF Collected
  <2>1. PICK i \in sweep.pos .. 5 : k \in SweptTables[i]
    BY <1>1, <1>2 DEF Collected
  <2>2. i # sweep.pos
    BY <1>1, <2>1
  <2>3. QED
    BY <1>2, <2>1, <2>2
<1>5. CASE sweep.pos < 5
  <2>1. PICK pos : pos = sweep.pos + 1
    OBVIOUS
  <2>2. sweep' = [sweep EXCEPT !.known = known, !.pos = @ + 1]
    BY <1>1, <1>5, Tables DEF CollectKnownKeys, SetSweep
  <2>3. sweep'.step = "collect" /\ sweep'.known = known /\ sweep'.pos = sweep.pos + 1
        /\ sweep'.missing = sweep.missing /\ sweep'.orphans = sweep.orphans
        /\ sweep'.skipped = sweep.skipped
    BY <1>2, <2>2 DEF Sweeps
  <2>4. NothingFound' /\ sweep'.pos \in 1 .. 5
    BY <1>2, <1>5, <2>3 DEF NothingFound
  <2>5. \A k \in Untouched : Collected(k)'
    BY <1>3, <1>4, <2>3 DEF Collected
  <2>6. QED
    BY <1>3, <2>3, <2>4, <2>5 DEF SweepInv
<1>6. CASE sweep.pos = 5
  <2>1. sweep' = [sweep EXCEPT !.step = Checking(Checked(known)), !.known = known,
                               !.todo = Checked(known), !.pos = 1]
    BY <1>1, <1>6, Tables DEF CollectKnownKeys, SetSweep
  <2>2. PICK step \in {"list", "exists"} : step = Checking(Checked(known))
    BY DEF Checking
  <2>3. sweep'.step = step /\ sweep'.known = known /\ sweep'.todo = Checked(known) /\ sweep'.pos = 1
        /\ sweep'.missing = sweep.missing /\ sweep'.orphans = sweep.orphans
        /\ sweep'.skipped = sweep.skipped
    BY <2>1, <2>2 DEF Sweeps
  <2>4. \A k \in Untouched : k \in known <=> k \in named
    BY <1>4, <1>6
  <2>5. NothingFound'
    BY <1>2, <2>3 DEF NothingFound
  <2>6. CASE step = "exists"
    BY <1>3, <2>3, <2>4, <2>5, <2>6 DEF SweepInv, NothingFound, Checked
  <2>7. CASE step = "list"
    <3>1. Checked(known) = {}
      BY <2>2, <2>7 DEF Checking
    <3>2. \A k \in Untouched : \E i \in 1 .. 7 : k \in Prefixes[i]
      BY Tables DEF Untouched
    <3>3. \A k \in Untouched : Exists(k)' /\ Orphan(k)'
      BY <1>3, <2>4, <2>5, <3>1 DEF Exists, Orphan, NothingFound, Checked
    <3>4. QED
      BY <1>3, <2>3, <2>4, <2>7, <3>2, <3>3 DEF SweepInv
  <2>8. QED
    BY <2>2, <2>6, <2>7
<1>7. QED
  BY <1>2, <1>5, <1>6

LEMMA CheckExact ==
    ASSUME TypeInv, SweepInv, NEW c \in sweep.todo, CheckKey(c)
    PROVE  SweepInv'
<1>. sweep \in Sweeps
  BY DEF TypeInv, StoredTypeOK, Sweeps
<1>1. PICK todo : todo = sweep.todo \ {c}
  OBVIOUS
<1>2. sweep.step = "exists"
  BY DEF CheckKey
<1>3. UNCHANGED <<objects, named, touched>> /\ Untouched' = Untouched
  BY DEF CheckKey, SetSweep, Untouched
<1>4. PICK step \in {"list", "exists"} : step = Checking(todo)
  BY DEF Checking
<1>5. /\ sweep'.step = step /\ sweep'.todo = todo /\ sweep'.known = sweep.known
      /\ sweep'.orphans = sweep.orphans /\ sweep'.pos = sweep.pos
      /\ \/ /\ sweep'.missing = IF c \in objects THEN sweep.missing ELSE sweep.missing \cup {c}
            /\ sweep'.skipped = sweep.skipped
         \/ sweep'.missing = sweep.missing /\ sweep.skipped = {} /\ sweep'.skipped = {c}
  <2>1. CASE sweep' = [sweep EXCEPT !.step = Checking(todo), !.todo = todo,
                           !.missing = IF c \in objects THEN @ ELSE @ \cup {c}]
    BY <1>4, <2>1 DEF Sweeps
  <2>2. CASE sweep.skipped = {} /\ sweep' = [sweep EXCEPT !.step = Checking(todo), !.todo = todo,
                                                          !.skipped = {c}]
    BY <1>4, <2>2 DEF Sweeps
  <2>3. QED
    BY <1>1, <2>1, <2>2 DEF CheckKey, SetSweep
<1>6. sweep.pos = 1 /\ sweep.orphans = {} /\ todo \subseteq Checked(sweep.known)
  BY <1>1, <1>2 DEF SweepInv
<1>7. \A k \in Untouched :
          /\ k \in sweep'.known <=> k \in named
          /\ k \in sweep'.missing => k \in Checked(named) \ objects
          /\ k \in Checked(named) \ objects => k \in todo \cup sweep'.missing \cup sweep'.skipped
  <2> SUFFICES ASSUME NEW k \in Untouched
               PROVE  /\ k \in sweep'.known <=> k \in named
                      /\ k \in sweep'.missing => k \in Checked(named) \ objects
                      /\ k \in Checked(named) \ objects => k \in todo \cup sweep'.missing \cup sweep'.skipped
    OBVIOUS
  <2>1. /\ k \in sweep.known <=> k \in named
        /\ k \in sweep.missing => k \in Checked(named) \ objects
        /\ k \in Checked(named) \ objects => k \in sweep.todo \cup sweep.missing \cup sweep.skipped
    BY <1>2 DEF SweepInv
  <2>2. k = c => k \in Checked(named)
    BY <1>2, <2>1 DEF SweepInv, Checked
  <2>3. QED
    BY <1>1, <1>5, <2>1, <2>2
<1>8. CASE step = "exists"
  BY <1>3, <1>5, <1>6, <1>7, <1>8 DEF SweepInv, Checked
<1>9. CASE step = "list"
  <2>1. todo = {}
    BY <1>4, <1>9 DEF Checking
  <2>2. \A k \in Untouched : \E i \in 1 .. 7 : k \in Prefixes[i]
    BY Tables DEF Untouched
  <2>3. \A k \in Untouched : Exists(k)' /\ Orphan(k)'
    BY <1>3, <1>5, <1>6, <1>7, <2>1 DEF Exists, Orphan, Checked
  <2>4. QED
    BY <1>3, <1>5, <1>6, <1>7, <1>9, <2>2, <2>3 DEF SweepInv
<1>10. QED
  BY <1>4, <1>8, <1>9

LEMMA ListExact ==
    ASSUME TypeInv, SweepInv, ListPrefix
    PROVE  SweepInv'
<1>. sweep \in Sweeps
  BY DEF TypeInv, StoredTypeOK, Sweeps
<1>1. PICK unknown : unknown = (objects \cap Prefixes[sweep.pos]) \ sweep.known
  OBVIOUS
<1>2. sweep.step = "list" /\ sweep.pos \in 1 .. 7
  BY DEF ListPrefix, SweepInv
<1>3. UNCHANGED <<objects, named, touched>> /\ Untouched' = Untouched
  BY DEF ListPrefix, SetSweep, Untouched
<1>4. PICK listing : listing = IF sweep.pos < Len(Prefixes)
                               THEN [sweep EXCEPT !.pos = @ + 1]
                               ELSE [sweep EXCEPT !.step = "report", !.pos = 1, !.known = {}]
  OBVIOUS
<1>5. \/ sweep' = [listing EXCEPT !.orphans = @ \cup unknown]
      \/ \E rest \in SUBSET unknown : /\ sweep.skipped = {}
            /\ sweep' = [listing EXCEPT !.orphans = @ \cup (unknown \ rest), !.skipped = rest]
  BY <1>1, <1>4, Zenon DEF ListPrefix, SetSweep
<1>6. /\ listing.orphans = sweep.orphans /\ listing.skipped = sweep.skipped
      /\ listing.missing = sweep.missing
      /\ sweep.pos < 7 => /\ listing.step = "list" /\ listing.pos = sweep.pos + 1
                          /\ listing.known = sweep.known
      /\ sweep.pos = 7 => listing.step = "report"
      /\ DOMAIN listing = DOMAIN sweep
  BY <1>2, <1>4, Tables DEF Sweeps
<1>7. PICK rest \in SUBSET unknown :
         /\ sweep'.orphans = sweep.orphans \cup (unknown \ rest)
         /\ sweep'.skipped = sweep.skipped \cup rest
         /\ sweep'.missing = sweep.missing /\ sweep'.step = listing.step
         /\ sweep'.pos = listing.pos /\ sweep'.known = listing.known
  <2>. "orphans" \in DOMAIN listing /\ "skipped" \in DOMAIN listing
    BY <1>6 DEF Sweeps
  <2>1. CASE sweep' = [listing EXCEPT !.orphans = @ \cup unknown]
    <3>1. /\ sweep'.orphans = sweep.orphans \cup unknown /\ sweep'.skipped = sweep.skipped
          /\ sweep'.missing = sweep.missing /\ sweep'.step = listing.step
          /\ sweep'.pos = listing.pos /\ sweep'.known = listing.known
      BY <1>6, <2>1 DEF Sweeps
    <3>2. {} \in SUBSET unknown /\ unknown \ {} = unknown /\ sweep.skipped \cup {} = sweep.skipped
      OBVIOUS
    <3>3. QED
      BY <3>1, <3>2, Zenon
  <2>2. ASSUME NEW rest \in SUBSET unknown, sweep.skipped = {},
               sweep' = [listing EXCEPT !.orphans = @ \cup (unknown \ rest), !.skipped = rest]
        PROVE  /\ sweep'.orphans = sweep.orphans \cup (unknown \ rest)
               /\ sweep'.skipped = sweep.skipped \cup rest
               /\ sweep'.missing = sweep.missing /\ sweep'.step = listing.step
               /\ sweep'.pos = listing.pos /\ sweep'.known = listing.known
    BY <1>6, <2>2
  <2>3. QED
    BY <1>5, <2>1, <2>2
<1>8. ASSUME NEW k \in Untouched
      PROVE  /\ k \in sweep.known <=> k \in named
             /\ Exists(k)' /\ Orphan(k)'
             /\ Listed(k)' \/ \E i \in sweep.pos + 1 .. 7 : k \in Prefixes[i]
  <2>1. /\ k \in sweep.known <=> k \in named
        /\ Exists(k) /\ Orphan(k)
        /\ Listed(k) \/ \E i \in sweep.pos .. 7 : k \in Prefixes[i]
    BY <1>2 DEF SweepInv
  <2>2. Exists(k)' /\ Orphan(k)'
    BY <1>1, <1>3, <1>7, <2>1 DEF Exists, Orphan, Checked
  <2>3. CASE Listed(k)
    BY <1>3, <1>7, <2>1, <2>2, <2>3 DEF Listed
  <2>4. ASSUME NEW i \in sweep.pos .. 7, k \in Prefixes[i]
        PROVE  Listed(k)' \/ \E n \in sweep.pos + 1 .. 7 : k \in Prefixes[n]
    <3>1. CASE i = sweep.pos
      BY <1>1, <1>3, <1>7, <2>1, <2>4, <3>1 DEF Listed
    <3>2. CASE i # sweep.pos
      <4>1. i \in sweep.pos + 1 .. 7
        BY <1>2, <2>4, <3>2
      <4>2. QED
        BY <2>4, <4>1
    <3>3. QED
      BY <3>1, <3>2
  <2>5. QED
    BY <2>1, <2>2, <2>3, <2>4
<1>9. CASE sweep.pos < 7
  <2>1. sweep'.step = "list" /\ sweep'.pos = sweep.pos + 1 /\ sweep'.known = sweep.known
    BY <1>6, <1>7, <1>9
  <2>2. sweep'.pos \in 1 .. 7
    BY <1>2, <1>9, <2>1
  <2>3. QED
    BY <1>3, <1>8, <2>1, <2>2 DEF SweepInv
<1>10. CASE sweep.pos = 7
  <2>1. sweep'.step = "report"
    BY <1>6, <1>7, <1>10
  <2>2. \A i \in sweep.pos + 1 .. 7 : FALSE
    BY <1>10
  <2>3. QED
    BY <1>3, <1>8, <2>1, <2>2 DEF SweepInv
<1>11. QED
  BY <1>2, <1>9, <1>10

LEMMA NextExact == TypeInv /\ SweepInv /\ [Next]_vars => SweepInv'
<1> SUFFICES ASSUME TypeInv, SweepInv, [Next]_vars PROVE SweepInv'
  OBVIOUS
<1>. sweep \in Sweeps
  BY DEF TypeInv, StoredTypeOK, Sweeps
<1>1. CASE UNCHANGED vars
  BY <1>1 DEF vars, SweepInv, NothingFound, Collected, Untouched, Exists, Orphan, Listed,
                   Checked
<1>2. ASSUME NEW w \in Workers, WorkerStep(w)
      PROVE  SweepInv'
  <2>1. CASE sweep.step = "idle"
    BY <1>2, <2>1, WorkerCovered DEF SweepInv, NothingFound
  <2>2. CASE sweep.step # "idle"
    BY <1>2, <2>2, WorkerCovered, CoveredExact
  <2>3. QED
    BY <2>1, <2>2
<1>3. CASE SweepStart
  <2>1. UNCHANGED <<objects, named, touched>> /\ sweep.step = "idle"
    BY <1>3 DEF SweepStart
  <2>2. PICK runs : runs = sweep.runs + 1
    OBVIOUS
  <2>3. sweep' = [sweep EXCEPT !.step = "collect", !.runs = runs]
    BY <1>3, <2>2 DEF SweepStart
  <2>4. /\ sweep'.step = "collect" /\ sweep'.pos = 1 /\ sweep'.known = {}
        /\ sweep'.missing = {} /\ sweep'.orphans = {} /\ sweep'.skipped = {}
    BY <2>1, <2>3 DEF SweepInv, NothingFound, Sweeps
  <2>5. \A k \in Untouched' : \E i \in 1 .. 5 : k \in SweptTables[i]
    BY Tables DEF Untouched
  <2>6. QED
    BY <2>4, <2>5 DEF SweepInv, NothingFound, Collected
<1>4. CASE SweepEnd
  BY <1>4 DEF SweepEnd, NoSweep, SweepInv, NothingFound
<1>5. ASSUME NEW k \in sweep.orphans, DeleteOrphan(k)
      PROVE  SweepInv'
  <2>1. sweep' = sweep /\ sweep.step = "report" /\ Covered
    BY <1>5 DEF DeleteOrphan, Touch, Covered
  <2>2. QED
    BY <2>1, CoveredExact
<1>6. QED
  BY <1>1, <1>2, <1>3, <1>4, <1>5, CollectExact, CheckExact, ListExact
     DEF Next, WorkerStep, SweepStep

\* The findings of a sweep are exact for what nobody touched while it ran,
\* but for the avatars, which are in no table it reads, and the Zarr stores,
\* which are never found missing.
THEOREM SweepIsExact == Spec => []SweepExact
<1>1. Init => SweepInv
  BY DEF Init, NoSweep, SweepInv, NothingFound
<1>2. TypeInv /\ SweepInv /\ [Next]_vars => SweepInv'
  BY NextExact
<1>3. SweepInv => SweepExact
  BY DEF SweepInv, SweepExact, Untouched, Exists, Orphan, Listed
<1>4. QED
  BY Types, <1>1, <1>2, <1>3, PTL DEF Spec

=============================================================================
