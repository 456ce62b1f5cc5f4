------------------------ MODULE UploadPipelineProofs ------------------------
(***************************************************************************)
(* Proofs about UploadPipeline, for any number of uploads, requests, parts *)
(* and redeliveries.                                                       *)
(***************************************************************************)
EXTENDS UploadPipeline, TLAPS

-----------------------------------------------------------------------------
(* Types.  A request or a task that is under way has an upload.            *)

BoundJob == {j \in Job : j.op # "idle" => j.up \in Uploads}

BoundRun == {r \in Run : r = NoRun \/ (r.op # "idle" /\ r.up \in Uploads)}

TypeInv ==
    /\ UploadTypeOK
    /\ job \in [Clients -> BoundJob]
    /\ run \in BoundRun

\* The records that requests and the worker start from and end with.
LEMMA FreeTypes == Free \in BoundJob /\ NoRun \in BoundRun
BY DEF Free, Job, JobOps, UploadStatus, NoRun, Run, RunOps, BoundJob, BoundRun

\* The records they build in between.
LEMMA JobTypes ==
    /\ \A op \in JobOps, u \in Uploads : [Free EXCEPT !.op = op, !.up = u] \in BoundJob
    /\ \A op \in JobOps, u \in Uploads, s \in UploadStatus, l \in BOOLEAN :
          [Free EXCEPT !.op = op, !.up = u, !.seen = s, !.linked = l] \in BoundJob
    /\ \A j \in BoundJob, op \in JobOps : j.op # "idle" =>
          /\ j.up \in Uploads
          /\ [j EXCEPT !.op = op] \in BoundJob
          /\ \A d \in BOOLEAN : [j EXCEPT !.op = op, !.drop = d] \in BoundJob
BY FreeTypes DEF Job, BoundJob

\* The worker's.
LEMMA RunTypes ==
    /\ \A u \in Uploads : [NoRun EXCEPT !.op = "ack", !.up = u] \in BoundRun
    /\ \A u \in Uploads, s \in UploadStatus, l \in BOOLEAN :
          [NoRun EXCEPT !.op = "begin", !.up = u, !.seen = s, !.linked = l] \in BoundRun
    /\ \A r \in BoundRun, op \in RunOps \ {"idle"} : r.op # "idle" =>
          /\ r.up \in Uploads
          /\ [r EXCEPT !.op = op] \in BoundRun
          /\ \A w \in BOOLEAN : /\ [r EXCEPT !.op = op, !.wrote = w] \in BoundRun
                               /\ [r EXCEPT !.op = op, !.linked = w] \in BoundRun
<1>1. ASSUME NEW r \in BoundRun, NEW op \in RunOps \ {"idle"}, r.op # "idle"
      PROVE  r.up \in Uploads /\ [r EXCEPT !.op = op] \in BoundRun
  BY <1>1 DEF Run, BoundRun, NoRun
<1>2. ASSUME NEW r \in BoundRun, NEW op \in RunOps \ {"idle"}, r.op # "idle", NEW w \in BOOLEAN
      PROVE  [r EXCEPT !.op = op, !.wrote = w] \in BoundRun
  <2>1. r \in Run /\ r.up \in Uploads
    BY <1>2 DEF BoundRun, NoRun
  <2>2. [r EXCEPT !.op = op, !.wrote = w] \in Run
    BY <2>1 DEF Run
  <2>3. QED
    BY <2>1, <2>2 DEF BoundRun, Run
<1>3. ASSUME NEW r \in BoundRun, NEW op \in RunOps \ {"idle"}, r.op # "idle", NEW w \in BOOLEAN
      PROVE  [r EXCEPT !.op = op, !.linked = w] \in BoundRun
  <2>1. r \in Run /\ r.up \in Uploads
    BY <1>3 DEF BoundRun, NoRun
  <2>2. [r EXCEPT !.op = op, !.linked = w] \in Run
    BY <2>1 DEF Run
  <2>3. QED
    BY <2>1, <2>2 DEF BoundRun, Run
<1>4. ASSUME NEW u \in Uploads
      PROVE  [NoRun EXCEPT !.op = "ack", !.up = u] \in BoundRun
  BY FreeTypes DEF Run, RunOps, BoundRun, NoRun
<1>5. ASSUME NEW u \in Uploads, NEW s \in UploadStatus, NEW l \in BOOLEAN
      PROVE  [NoRun EXCEPT !.op = "begin", !.up = u, !.seen = s, !.linked = l] \in BoundRun
  BY FreeTypes DEF Run, RunOps, BoundRun, NoRun
<1>6. QED
  BY <1>1, <1>2, <1>3, <1>4, <1>5

\* Writing an upload's columns.
LEMMA UploadTypes ==
    ASSUME upload \in [Uploads -> Upload], NEW u \in Uploads,
           NEW s \in UploadStatus, NEW l \in BOOLEAN
    PROVE  /\ [upload EXCEPT ![u].status = s] \in [Uploads -> Upload]
           /\ [upload EXCEPT ![u].linked = l] \in [Uploads -> Upload]
           /\ [upload EXCEPT ![u].status = s, ![u].linked = l] \in [Uploads -> Upload]
           /\ upload[u].status \in UploadStatus
           /\ upload[u].linked \in BOOLEAN
BY DEF Upload

\* Counting a delivery.
LEMMA RestoredTypes ==
    ASSUME TypeInv, run.up \in Uploads, Restored
    PROVE  messages' \subseteq Uploads /\ restored' \in [Uploads -> 0..MaxRestored]
<1>1. restored[run.up] \in 0..MaxRestored /\ restored[run.up] < MaxRestored
  BY DEF TypeInv, UploadTypeOK, Restored
<1>2. restored[run.up] + 1 \in 0..MaxRestored
  BY <1>1, PipelineAssumption
<1>3. QED
  BY <1>2 DEF TypeInv, UploadTypeOK, Restored

\* The initial state, and then every step, one case per action.
LEMMA InitTypes == Init => TypeInv
BY FreeTypes, PipelineAssumption
DEF Init, TypeInv, UploadTypeOK, NoUpload, Upload, UploadStatus, FileStatus, BoundJob, BoundRun

\* The steps of a request.
LEMMA ClientTypes ==
    ASSUME TypeInv, NEW c \in Clients, ClientStep(c)
    PROVE  TypeInv'
<1> USE DEF TypeInv, UploadTypeOK, dbVars, storageVars, brokerVars
<1>0. job[c] \in BoundJob /\ job \in [Clients -> Job] /\ BoundJob \subseteq Job
  BY DEF BoundJob
<1>1. ASSUME NEW u \in Uploads, InitiateStorage(c, u) PROVE TypeInv'
  BY <1>0, <1>1, FreeTypes, JobTypes
  DEF InitiateStorage, SetJob, JobOps
<1>2. ASSUME NEW u \in Uploads, SmallStorage(c, u) PROVE TypeInv'
  BY <1>0, <1>2, FreeTypes, JobTypes
  DEF SmallStorage, SetJob, JobOps
<1>3. ASSUME NEW u \in Uploads, CompleteLoad(c, u) PROVE TypeInv'
  BY <1>0, <1>3, FreeTypes, JobTypes
  DEF CompleteLoad, SetJob, JobOps
<1>4. ASSUME NEW u \in Uploads, CancelLoad(c, u) PROVE TypeInv'
  BY <1>0, <1>4, FreeTypes, JobTypes, UploadTypes
  DEF CancelLoad, SetJob, JobOps, UploadStatus
<1>5. CASE InitiateCommit(c)
  BY <1>0, <1>5, FreeTypes, JobTypes
  DEF InitiateCommit, SetJob, JobOps, Upload, UploadStatus
<1>6. CASE CompleteStorage(c)
  BY <1>0, <1>6, FreeTypes, JobTypes
  DEF CompleteStorage, SetJob, JobOps
<1>7. CASE CompleteCommit(c)
  BY <1>0, <1>7, FreeTypes, JobTypes, UploadTypes
  DEF CompleteCommit, QueueWithFile, SetJob, JobOps, UploadStatus, FileStatus
<1>8. CASE SmallCommit(c)
  BY <1>0, <1>8, FreeTypes, JobTypes, UploadTypes
  DEF SmallCommit, SetJob, JobOps, UploadStatus, FileStatus
<1>9. CASE Dispatch(c)
  BY <1>0, <1>9, FreeTypes, JobTypes
  DEF Dispatch, SetJob, JobOps
<1>10. CASE CancelSession(c)
  BY <1>0, <1>10, FreeTypes, JobTypes
  DEF CancelSession, SetJob, JobOps
<1>11. CASE CancelObject(c)
  BY <1>0, <1>11, FreeTypes, JobTypes
  DEF CancelObject, SetJob, JobOps
<1>12. CASE CancelTask(c)
  BY <1>0, <1>12, FreeTypes, JobTypes
  DEF CancelTask, SetJob, JobOps
<1>13. CASE CancelCommit(c)
  <2>1. job[c].up \in Uploads /\ job' \in [Clients -> BoundJob]
    BY <1>0, <1>13, FreeTypes, JobTypes DEF CancelCommit, SetJob, JobOps
  <2>2. upload' \in [Uploads -> Upload]
    <3>1. upload[job[c].up].linked \in BOOLEAN
      BY <2>1, UploadTypes DEF UploadStatus
    <3>2. \A l \in BOOLEAN : [upload EXCEPT ![job[c].up].status = "cancelled",
                                            ![job[c].up].linked = l] \in [Uploads -> Upload]
      BY <2>1, UploadTypes DEF UploadStatus
    <3>3. QED
      BY <1>13, <3>1, <3>2 DEF CancelCommit, Upload, UploadStatus
  <2>3. file' \in [Uploads -> FileStatus]
    BY <1>13 DEF CancelCommit, CancelRow, FileStatus
  <2>4. QED
    BY <1>0, <1>13, <2>1, <2>2, <2>3 DEF CancelCommit
<1>14. CASE ClientLost(c)
  BY <1>0, <1>14, FreeTypes, JobTypes
  DEF ClientLost, SetJob, JobOps
<1>15. QED
  BY <1>1, <1>2, <1>3, <1>4, <1>5, <1>6, <1>7, <1>8, <1>9, <1>10, <1>11, <1>12, <1>13, <1>14
  DEF ClientStep

\* The steps of the task.
LEMMA TaskTypes ==
    ASSUME TypeInv, TaskStep
    PROVE  TypeInv'
<1> USE DEF TypeInv, UploadTypeOK, dbVars, storageVars, brokerVars
<1>0. run \in BoundRun /\ BoundRun \subseteq Run
  BY DEF BoundRun
<1>1. CASE TaskBegin
  <2>1. run.up \in Uploads /\ run' \in BoundRun
    BY <1>0, <1>1, RunTypes DEF TaskBegin, RunOps, Stages
  <2>2. upload' \in [Uploads -> Upload]
    <3>1. [upload EXCEPT ![run.up].status = "processing"] \in [Uploads -> Upload]
      BY <2>1, UploadTypes DEF UploadStatus
    <3>2. QED
      BY <1>1, <3>1 DEF TaskBegin, SetStatus
  <2>3. QED
    BY <1>0, <1>1, <2>1, <2>2 DEF TaskBegin
<1>2. CASE CheckpointCancelled
  BY <1>0, <1>2, FreeTypes, RunTypes
  DEF CheckpointCancelled, RunOps, Stages
<1>3. CASE Download
  BY <1>0, <1>3, FreeTypes, RunTypes
  DEF Download, RunOps, Stages
<1>4. CASE Convert
  BY <1>0, <1>4, FreeTypes, RunTypes
  DEF Convert, RunOps, Stages
<1>5. CASE PutProcessed
  BY <1>0, <1>5, FreeTypes, RunTypes
  DEF PutProcessed, RunOps, Stages
<1>6. CASE ZarrUploadFailed
  BY <1>0, <1>6, FreeTypes, RunTypes
  DEF ZarrUploadFailed, RunOps, Stages
<1>7. CASE LastCheckpoint
  BY <1>0, <1>7, FreeTypes, RunTypes, UploadTypes
  DEF LastCheckpoint, RunOps, Stages, UploadStatus
<1>8. CASE RegisterCommit
  <2>1. run.up \in Uploads /\ run' \in BoundRun
    BY <1>0, <1>8, RunTypes DEF RegisterCommit, RunOps, Stages
  <2>2. counted' \in [Uploads -> Nat]
    BY <1>8, <2>1 DEF RegisterCommit
  <2>3. file' \in [Uploads -> FileStatus]
    BY <1>8 DEF RegisterCommit, Register, FileStatus
  <2>4. QED
    BY <1>0, <1>8, <2>1, <2>2, <2>3 DEF RegisterCommit
<1>9. CASE Finish
  <2>1. run.up \in Uploads /\ run' \in BoundRun
    BY <1>0, <1>9, RunTypes DEF Finish, RunOps
  <2>2. upload' \in [Uploads -> Upload]
    <3>1. (upload[run.up].linked \/ ~run.linked) \in BOOLEAN
      BY <1>0, <2>1, UploadTypes DEF Run, UploadStatus
    <3>2. \A l \in BOOLEAN : [upload EXCEPT ![run.up].status = "complete",
                                            ![run.up].linked = l] \in [Uploads -> Upload]
      BY <2>1, UploadTypes DEF UploadStatus
    <3>3. QED
      BY <1>9, <3>1, <3>2 DEF Finish, FinishUpload, Upload, UploadStatus
  <2>3. QED
    BY <1>0, <1>9, <2>1, <2>2 DEF Finish
<1>10. CASE Fail
  BY <1>0, <1>10, FreeTypes, RunTypes
  DEF Fail, RunOps, Stages
<1>11. CASE SoftTimeLimit
  BY <1>0, <1>11, FreeTypes, RunTypes
  DEF SoftTimeLimit, RunOps, Stages
<1>12. CASE UndoProcessed
  BY <1>0, <1>12, FreeTypes, RunTypes
  DEF UndoProcessed, RunOps, Stages
<1>13. CASE DropRow
  BY <1>0, <1>13, FreeTypes, RunTypes, UploadTypes
  DEF DropRow, RunOps, Stages, UploadStatus, FileStatus
<1>14. CASE CleanupFails
  BY <1>0, <1>14, FreeTypes, RunTypes
  DEF CleanupFails, RunOps, Stages
<1>15. CASE WriteTerminal
  BY <1>0, <1>15, FreeTypes, RunTypes, UploadTypes
  DEF WriteTerminal, SetStatus, RunOps, Stages, UploadStatus
<1>16. CASE Ack
  BY <1>0, <1>16, FreeTypes, RunTypes
  DEF Ack, RunOps, Stages
<1>17. QED
  BY <1>1, <1>2, <1>3, <1>4, <1>5, <1>6, <1>7, <1>8, <1>9, <1>10, <1>11, <1>12, <1>13, <1>14,
     <1>15, <1>16
  DEF TaskStep

\* The steps of the worker, the broker and the browser.
LEMMA WorkerTypes ==
    ASSUME TypeInv,
           \/ WorkerStep
           \/ \E u \in Uploads : PutPart(u) \/ TaskSkip(u) \/ TaskLoad(u) \/ Discard(u)
    PROVE  TypeInv'
<1> USE DEF TypeInv, UploadTypeOK, dbVars, storageVars, brokerVars
<1>0. run \in BoundRun /\ BoundRun \subseteq Run
  BY DEF BoundRun
<1>1. CASE WorkerLost
  <2>1. run.up \in Uploads
    BY <1>0, <1>1 DEF WorkerLost, BoundRun, NoRun, Run
  <2>2. messages' \subseteq Uploads /\ restored' \in [Uploads -> 0..MaxRestored]
    BY <1>1, <2>1, RestoredTypes DEF WorkerLost
  <2>3. QED
    BY <1>0, <1>1, <2>2, FreeTypes DEF WorkerLost
<1>2. CASE Redeliver
  <2>1. run.up \in Uploads
    BY <1>0, <1>2 DEF Redeliver, BoundRun, NoRun, Run
  <2>2. messages' \subseteq Uploads /\ restored' \in [Uploads -> 0..MaxRestored]
    BY <1>2, <2>1, RestoredTypes DEF Redeliver
  <2>3. QED
    BY <1>0, <1>2, <2>2, FreeTypes DEF Redeliver
<1>3. CASE Killed
  BY <1>0, <1>3, FreeTypes, RunTypes, PipelineAssumption
  DEF Killed, RunOps, Stages
<1>4. CASE Terminated
  BY <1>0, <1>4, FreeTypes, RunTypes, PipelineAssumption
  DEF Terminated, RunOps, Stages
<1>5. ASSUME NEW u \in Uploads, PutPart(u) PROVE TypeInv'
  <2>1. parts[u] + 1 \in 0..TotalParts
    BY <1>5, PipelineAssumption DEF PutPart
  <2>2. parts' \in [Uploads -> 0..TotalParts]
    BY <1>5, <2>1 DEF PutPart
  <2>3. QED
    BY <1>5, <2>2 DEF PutPart
<1>6. ASSUME NEW u \in Uploads, TaskSkip(u) PROVE TypeInv'
  BY <1>0, <1>6, FreeTypes, RunTypes
  DEF TaskSkip, RunOps, Stages
<1>7. ASSUME NEW u \in Uploads, TaskLoad(u) PROVE TypeInv'
  BY <1>0, <1>7, FreeTypes, RunTypes, UploadTypes
  DEF TaskLoad, RunOps, Stages, UploadStatus
<1>8. ASSUME NEW u \in Uploads, Discard(u) PROVE TypeInv'
  BY <1>0, <1>8
  DEF Discard
<1>9. QED
  BY <1>1, <1>2, <1>3, <1>4, <1>5, <1>6, <1>7, <1>8 DEF WorkerStep

-----------------------------------------------------------------------------
(* The inductive invariant                                                 *)

Known(u) == upload[u].status # "absent"

Filed(u) == file[u] # "absent"

\* The multipart session of a known upload is gone, and is never opened again.
Closed(u) == Known(u) /\ u \notin sessions

\* A request that is about to insert a key is alone with it.
NewKeyOK(c) ==
    job[c].op \in {"initiate", "put"} =>
        /\ ~Known(job[c].up)
        /\ \A d \in Clients \ {c} : job[d].up # job[c].up
        /\ job[c].op = "put" => job[c].up \notin sessions

\* What the other requests know of their upload, and that an upload is
\* dispatched by one request.
HeldOK(c) ==
    /\ job[c].op \in {"assemble", "cancel"} => Known(job[c].up)
    /\ job[c].op \in {"assembled", "dispatch", "cancelling"} => Closed(job[c].up)
    /\ job[c].op = "cancel" /\ job[c].seen # "initiated" => Closed(job[c].up)
    /\ job[c].drop => job[c].linked /\ job[c].seen = "queued"
    /\ job[c].op = "dispatch" =>
          /\ Filed(job[c].up)
          /\ \A d \in Clients \ {c} : job[d].op = "dispatch" => job[d].up # job[c].up

KeysOK == \A c \in Clients : NewKeyOK(c) /\ HeldOK(c)

MessagesOK == \A u \in messages : Closed(u) /\ Filed(u)

\* The ingestion has written "processing" and not yet ended.
Working == run.op \in Stages \cup {"finish", "undo", "drop", "dropfail", "cancelled", "failing"}

RunOK ==
    /\ run.op # "idle" => Closed(run.up) /\ Filed(run.up)
    /\ Working \/ (run.op = "begin" /\ run.seen = "processing") =>
          upload[run.up].status \in {"processing", "cancelled"}
    /\ run.op \in {"check", "register", "finish"} => run.up \in processed
    /\ run.op = "finish" =>
          /\ counted[run.up] > 0
          /\ file[run.up] = "ingested" \/ (file[run.up] = "deleted" /\ ~upload[run.up].linked)

\* What the rows and the objects of an upload promise of one another.
RowOK(u) ==
    /\ ~Known(u) => ~Filed(u)
    /\ u \in sessions => upload[u].status \in {"absent", "initiated"}
    /\ upload[u].status = "queued" => FileStored(u)
    /\ upload[u].status = "complete" /\ upload[u].linked => file[u] = "ingested" /\ u \in processed
    /\ counted[u] > 0 => file[u] \in {"ingested", "deleted"}
    /\ file[u] = "ingested" => counted[u] > 0

RowsOK == \A u \in Uploads : RowOK(u)

\* Whoever may still have an upload counted: the request that will dispatch
\* it, its message, and a task that has not registered it.
Dispatching(u) == \E c \in Clients : job[c].op = "dispatch" /\ job[c].up = u

Unregistered(u) == run.op \in Stages \cup {"begin", "undo"} /\ run.up = u

Tokens(u) ==
    (IF Dispatching(u) THEN 1 ELSE 0)
    + (IF u \in messages THEN 1 ELSE 0)
    + (IF Unregistered(u) THEN 1 ELSE 0)

DeliveryOK(u) ==
    /\ counted[u] + Tokens(u) <= 1 + restored[u]
    /\ file[u] = "ingested" /\ restored[u] = 0 => u \in processed

DeliveriesOK == \A u \in Uploads : DeliveryOK(u)

Inv == TypeInv /\ KeysOK /\ MessagesOK /\ RunOK /\ RowsOK /\ DeliveriesOK

-----------------------------------------------------------------------------
(* What the parts of the invariant need of a step.                         *)

\* No step forgets a row, or opens the session of a known upload.
Grows ==
    \A u \in Uploads :
        /\ Known(u) => Known(u)' /\ (u \in sessions' => u \in sessions)
        /\ Filed(u) => Filed(u)'

\* Whoever is at work has an upload.
LEMMA Bound ==
    ASSUME TypeInv
    PROVE  /\ \A c \in Clients : job[c].op # "idle" => job[c].up \in Uploads
           /\ run.op # "idle" => run.up \in Uploads
           /\ NoRun.op = "idle" /\ Free.op = "idle"
BY DEF TypeInv, BoundJob, BoundRun, NoRun, Free

\* A message stays true, and one that is sent must be.
LEMMA MessagesStep ==
    ASSUME Inv, TypeInv', Grows, \A u \in messages' \ messages : Closed(u) /\ Filed(u)
    PROVE  MessagesOK'
<1>1. messages' \subseteq Uploads
  BY DEF TypeInv, UploadTypeOK
<1>2. QED
  BY <1>1 DEF Inv, MessagesOK, Closed, Grows

\* What the other requests know survives a step of c that does not touch a
\* new key of theirs.
LEMMA KeysStep ==
    ASSUME Inv, Grows, NEW c \in Clients, job' = [job EXCEPT ![c] = job'[c]],
           \A d \in Clients \ {c} : job[d].op \in {"initiate", "put"} =>
               /\ job'[c].up # job[d].up
               /\ ~Known(job[d].up)'
               /\ job[d].up \in sessions' => job[d].up \in sessions,
           NewKeyOK(c)' /\ HeldOK(c)'
    PROVE  KeysOK'
<1>1. \A d \in Clients \ {c} : job'[d] = job[d]
  BY DEF Inv, TypeInv, UploadTypeOK
<1>2. \A d \in Clients : job[d].op # "idle" => job[d].up \in Uploads
  BY Bound DEF Inv
<1>3. ASSUME NEW d \in Clients \ {c} PROVE NewKeyOK(d)'
  BY <1>1, <1>2 DEF Inv, KeysOK, NewKeyOK
<1>4. ASSUME NEW d \in Clients \ {c} PROVE HeldOK(d)'
  BY <1>1, <1>2 DEF Inv, KeysOK, HeldOK, Closed, Grows
<1>5. QED
  BY <1>3, <1>4 DEF KeysOK

\* So does what all of them know when the worker writes to uploads that exist.
LEMMA KeysKept ==
    ASSUME Inv, UNCHANGED <<sessions, job>>,
           \A u \in Uploads : Known(u)' = Known(u) /\ (Filed(u) => Filed(u)')
    PROVE  KeysOK'
<1>1. \A c \in Clients : job[c].op # "idle" => job[c].up \in Uploads
  BY Bound DEF Inv
<1>2. QED
  BY <1>1 DEF Inv, KeysOK, NewKeyOK, HeldOK, Closed

\* The counts are numbers.
LEMMA TokensNat == \A u \in Uploads : Tokens(u) \in Nat /\ (Unregistered(u) => Tokens(u) > 0)
BY DEF Tokens

\* An upload is not counted more often by a step that adds no one who may
\* count it, or no more than a delivery.
LEMMA DeliveryStep ==
    ASSUME Inv, TypeInv', NEW u \in Uploads, counted'[u] = counted[u],
           \/ restored'[u] = restored[u] /\ Tokens(u)' <= Tokens(u)
           \/ restored'[u] = restored[u] + 1 /\ Tokens(u)' <= Tokens(u) + 1,
           file'[u] = "ingested" => file[u] = "ingested",
           file[u] = "ingested" /\ restored[u] = 0 /\ u \in processed => u \in processed'
    PROVE  DeliveryOK(u)'
<1>1. counted[u] \in Nat /\ restored[u] \in Nat /\ Tokens(u) \in Nat
  BY TokensNat, PipelineAssumption DEF Inv, TypeInv, UploadTypeOK
<1>2. Tokens(u)' \in Nat
  BY DEF Tokens
<1>3. DeliveryOK(u)
  BY DEF Inv, DeliveriesOK
<1>4. counted'[u] + Tokens(u)' <= 1 + restored'[u]
  BY <1>1, <1>2, <1>3 DEF DeliveryOK
<1>5. file'[u] = "ingested" /\ restored'[u] = 0 => u \in processed'
  BY <1>1, <1>3 DEF DeliveryOK
<1>6. QED
  BY <1>4, <1>5 DEF DeliveryOK

\* A request that is not going to dispatch adds nobody who may count.
LEMMA NoDispatch ==
    ASSUME TypeInv, NEW c \in Clients, job' = [job EXCEPT ![c] = job'[c]],
           job'[c].op # "dispatch"
    PROVE  \A u \in Uploads : Dispatching(u)' => Dispatching(u)
BY DEF TypeInv, UploadTypeOK, Dispatching

-----------------------------------------------------------------------------
(* Steps of the worker and the broker that write no row and no artifact.   *)

\* They keep the invariant if they keep what the worker and the messages
\* know, and those who may count.
LEMMA QuietRun ==
    ASSUME Inv, TypeInv', RunOK', MessagesOK',
           UNCHANGED <<upload, file, counted, sessions, processed, job>>,
           \A u \in Uploads :
               \/ restored'[u] = restored[u] /\ Tokens(u)' <= Tokens(u)
               \/ restored'[u] = restored[u] + 1 /\ Tokens(u)' <= Tokens(u) + 1
    PROVE  Inv'
<1>1. KeysOK'
  BY KeysKept DEF Known, Filed
<1>2. RowsOK'
  BY DEF Inv, RowsOK, RowOK, Known, Filed, FileStored
<1>3. DeliveriesOK'
  BY DeliveryStep DEF DeliveriesOK
<1>4. QED
  BY <1>1, <1>2, <1>3 DEF Inv

\* The task goes on.
LEMMA AdvanceInv ==
    ASSUME Inv, TypeInv',
           \/ CheckpointCancelled
           \/ Download
           \/ Convert
           \/ LastCheckpoint
           \/ Fail
           \/ SoftTimeLimit
           \/ CleanupFails
    PROVE  Inv'
<1> USE DEF CheckpointCancelled, Download, Convert, LastCheckpoint, Fail, SoftTimeLimit,
            CleanupFails, Stages
<1>1. UNCHANGED <<upload, file, counted, sessions, processed, job, messages, restored>>
  BY DEF dbVars, storageVars, brokerVars
<1>2. /\ run.op # "idle" /\ run'.up = run.up
      /\ run.op \in Stages \cup {"undo", "drop", "dropfail"}
      /\ run'.op \in Stages \cup {"undo", "cancelled", "failing", "dropfail"}
      /\ run'.op \in Stages \cup {"undo"} => run.op \in Stages
      /\ run'.op \in {"check", "register"} => run.op = "check"
  BY DEF Inv, TypeInv, BoundRun, Run, NoRun
<1>3. RunOK'
  BY <1>1, <1>2 DEF Inv, RunOK, Working, Closed, Known, Filed
<1>4. MessagesOK'
  BY <1>1, MessagesStep DEF Grows, Known, Filed
<1>5. \A u \in Uploads : Tokens(u)' <= Tokens(u)
  BY <1>1, <1>2 DEF Tokens, Dispatching, Unregistered
<1>6. QED
  BY <1>1, <1>3, <1>4, <1>5, QuietRun

\* The task ends, or goes on as it was, whatever becomes of its message.
LEMMA LeaveInv ==
    ASSUME Inv, TypeInv',
           \/ Ack
           \/ WorkerLost
           \/ Redeliver
           \/ Killed
           \/ Terminated
           \/ \E u \in Uploads : PutPart(u) \/ Discard(u)
    PROVE  Inv'
<1> USE DEF Ack, WorkerLost, Redeliver, Killed, Terminated, PutPart, Discard, Restored
<1>1. UNCHANGED <<upload, file, counted, sessions, processed, job>> /\ run' \in {run, NoRun}
  BY DEF dbVars, storageVars, brokerVars
<1>2. \/ messages' \subseteq messages /\ restored' = restored
      \/ /\ run # NoRun /\ messages' = messages \cup {run.up}
         /\ restored' = [restored EXCEPT ![run.up] = @ + 1]
  BY DEF dbVars, storageVars, brokerVars
<1>3. RunOK'
  BY <1>1, Bound DEF Inv, RunOK, Working, Stages, Closed, Known, Filed, NoRun
<1>4. MessagesOK'
  <2>1. run # NoRun => Closed(run.up) /\ Filed(run.up)
    BY DEF Inv, RunOK, TypeInv, BoundRun
  <2>2. QED
    BY <1>1, <1>2, <2>1, MessagesStep DEF Grows, Known, Filed
<1>5. ASSUME NEW u \in Uploads
      PROVE  \/ restored'[u] = restored[u] /\ Tokens(u)' <= Tokens(u)
             \/ restored'[u] = restored[u] + 1 /\ Tokens(u)' <= Tokens(u) + 1
  <2>1. Dispatching(u)' = Dispatching(u) /\ (Unregistered(u)' => Unregistered(u))
    BY <1>1 DEF Dispatching, Unregistered, NoRun, Stages
  <2>2. restored \in [Uploads -> 0..MaxRestored]
    BY DEF Inv, TypeInv, UploadTypeOK
  <2>3. QED
    BY <1>2, <2>1, <2>2, PipelineAssumption DEF Tokens
<1>6. QED
  BY <1>1, <1>3, <1>4, <1>5, QuietRun

\* The worker takes a message.
LEMMA TakeInv ==
    ASSUME Inv, TypeInv', NEW u \in Uploads, TaskSkip(u) \/ TaskLoad(u)
    PROVE  Inv'
<1> USE DEF TaskSkip, TaskLoad, NoRun
<1>1. /\ UNCHANGED <<upload, file, counted, sessions, processed, job, restored>>
      /\ run = NoRun /\ u \in messages /\ messages' = messages \ {u}
      /\ run'.op \in {"ack", "begin"} /\ run'.up = u
      /\ run'.op = "begin" => ~Cancelled(u) /\ run'.seen = upload[u].status
  BY DEF dbVars, storageVars, brokerVars
<1>2. RunOK'
  BY <1>1 DEF Inv, MessagesOK, RunOK, Working, Stages, Closed, Known, Filed
<1>3. MessagesOK'
  BY <1>1, MessagesStep DEF Grows, Known, Filed
<1>4. \A v \in Uploads : Tokens(v)' <= Tokens(v)
  BY <1>1 DEF Tokens, Dispatching, Unregistered, Stages
<1>5. QED
  BY <1>1, <1>2, <1>3, <1>4, QuietRun

-----------------------------------------------------------------------------
(* Steps of the task that write rows or artifacts.                         *)

\* They write those of the task's upload only.
LEMMA TaskWrite ==
    ASSUME Inv, TypeInv', RunOK', run.op # "idle", run'.up = run.up,
           UNCHANGED <<sessions, messages, restored, job>>,
           Known(run.up)' /\ Filed(run.up)',
           \A u \in Uploads \ {run.up} :
               /\ upload'[u] = upload[u] /\ file'[u] = file[u] /\ counted'[u] = counted[u]
               /\ u \in processed' <=> u \in processed,
           RowOK(run.up)' /\ DeliveryOK(run.up)'
    PROVE  Inv'
<1>1. run.up \in Uploads /\ Known(run.up) /\ Filed(run.up)
  BY Bound DEF Inv, RunOK, Closed
<1>2. \A u \in Uploads : Known(u)' = Known(u) /\ (Filed(u) => Filed(u)')
  BY <1>1 DEF Known, Filed
<1>3. KeysOK' /\ MessagesOK'
  BY <1>2, KeysKept, MessagesStep DEF Grows
<1>4. RowsOK'
  BY DEF Inv, RowsOK, RowOK, Known, Filed, FileStored
<1>5. ASSUME NEW u \in Uploads, u # run.up PROVE DeliveryOK(u)'
  <2>1. Tokens(u)' = Tokens(u)
    BY <1>5 DEF Tokens, Dispatching, Unregistered
  <2>2. Tokens(u)' <= Tokens(u)
    BY <2>1, TokensNat
  <2>3. QED
    BY <1>5, <2>2, DeliveryStep
<1>6. QED
  BY <1>3, <1>4, <1>5 DEF Inv, DeliveriesOK

\* The state of the upload that a task is at work on.
LEMMA AtWork ==
    ASSUME Inv, run.op # "idle"
    PROVE  /\ run.up \in Uploads /\ Closed(run.up) /\ Filed(run.up)
           /\ RowOK(run.up) /\ DeliveryOK(run.up)
           /\ upload[run.up] \in Upload /\ file[run.up] \in FileStatus
           /\ counted[run.up] \in Nat /\ restored[run.up] \in Nat /\ Tokens(run.up) \in Nat
           /\ run \in Run
BY Bound, TokensNat, PipelineAssumption
DEF Inv, TypeInv, UploadTypeOK, RunOK, RowsOK, DeliveriesOK

\* The task writes "processing" over whatever the status has become.
LEMMA TaskBeginInv == ASSUME Inv, TypeInv', TaskBegin PROVE Inv'
<1> USE DEF TaskBegin, SetStatus, dbVars, storageVars, brokerVars
<1> DEFINE w == run.up
<1>1. /\ run.op = "begin" /\ run'.op = "download" /\ run'.up = w
      /\ UNCHANGED <<file, counted, sessions, processed, messages, restored, job>>
      /\ \A u \in Uploads \ {w} : upload'[u] = upload[u]
      /\ upload'[w].status = "processing" \/ (run.seen = "processing" /\ upload' = upload)
      /\ upload'[w].linked = upload[w].linked
  <2>1. CASE run.seen = "processing"
    BY <2>1, AtWork DEF Run
  <2>2. CASE run.seen # "processing"
    BY <2>2, AtWork DEF Run, Upload, TypeInv, UploadTypeOK, Inv
  <2>3. QED
    BY <2>1, <2>2
<1>2. RunOK' /\ Known(w)' /\ Filed(w)'
  BY <1>1, AtWork DEF Inv, RunOK, Working, Stages, Closed, Known, Filed
<1>3. RowOK(w)'
  BY <1>1, AtWork DEF Inv, RunOK, RowOK, Known, Filed, Closed
<1>4. DeliveryOK(w)'
  <2>1. Tokens(w)' <= Tokens(w)
    BY <1>1 DEF Tokens, Dispatching, Unregistered
  <2>2. QED
    BY <1>1, <2>1, AtWork, DeliveryStep
<1>5. QED
  BY <1>1, <1>2, <1>3, <1>4, TaskWrite

\* The artifact is stored before anything names it.
LEMMA PutProcessedInv == ASSUME Inv, TypeInv', PutProcessed PROVE Inv'
<1> USE DEF PutProcessed, dbVars, storageVars, brokerVars
<1> DEFINE w == run.up
<1>1. /\ run.op = "put" /\ run'.op = "check" /\ run'.up = w
      /\ UNCHANGED <<upload, file, counted, sessions, messages, restored, job>>
      /\ processed' = processed \cup {w}
  BY AtWork DEF Run
<1>2. RunOK' /\ Known(w)' /\ Filed(w)'
  BY <1>1, AtWork DEF Inv, RunOK, Working, Stages, Closed, Known, Filed
<1>3. RowOK(w)'
  BY <1>1, AtWork DEF RowOK, Known, Filed, FileStored
<1>4. DeliveryOK(w)'
  <2>1. Tokens(w)' <= Tokens(w)
    BY <1>1 DEF Tokens, Dispatching, Unregistered, Stages
  <2>2. QED
    BY <1>1, <2>1, AtWork, DeliveryStep
<1>5. QED
  BY <1>1, <1>2, <1>3, <1>4, TaskWrite

\* An artifact is deleted by a task that has not registered it, so the file
\* was ingested only if the task was delivered before.
LEMMA DropArtifact ==
    ASSUME Inv, TypeInv', RunOK', run.op \in {"put", "undo"}, run'.up = run.up,
           run'.op \in {"dropfail", "drop"},
           UNCHANGED <<upload, file, counted, sessions, messages, restored, job>>,
           \A u \in Uploads \ {run.up} : u \in processed' <=> u \in processed
    PROVE  Inv'
<1>1. upload[run.up].status \in {"processing", "cancelled"}
  BY DEF Inv, RunOK, Working, Stages
<1>2. RowOK(run.up)' /\ Known(run.up)' /\ Filed(run.up)'
  BY <1>1, AtWork DEF RowOK, Known, Filed, FileStored, Closed
<1>3. DeliveryOK(run.up)'
  <2>1. Tokens(run.up)' <= Tokens(run.up) /\ Unregistered(run.up)
    BY DEF Tokens, Dispatching, Unregistered, Stages
  <2>2. ~(file[run.up] = "ingested" /\ restored[run.up] = 0)
    BY <2>1, AtWork, TokensNat DEF RowOK, DeliveryOK
  <2>3. QED
    BY <2>1, <2>2, AtWork, DeliveryStep
<1>4. QED
  BY <1>2, <1>3, TaskWrite

\* A store that was written in part is deleted.
LEMMA ZarrUploadFailedInv == ASSUME Inv, TypeInv', ZarrUploadFailed PROVE Inv'
<1>1. /\ run.op = "put" /\ run'.op = "dropfail" /\ run'.up = run.up
      /\ UNCHANGED <<upload, file, counted, sessions, messages, restored, job>>
      /\ processed' = processed \ {run.up}
  BY AtWork DEF ZarrUploadFailed, Run, dbVars, brokerVars
<1>2. RunOK'
  BY <1>1, AtWork DEF Inv, RunOK, Working, Stages, Closed, Known, Filed
<1>3. QED
  BY <1>1, <1>2, DropArtifact

\* A cancelled task deletes what it stored.
LEMMA UndoProcessedInv == ASSUME Inv, TypeInv', UndoProcessed PROVE Inv'
<1>1. /\ run.op = "undo" /\ run'.op = "drop" /\ run'.up = run.up
      /\ UNCHANGED <<upload, file, counted, sessions, messages, restored, job>>
      /\ processed' \in {processed, processed \ {run.up}}
  BY AtWork DEF UndoProcessed, Run, dbVars, brokerVars
<1>2. RunOK'
  BY <1>1, AtWork DEF Inv, RunOK, Working, Stages, Closed, Known, Filed
<1>3. QED
  BY <1>1, <1>2, DropArtifact

\* The task gives up its right to have the file counted, and counts it.
LEMMA RegisterCommitInv == ASSUME Inv, TypeInv', RegisterCommit PROVE Inv'
<1> USE DEF RegisterCommit, Register, dbVars, storageVars, brokerVars
<1> DEFINE w == run.up
<1>1. /\ run.op = "register" /\ run'.op = "finish" /\ run'.up = w
      /\ UNCHANGED <<upload, sessions, processed, messages, restored, job>>
      /\ file'[w] = "ingested" /\ counted'[w] = counted[w] + 1
      /\ \A u \in Uploads \ {w} : file'[u] = file[u] /\ counted'[u] = counted[u]
  BY AtWork DEF Inv, TypeInv, UploadTypeOK, Run
<1>2. w \in processed /\ upload[w].status \in {"processing", "cancelled"}
  BY <1>1 DEF Inv, RunOK, Working, Stages
<1>3. RunOK' /\ Known(w)' /\ Filed(w)'
  BY <1>1, <1>2, AtWork DEF RunOK, Working, Stages, Closed, Known, Filed
<1>4. RowOK(w)'
  BY <1>1, <1>2, AtWork DEF RowOK, Known, Filed, Closed
<1>5. DeliveryOK(w)'
  <2>1. Tokens(w)' = Tokens(w) - 1
    BY <1>1 DEF Tokens, Dispatching, Unregistered, Stages
  <2>2. counted'[w] + Tokens(w)' = counted[w] + Tokens(w)
    BY <1>1, <2>1, AtWork
  <2>3. QED
    BY <1>1, <1>2, <2>2, AtWork DEF DeliveryOK
<1>6. QED
  BY <1>1, <1>3, <1>4, <1>5, TaskWrite

\* What the task knows when it writes "complete" is what the property says.
LEMMA FinishInv == ASSUME Inv, TypeInv', Finish PROVE Inv'
<1> USE DEF Finish, FinishUpload, dbVars, storageVars, brokerVars
<1> DEFINE w == run.up
<1>1. /\ run.op = "finish" /\ run'.op = "ack" /\ run'.up = w
      /\ UNCHANGED <<file, counted, sessions, processed, messages, restored, job>>
      /\ \A u \in Uploads \ {w} : upload'[u] = upload[u]
      /\ upload'[w].status = "complete"
      /\ upload'[w].linked => upload[w].linked \/ FileStored(w)
  BY AtWork DEF Inv, TypeInv, UploadTypeOK, Run, Upload
<1>2. RunOK' /\ Known(w)' /\ Filed(w)'
  BY <1>1, AtWork DEF RunOK, Working, Stages, Closed, Known, Filed
<1>3. RowOK(w)'
  <2>1. /\ w \in processed /\ counted[w] > 0
        /\ file[w] = "ingested" \/ (file[w] = "deleted" /\ ~upload[w].linked)
    BY <1>1 DEF Inv, RunOK
  <2>2. QED
    BY <1>1, <2>1, AtWork DEF RowOK, Known, Filed, FileStored, Closed
<1>4. DeliveryOK(w)'
  <2>1. Tokens(w)' <= Tokens(w)
    BY <1>1 DEF Tokens, Dispatching, Unregistered, Stages
  <2>2. QED
    BY <1>1, <2>1, AtWork, DeliveryStep
<1>5. QED
  BY <1>1, <1>2, <1>3, <1>4, TaskWrite

\* The clean-up deletes the file of an upload that is not complete.
LEMMA DropRowInv == ASSUME Inv, TypeInv', DropRow PROVE Inv'
<1> USE DEF DropRow, dbVars, storageVars, brokerVars
<1> DEFINE w == run.up
<1>1. /\ run.op \in {"drop", "dropfail"} /\ run'.op \in {"cancelled", "failing"} /\ run'.up = w
      /\ UNCHANGED <<counted, sessions, processed, messages, restored, job>>
      /\ \A u \in Uploads \ {w} : upload'[u] = upload[u] /\ file'[u] = file[u]
      /\ upload'[w].status = upload[w].status /\ ~upload'[w].linked /\ file'[w] = "deleted"
  BY AtWork DEF Inv, TypeInv, UploadTypeOK, Run, Upload
<1>2. upload[w].status \in {"processing", "cancelled"}
  BY <1>1 DEF Inv, RunOK, Working
<1>3. RunOK' /\ Known(w)' /\ Filed(w)'
  BY <1>1, <1>2, AtWork DEF RunOK, Working, Stages, Closed, Known, Filed
<1>4. RowOK(w)'
  BY <1>1, <1>2, AtWork DEF RowOK, Known, Filed, Closed
<1>5. DeliveryOK(w)'
  <2>1. Tokens(w)' <= Tokens(w)
    BY <1>1 DEF Tokens, Dispatching, Unregistered, Stages
  <2>2. QED
    BY <1>1, <2>1, AtWork, DeliveryStep
<1>6. QED
  BY <1>1, <1>3, <1>4, <1>5, TaskWrite

\* "failed" and "cancelled" ask for nothing.
LEMMA WriteTerminalInv == ASSUME Inv, TypeInv', WriteTerminal PROVE Inv'
<1> USE DEF WriteTerminal, SetStatus, dbVars, storageVars, brokerVars
<1> DEFINE w == run.up
<1>1. /\ run.op \in {"cancelled", "failing"} /\ run'.op = "ack" /\ run'.up = w
      /\ UNCHANGED <<file, counted, sessions, processed, messages, restored, job>>
      /\ \A u \in Uploads \ {w} : upload'[u] = upload[u]
      /\ upload'[w].status \in {"cancelled", "failed"}
  BY AtWork DEF Inv, TypeInv, UploadTypeOK, Run, Upload
<1>2. RunOK' /\ Known(w)' /\ Filed(w)'
  BY <1>1, AtWork DEF RunOK, Working, Stages, Closed, Known, Filed
<1>3. RowOK(w)'
  BY <1>1, AtWork DEF RowOK, Known, Filed, Closed
<1>4. DeliveryOK(w)'
  <2>1. Tokens(w)' <= Tokens(w)
    BY <1>1 DEF Tokens, Dispatching, Unregistered, Stages
  <2>2. QED
    BY <1>1, <2>1, AtWork, DeliveryStep
<1>5. QED
  BY <1>1, <1>2, <1>3, <1>4, TaskWrite

-----------------------------------------------------------------------------
(* Steps of requests that write no row.                                    *)

\* They keep the invariant if they keep what the request and the messages
\* know, and those who may count.
LEMMA QuietJob ==
    ASSUME Inv, TypeInv', NEW c \in Clients, job' = [job EXCEPT ![c] = job'[c]],
           UNCHANGED <<upload, file, counted, processed, restored, run>>,
           \A u \in Uploads : Known(u) /\ u \in sessions' => u \in sessions,
           \A d \in Clients \ {c} : job[d].op \in {"initiate", "put"} =>
               /\ job'[c].up # job[d].up
               /\ job[d].up \in sessions' => job[d].up \in sessions,
           NewKeyOK(c)' /\ HeldOK(c)',
           \A u \in sessions' : upload[u].status \in {"absent", "initiated"},
           \A u \in messages' \ messages : Closed(u) /\ Filed(u),
           \A u \in Uploads : Tokens(u)' <= Tokens(u)
    PROVE  Inv'
<1>1. Grows
  BY DEF Grows, Known, Filed
<1>2. KeysOK'
  <2>1. \A d \in Clients \ {c} : job[d].op \in {"initiate", "put"} => ~Known(job[d].up)'
    BY DEF Inv, TypeInv, UploadTypeOK, KeysOK, NewKeyOK, Known
  <2>2. QED
    BY <1>1, <2>1, KeysStep
<1>3. MessagesOK'
  BY <1>1, MessagesStep
<1>4. RunOK'
  <2>1. Closed(run.up) /\ run.up \in Uploads => Closed(run.up)'
    BY DEF Closed, Known
  <2>2. QED
    BY <2>1, Bound DEF Inv, RunOK, Working, Filed
<1>5. RowsOK'
  BY DEF Inv, RowsOK, RowOK, Known, Filed, FileStored
<1>6. DeliveriesOK'
  BY DeliveryStep DEF DeliveriesOK
<1>7. QED
  BY <1>2, <1>3, <1>4, <1>5, <1>6 DEF Inv

\* A request takes a new key, which nobody else has.
LEMMA NewKeyInv ==
    ASSUME Inv, TypeInv', NEW c \in Clients, NEW u \in Uploads,
           InitiateStorage(c, u) \/ SmallStorage(c, u)
    PROVE  Inv'
<1> USE DEF InitiateStorage, SmallStorage, SetJob
<1>1. /\ UNCHANGED <<upload, file, counted, processed, restored, messages, run>>
      /\ Fresh(u) /\ job' = [job EXCEPT ![c] = job'[c]]
      /\ job'[c].op \in {"initiate", "put"} /\ job'[c].up = u /\ ~job'[c].drop
      /\ sessions' = sessions \/ (sessions' = sessions \cup {u} /\ job'[c].op = "initiate")
  BY DEF dbVars, storageVars, brokerVars, Free, Inv, TypeInv, UploadTypeOK
<1>2. \A d \in Clients \ {c} : job'[d] = job[d] /\ job[d].up # u
  BY <1>1 DEF Fresh, Inv, TypeInv, UploadTypeOK
<1>3. NewKeyOK(c)' /\ HeldOK(c)'
  BY <1>1, <1>2 DEF NewKeyOK, HeldOK, Known, Fresh
<1>4. ASSUME NEW v \in Uploads PROVE Tokens(v)' <= Tokens(v)
  BY <1>1, NoDispatch DEF Tokens, Unregistered, Inv
<1>5. \A v \in sessions' : upload[v].status \in {"absent", "initiated"}
  BY <1>1 DEF Inv, RowsOK, RowOK, Fresh, TypeInv, UploadTypeOK
<1>6. QED
  BY <1>1, <1>2, <1>3, <1>4, <1>5, QuietJob DEF Fresh, Known

\* A request loads an upload.
LEMMA LoadInv ==
    ASSUME Inv, TypeInv', NEW c \in Clients, NEW u \in Uploads,
           CompleteLoad(c, u) \/ CancelLoad(c, u)
    PROVE  Inv'
<1> USE DEF CompleteLoad, CancelLoad, SetJob
<1>1. /\ UNCHANGED <<upload, file, counted, processed, sessions, restored, messages, run>>
      /\ Known(u) /\ job' = [job EXCEPT ![c] = job'[c]]
      /\ job'[c].op \in {"assemble", "cancel"} /\ job'[c].up = u /\ ~job'[c].drop
      /\ job'[c].op = "cancel" => job'[c].seen = upload[u].status
  BY DEF dbVars, storageVars, brokerVars, Free, Known, Inv, TypeInv, UploadTypeOK
<1>2. \A v \in sessions : upload[v].status \in {"absent", "initiated"}
  BY DEF Inv, RowsOK, RowOK, TypeInv, UploadTypeOK
<1>3. NewKeyOK(c)' /\ HeldOK(c)'
  BY <1>1, <1>2 DEF NewKeyOK, HeldOK, Known, Closed
<1>4. ASSUME NEW v \in Uploads PROVE Tokens(v)' <= Tokens(v)
  BY <1>1, NoDispatch DEF Tokens, Unregistered, Inv
<1>5. \A d \in Clients \ {c} : job[d].op \in {"initiate", "put"} => job[d].up # u
  BY <1>1 DEF Inv, KeysOK, NewKeyOK
<1>6. QED
  BY <1>1, <1>2, <1>3, <1>4, <1>5, QuietJob

\* A request calls storage or the broker, or ends.
LEMMA StorageInv ==
    ASSUME Inv, TypeInv', NEW c \in Clients,
           \/ CompleteStorage(c)
           \/ CancelSession(c)
           \/ CancelObject(c)
           \/ CancelTask(c)
           \/ ClientLost(c)
    PROVE  Inv'
<1> USE DEF CompleteStorage, CancelSession, CancelObject, CancelTask, ClientLost, SetJob
<1>1. /\ UNCHANGED <<upload, file, counted, processed, restored, messages, run>>
      /\ sessions' \subseteq sessions /\ job' = [job EXCEPT ![c] = job'[c]]
  BY DEF dbVars, storageVars, brokerVars, Inv, TypeInv, UploadTypeOK
<1>2. \/ job'[c] = Free
      \/ /\ job[c].op \in {"assemble", "cancel"} /\ job'[c].op \in {"assembled", "cancelling"}
         /\ job'[c].up = job[c].up /\ job'[c].linked = job[c].linked /\ job'[c].seen = job[c].seen
         /\ job[c].up \notin sessions' \/ (job[c].op = "cancel" /\ job[c].seen # "initiated")
         /\ job'[c].drop => job[c].drop \/ (job[c].linked /\ job[c].seen = "queued")
  <2>1. job[c] \in Job /\ job \in [Clients -> Job]
    BY DEF Inv, TypeInv, UploadTypeOK
  <2>2. CASE CompleteStorage(c)
    BY <2>1, <2>2 DEF Job
  <2>3. CASE CancelSession(c)
    BY <2>1, <2>3 DEF Job
  <2>4. CASE CancelObject(c)
    BY <2>1, <2>4 DEF Job
  <2>5. CASE CancelTask(c)
    BY <2>1, <2>5 DEF Job
  <2>6. CASE ClientLost(c)
    BY <2>1, <2>6
  <2>7. QED
    BY <2>2, <2>3, <2>4, <2>5, <2>6
<1>3. NewKeyOK(c)' /\ HeldOK(c)'
  <2>1. job[c].op \in {"assemble", "cancel"} => Known(job[c].up)
    BY DEF Inv, KeysOK, HeldOK
  <2>2. job[c].op = "cancel" /\ job[c].seen # "initiated" => Closed(job[c].up)
    BY DEF Inv, KeysOK, HeldOK
  <2>3. job[c].drop => job[c].linked /\ job[c].seen = "queued"
    BY DEF Inv, KeysOK, HeldOK
  <2>4. QED
    BY <1>1, <1>2, <2>1, <2>2, <2>3 DEF NewKeyOK, HeldOK, Known, Closed, Free
<1>4. ASSUME NEW v \in Uploads PROVE Tokens(v)' <= Tokens(v)
  BY <1>1, <1>2, NoDispatch DEF Tokens, Unregistered, Inv, Free
<1>5. ASSUME NEW d \in Clients \ {c}, job[d].op \in {"initiate", "put"}
      PROVE  job'[c].up # job[d].up
  BY <1>2, <1>5, Bound, PipelineAssumption DEF Inv, KeysOK, NewKeyOK, Free
<1>6. \A v \in sessions : upload[v].status \in {"absent", "initiated"}
  BY DEF Inv, RowsOK, RowOK, TypeInv, UploadTypeOK
<1>7. QED
  BY <1>1, <1>3, <1>4, <1>5, <1>6, QuietJob

\* The right to have the upload counted passes from the request to the message.
LEMMA DispatchInv ==
    ASSUME Inv, TypeInv', NEW c \in Clients, Dispatch(c)
    PROVE  Inv'
<1> USE DEF Dispatch, SetJob
<1> PICK w \in Uploads : w = job[c].up
  BY Bound DEF Inv
<1>1. /\ UNCHANGED <<upload, file, counted, sessions, processed, restored, run>>
      /\ job[c].op = "dispatch" /\ job' = [job EXCEPT ![c] = job'[c]] /\ job'[c] = Free
      /\ messages' = messages \cup {w}
  BY DEF dbVars, storageVars, Inv, TypeInv, UploadTypeOK
<1>2. w \in Uploads /\ Closed(w) /\ Filed(w)
  BY <1>1, Bound DEF Inv, KeysOK, HeldOK
<1>3. NewKeyOK(c)' /\ HeldOK(c)'
  BY <1>1 DEF NewKeyOK, HeldOK, Free
<1>4. \A d \in Clients \ {c} : job[d].op \in {"initiate", "put"} => job'[c].up # job[d].up
  BY <1>1, Bound, PipelineAssumption DEF Free, Inv
<1>5. ASSUME NEW u \in Uploads PROVE Tokens(u)' <= Tokens(u)
  <2>1. Dispatching(u)' => Dispatching(u)
    <3>1. job'[c].op # "dispatch"
      BY <1>1 DEF Free
    <3>2. QED
      BY <1>1, <3>1, NoDispatch DEF Inv
  <2>2. Dispatching(w) /\ ~Dispatching(w)'
    BY <1>1 DEF Dispatching, Inv, KeysOK, HeldOK, Free, TypeInv, UploadTypeOK
  <2>3. QED
    BY <1>1, <2>1, <2>2 DEF Tokens, Unregistered
<1>6. \A u \in sessions : upload[u].status \in {"absent", "initiated"}
  BY DEF Inv, RowsOK, RowOK, TypeInv, UploadTypeOK
<1>7. QED
  BY <1>1, <1>2, <1>3, <1>4, <1>5, <1>6, QuietJob

-----------------------------------------------------------------------------
(* The commits of requests.                                                *)

\* They write the rows of the request's upload only.
LEMMA ClientWrite ==
    ASSUME Inv, TypeInv', NEW c \in Clients, job' = [job EXCEPT ![c] = job'[c]],
           NEW w \in Uploads, job[c].up = w, job[c].op # "idle", job'[c].up \in {None, w},
           UNCHANGED <<counted, sessions, processed, messages, restored, run>>,
           \A u \in Uploads \ {w} : upload'[u] = upload[u] /\ file'[u] = file[u],
           Known(w)', Filed(w) => Filed(w)',
           NewKeyOK(c)' /\ HeldOK(c)', RunOK',
           RowOK(w)' /\ DeliveryOK(w)',
           job'[c].op = "dispatch" => job'[c].up = w
    PROVE  Inv'
<1>2. Grows
  BY DEF Grows, Known, Filed
<1>3. KeysOK'
  <2>1. ASSUME NEW d \in Clients \ {c}, job[d].op \in {"initiate", "put"}
        PROVE  job'[c].up # job[d].up /\ ~Known(job[d].up)'
    <3>1. job[d].up \in Uploads \ {w} /\ ~Known(job[d].up)
      BY <2>1, Bound DEF Inv, KeysOK, NewKeyOK
    <3>2. QED
      BY <2>1, <3>1, PipelineAssumption DEF Known, Inv, TypeInv, UploadTypeOK
  <2>2. QED
    BY <1>2, <2>1, KeysStep
<1>4. MessagesOK'
  BY <1>2, MessagesStep
<1>5. RowsOK'
  BY DEF Inv, RowsOK, RowOK, Known, Filed, FileStored
<1>6. ASSUME NEW u \in Uploads, u # w PROVE DeliveryOK(u)'
  <2>1. Dispatching(u)' => Dispatching(u)
    BY <1>6 DEF Inv, TypeInv, UploadTypeOK, Dispatching
  <2>2. Tokens(u)' <= Tokens(u)
    BY <2>1 DEF Tokens, Unregistered
  <2>3. QED
    BY <1>6, <2>2, DeliveryStep
<1>7. QED
  BY <1>3, <1>4, <1>5, <1>6 DEF Inv, DeliveriesOK

\* A new upload: nobody else knows its key.
LEMMA InitiateCommitInv == ASSUME Inv, TypeInv', NEW c \in Clients, InitiateCommit(c) PROVE Inv'
<1> USE DEF InitiateCommit, SetJob
<1> PICK w \in Uploads : w = job[c].up
  BY Bound DEF Inv
<1>1. /\ UNCHANGED <<file, counted, sessions, processed, messages, restored, run>>
      /\ job[c].op = "initiate" /\ job' = [job EXCEPT ![c] = job'[c]] /\ job'[c] = Free
      /\ \A u \in Uploads \ {w} : upload'[u] = upload[u]
  BY DEF storageVars, brokerVars, Inv, TypeInv, UploadTypeOK
<1>2. w \in Uploads /\ ~Known(w) /\ ~Filed(w)
  BY <1>1, Bound DEF Inv, KeysOK, NewKeyOK, RowsOK, RowOK
<1>3. upload'[w].status = "initiated"
  BY <1>2 DEF Inv, TypeInv, UploadTypeOK
<1>4. RunOK'
  BY <1>1, <1>2, <1>3, Bound DEF Inv, RunOK, Working, Stages, Closed, Known, Filed
<1>5. RowOK(w)'
  BY <1>1, <1>2, <1>3 DEF Inv, RowsOK, RowOK, Known, Filed
<1>6. DeliveryOK(w)'
  <2>1. Tokens(w)' <= Tokens(w)
    <3>1. job'[c].op # "dispatch"
      BY <1>1 DEF Free
    <3>2. Dispatching(w)' => Dispatching(w)
      BY <1>1, <3>1, NoDispatch DEF Inv
    <3>3. QED
      BY <1>1, <3>2 DEF Tokens, Unregistered
  <2>2. QED
    BY <1>1, <1>2, <2>1, DeliveryStep
<1>7. NewKeyOK(c)' /\ HeldOK(c)' /\ job'[c].up = None /\ job'[c].op = "idle"
  BY <1>1 DEF NewKeyOK, HeldOK, Free
<1>8. Known(w)' /\ (Filed(w) => Filed(w)')
  BY <1>1, <1>3 DEF Known, Filed
<1>9. QED
  BY <1>1, <1>4, <1>5, <1>6, <1>7, <1>8, ClientWrite

\* A new file: nobody has counted it, and only c may dispatch it.
LEMMA QueueInv ==
    ASSUME Inv, TypeInv', NEW c \in Clients, CompleteCommit(c) \/ SmallCommit(c)
    PROVE  Inv'
<1> USE DEF CompleteCommit, SmallCommit, QueueWithFile, SetJob
<1> PICK w \in Uploads : w = job[c].up
  BY Bound DEF Inv
<1>1. /\ UNCHANGED <<counted, sessions, processed, messages, restored, run>>
      /\ job[c].op \in {"assembled", "put"} /\ job' = [job EXCEPT ![c] = job'[c]]
      /\ job'[c].op = "dispatch" /\ job'[c].up = w /\ ~job'[c].drop
      /\ \A u \in Uploads \ {w} : upload'[u] = upload[u] /\ file'[u] = file[u]
  <2>1. /\ job \in [Clients -> Job]
        /\ upload \in [Uploads -> Upload] /\ file \in [Uploads -> FileStatus]
    BY DEF Inv, TypeInv, UploadTypeOK
  <2>2. CASE CompleteCommit(c)
    BY <2>1, <2>2 DEF storageVars, brokerVars, Free
  <2>3. CASE SmallCommit(c)
    BY <2>1, <2>3 DEF storageVars, brokerVars, Free
  <2>4. QED
    BY <2>2, <2>3
<1>2. w \in Uploads /\ ~Filed(w) /\ w \notin sessions
  BY <1>1, Bound DEF Inv, KeysOK, NewKeyOK, HeldOK, Closed, RowsOK, RowOK, Filed
<1>3. upload'[w].status = "queued" /\ file'[w] = "stored"
  BY <1>2 DEF Inv, TypeInv, UploadTypeOK, Upload
<1>4. w \notin messages /\ ~Dispatching(w) /\ (run.op # "idle" => run.up # w) /\ counted[w] = 0
  <2>1. counted[w] \in Nat
    BY <1>2 DEF Inv, TypeInv, UploadTypeOK
  <2>2. QED
    BY <1>2, <2>1 DEF Inv, MessagesOK, KeysOK, HeldOK, Dispatching, RunOK, RowsOK, RowOK, Filed
<1>5. NewKeyOK(c)' /\ HeldOK(c)'
  <2>1. \A d \in Clients \ {c} : job'[d].op = "dispatch" => job'[d].up # w
    BY <1>1, <1>4 DEF Dispatching, Inv, TypeInv, UploadTypeOK
  <2>2. QED
    BY <1>1, <1>2, <1>3, <2>1 DEF NewKeyOK, HeldOK, Closed, Known, Filed
<1>6. RunOK'
  BY <1>1, <1>4, Bound DEF Inv, RunOK, Working, Stages, Closed, Known, Filed
<1>7. RowOK(w)'
  BY <1>1, <1>2, <1>3, <1>4 DEF RowOK, Known, Filed, FileStored
<1>8. DeliveryOK(w)'
  <2>1. Tokens(w)' <= 1
    BY <1>1, <1>4 DEF Tokens, Unregistered, Stages
  <2>2. restored'[w] \in Nat /\ counted'[w] = 0 /\ Tokens(w)' \in Nat
    BY <1>1, <1>2, <1>4, PipelineAssumption DEF Inv, TypeInv, UploadTypeOK, Tokens
  <2>3. QED
    BY <1>3, <2>1, <2>2 DEF DeliveryOK
<1>9. QED
  BY <1>1, <1>3, <1>5, <1>6, <1>7, <1>8, ClientWrite DEF Known, Filed

\* "cancelled" asks for no file, and the file's row is deleted only together
\* with the upload's reference to it.
LEMMA CancelCommitInv == ASSUME Inv, TypeInv', NEW c \in Clients, CancelCommit(c) PROVE Inv'
<1> USE DEF CancelCommit, CancelRow, SetJob
<1> PICK w \in Uploads : w = job[c].up
  BY Bound DEF Inv
<1>1. /\ UNCHANGED <<counted, sessions, processed, messages, restored, run>>
      /\ job[c].op = "cancelling" /\ job' = [job EXCEPT ![c] = job'[c]] /\ job'[c] = Free
      /\ \A u \in Uploads \ {w} : upload'[u] = upload[u] /\ file'[u] = file[u]
  BY DEF storageVars, brokerVars, Inv, TypeInv, UploadTypeOK
<1>2. w \in Uploads /\ Closed(w) /\ (job[c].drop => job[c].linked /\ job[c].seen = "queued")
  BY <1>1, Bound DEF Inv, KeysOK, HeldOK
<1>3. /\ upload'[w].status = "cancelled" /\ (upload'[w].linked => upload[w].linked)
      /\ file'[w] = file[w] \/ (file'[w] = "deleted" /\ ~upload'[w].linked)
  BY <1>2 DEF Inv, TypeInv, UploadTypeOK, Upload, Job
<1>4. RunOK'
  <2>1. \A u \in Uploads :
          /\ Closed(u) => Closed(u)'
          /\ Filed(u) => Filed(u)'
          /\ upload[u].status \in {"processing", "cancelled"} =>
                upload'[u].status \in {"processing", "cancelled"}
          /\ file'[u] = file[u] \/ (file'[u] = "deleted" /\ ~upload'[u].linked)
          /\ upload'[u].linked => upload[u].linked
    BY <1>1, <1>2, <1>3 DEF Closed, Known, Filed
  <2>2. RunOK /\ (Working => run.op # "idle") /\ (run.op # "idle" => run.up \in Uploads)
    BY Bound DEF Inv, Working, Stages
  <2>3. UNCHANGED <<run, processed, counted>> /\ Working' = Working
    BY <1>1 DEF Working
  <2>4. run.op # "idle" => Closed(run.up)' /\ Filed(run.up)'
    BY <2>1, <2>2, <2>3 DEF RunOK, Closed, Known, Filed
  <2>5. Working \/ (run.op = "begin" /\ run.seen = "processing") =>
          upload'[run.up].status \in {"processing", "cancelled"}
    BY <2>1, <2>2 DEF RunOK
  <2>6. run.op = "finish" =>
          file'[run.up] = "ingested" \/ (file'[run.up] = "deleted" /\ ~upload'[run.up].linked)
    BY <2>1, <2>2 DEF RunOK
  <2>7. QED
    BY <2>2, <2>3, <2>4, <2>5, <2>6 DEF RunOK
<1>5. RowOK(w)'
  BY <1>1, <1>2, <1>3 DEF Inv, RowsOK, RowOK, Known, Filed, Closed
<1>6. DeliveryOK(w)'
  <2>1. Tokens(w)' <= Tokens(w)
    <3>1. job'[c].op # "dispatch"
      BY <1>1 DEF Free
    <3>2. Dispatching(w)' => Dispatching(w)
      BY <1>1, <3>1, NoDispatch DEF Inv
    <3>3. QED
      BY <1>1, <3>2 DEF Tokens, Unregistered
  <2>2. QED
    BY <1>1, <1>2, <1>3, <2>1, DeliveryStep
<1>7. NewKeyOK(c)' /\ HeldOK(c)' /\ job'[c].up = None /\ job'[c].op = "idle"
  BY <1>1 DEF NewKeyOK, HeldOK, Free
<1>8. Known(w)' /\ (Filed(w) => Filed(w)')
  BY <1>1, <1>3 DEF Known, Filed
<1>9. QED
  BY <1>1, <1>4, <1>5, <1>6, <1>7, <1>8, ClientWrite

-----------------------------------------------------------------------------
(* The theorems                                                            *)

\* The invariant holds at first, ...
LEMMA InitInv == Init => Inv
<1> SUFFICES ASSUME Init PROVE Inv
  OBVIOUS
<1>1. TypeInv
  BY InitTypes
<1>2. KeysOK /\ RunOK /\ MessagesOK
  BY DEF Init, Free, KeysOK, NewKeyOK, HeldOK, NoRun, RunOK, Working, Stages, MessagesOK
<1>3. RowsOK
  BY DEF Init, NoUpload, RowsOK, RowOK, Known, Filed
<1>4. DeliveriesOK
  BY DEF Init, Free, NoRun, DeliveriesOK, DeliveryOK, Tokens, Dispatching, Unregistered, Stages
<1>5. QED
  BY <1>1, <1>2, <1>3, <1>4 DEF Inv

\* ... every step keeps it, ...
LEMMA NextInv == Inv /\ [Next]_vars => Inv'
<1> SUFFICES ASSUME Inv, [Next]_vars PROVE Inv'
  OBVIOUS
<1>1. TypeInv
  BY DEF Inv
<1>2. ASSUME NEW c \in Clients, ClientStep(c) PROVE Inv'
  <2>1. TypeInv'
    BY <1>1, <1>2, ClientTypes
  <2>2. QED
    BY <1>2, <2>1, NewKeyInv, LoadInv, StorageInv, DispatchInv, InitiateCommitInv, QueueInv,
       CancelCommitInv
    DEF ClientStep
<1>3. CASE TaskStep
  <2>1. TypeInv'
    BY <1>1, <1>3, TaskTypes
  <2>2. QED
    BY <1>3, <2>1, AdvanceInv, LeaveInv, TaskBeginInv, PutProcessedInv, ZarrUploadFailedInv,
       RegisterCommitInv, FinishInv, UndoProcessedInv, DropRowInv, WriteTerminalInv
    DEF TaskStep
<1>4. CASE WorkerStep \/ \E u \in Uploads : PutPart(u) \/ TaskSkip(u) \/ TaskLoad(u) \/ Discard(u)
  <2>1. TypeInv'
    BY <1>1, <1>4, WorkerTypes
  <2>2. QED
    BY <1>4, <2>1, LeaveInv, TakeInv DEF WorkerStep
<1>5. CASE UNCHANGED vars
  <2>1. TypeInv'
    BY <1>1, <1>5 DEF TypeInv, UploadTypeOK, vars, dbVars, storageVars, brokerVars
  <2>2. RunOK' /\ MessagesOK'
    BY <1>5 DEF Inv, RunOK, Working, MessagesOK, Closed, Known, Filed,
                vars, dbVars, storageVars, brokerVars
  <2>3. \A u \in Uploads : Tokens(u)' <= Tokens(u)
    BY <1>5 DEF Tokens, Dispatching, Unregistered, vars, brokerVars
  <2>4. QED
    BY <1>5, <2>1, <2>2, <2>3, QuietRun DEF vars, dbVars, storageVars, brokerVars
<1>6. QED
  BY <1>2, <1>3, <1>4, <1>5 DEF Next

\* ... and so it holds in every reachable state.
LEMMA Invariance == Spec => []Inv
BY InitInv, NextInv, PTL DEF Spec

\* Every reachable state has the declared types.
THEOREM UploadTypesCorrect == Spec => []UploadTypeOK
<1>1. Inv => UploadTypeOK
  BY DEF Inv, TypeInv
<1>2. QED
  BY <1>1, Invariance, PTL

\* No upload leaves "initiated" with its multipart session still open.
THEOREM NoSessionLeaks == Spec => []SessionsClosed
<1>1. Inv => SessionsClosed
  BY DEF Inv, TypeInv, UploadTypeOK, RowsOK, RowOK, SessionsClosed
<1>2. QED
  BY <1>1, Invariance, PTL

\* A queued upload has the file that its task will look for.
THEOREM QueuedUploadsHaveFiles == Spec => []QueuedHasFile
<1>1. Inv => QueuedHasFile
  BY DEF Inv, RowsOK, RowOK, QueuedHasFile
<1>2. QED
  BY <1>1, Invariance, PTL

\* A complete upload that names its file names one that can be queried.
THEOREM CompleteIsQueryable == Spec => []LinkedCompleteIsQueryable
<1>1. Inv => LinkedCompleteIsQueryable
  BY DEF Inv, RowsOK, RowOK, LinkedCompleteIsQueryable
<1>2. QED
  BY <1>1, Invariance, PTL

\* Only ingested content is counted in the dataset's aggregates.
THEOREM OnlyIngestedCounts == Spec => []CountedIsIngested
<1>1. Inv => CountedIsIngested
  BY DEF Inv, RowsOK, RowOK, CountedIsIngested
<1>2. QED
  BY <1>1, Invariance, PTL

\* A file is counted at most once per delivery of its message, and keeps its
\* artifact unless the message was delivered again.
THEOREM CountedOncePerDelivery == Spec => []IngestedOnce
<1>1. ASSUME Inv PROVE IngestedOnce
  <2>1. ASSUME NEW u \in Uploads PROVE counted[u] <= 1 + restored[u]
    <3>1. counted[u] \in Nat /\ restored[u] \in Nat /\ Tokens(u) \in Nat
      BY <1>1, TokensNat, PipelineAssumption DEF Inv, TypeInv, UploadTypeOK
    <3>2. counted[u] + Tokens(u) <= 1 + restored[u]
      BY <1>1 DEF Inv, DeliveriesOK, DeliveryOK
    <3>3. QED
      BY <3>1, <3>2
  <2>2. QED
    BY <1>1, <2>1 DEF Inv, DeliveriesOK, DeliveryOK, IngestedOnce
<1>2. QED
  BY <1>1, Invariance, PTL

=============================================================================
