-------------------------- MODULE SubsetExtraction --------------------------
(***************************************************************************)
(* Scope-filtered extractions of a granted dataset and their download      *)
(* (backend/app/services/extraction_service.py, worker/tasks/extraction.py,*)
(* routers/requests.py), composed with the grants of AccessRequests: every *)
(* revocation also fails the grant's extractions that it finds in flight,  *)
(* and deleting a dataset deletes them.                                    *)
(*                                                                         *)
(* process_extraction runs either in a Celery worker, for a message that   *)
(* is acknowledged after the task (task_acks_late), or in the API process  *)
(* for a small dataset.  Both are actors here and take the same steps.     *)
(***************************************************************************)
EXTENDS AccessRequests

CONSTANTS
    Extractions,   \* primary keys of subset_extractions
    Clients,       \* API requests of grantees that may be in flight together
    Runners,       \* Celery worker processes of the default queue
    ChildKills     \* whether a worker's child process may be killed

ASSUME ActorsAssumption ==
    /\ Clients \cap Runners = {}
    /\ None \notin Extractions
    /\ ChildKills \in BOOLEAN

Actors == Clients \cup Runners

VARIABLES
    extraction,  \* subset_extractions rows
    messages,    \* extraction.run_extraction messages waiting for a worker
    extracts,    \* objects of the extracts/ storage tier, by extraction
    downloads,   \* download_logs rows: the extractions they are for
    selected,    \* the in-flight extractions each session has loaded to fail
    job          \* what each actor is doing

xVars == <<extraction, messages, extracts, downloads, selected, job>>
allVars == <<vars, xVars>>

-----------------------------------------------------------------------------
(* Types                                                                   *)

ExtractionStatus == {"absent", "queued", "processing", "complete", "failed", "deleted"}

ExtractionRow ==
    [status : ExtractionStatus, grant : Grants \cup {None},
     output : BOOLEAN]               \* output_file_key is set

NoExtraction == [status |-> "absent", grant |-> None, output |-> FALSE]

JobOps == {"idle", "create", "created", "run", "put", "ack", "download"}

Job == [op : JobOps, ext : Extractions \cup {None}, grt : Grants \cup {None}]

Free == [op |-> "idle", ext |-> None, grt |-> None]

\* Grants whose in-flight extractions were looked up, and what was found.
Selection == [grants : SUBSET Grants, rows : SUBSET Extractions]

NoSelection == [grants |-> {}, rows |-> {}]

ExtractionTypeOK ==
    /\ extraction \in [Extractions -> ExtractionRow]
    /\ messages \subseteq Extractions
    /\ extracts \subseteq Extractions
    /\ downloads \subseteq Extractions
    /\ selected \in [Workers -> Selection]
    /\ job \in [Actors -> Job]

ExtractionInit ==
    /\ Init
    /\ extraction = [e \in Extractions |-> NoExtraction]
    /\ messages = {}
    /\ extracts = {}
    /\ downloads = {}
    /\ selected = [h \in Workers |-> NoSelection]
    /\ job = [a \in Actors |-> Free]

StoredRow(e) == Stored(extraction[e].status)

SetJob(a, j) == job' = [job EXCEPT ![a] = j]

\* A worker still has to acknowledge its message; a request just returns.
EndTask(a) == SetJob(a, IF a \in Runners THEN [job[a] EXCEPT !.op = "ack"] ELSE Free)

-----------------------------------------------------------------------------
(* create_extraction                                                       *)

UsableGrant(g) == grant[g].status = "active" /\ grant[g].expires_at > now

CreateLoad(c, g) ==
    /\ job[c] = Free
    /\ UsableGrant(g)
    /\ SetJob(c, [Free EXCEPT !.op = "create", !.grt = g])
    /\ UNCHANGED <<vars, extraction, messages, extracts, downloads, selected>>

\* INSERT status "queued"; the foreign key needs the grant's row.
InsertUnchecked(e, g) ==
    extraction' = [extraction EXCEPT
        ![e] = [status |-> "queued", grant |-> g, output |-> FALSE]]
InsertExtraction(e, g) ==
    /\ Stored(grant[g].status)
    /\ extraction' = [extraction EXCEPT
           ![e] = [status |-> "queued", grant |-> g, output |-> FALSE]]

\* The row is committed before anything is dispatched.
CreateCommit(c, e) ==
    /\ job[c].op = "create"
    /\ extraction[e].status = "absent"
    /\ InsertExtraction(e, job[c].grt)
    /\ SetJob(c, [Free EXCEPT !.op = "created", !.ext = e])
    /\ UNCHANGED <<vars, messages, extracts, downloads, selected>>

\* Large dataset: run_extraction.delay, then the task id is recorded.
Dispatch(c) ==
    /\ job[c].op = "created"
    /\ messages' = messages \cup {job[c].ext}
    /\ SetJob(c, Free)
    /\ UNCHANGED <<vars, extraction, extracts, downloads, selected>>

\* The client's process is gone, its broker or database refuses: the request
\* ends where it is, with what it had committed.
ClientLost(c) ==
    /\ job[c] # Free
    /\ SetJob(c, Free)
    /\ UNCHANGED <<vars, extraction, messages, extracts, downloads, selected>>

-----------------------------------------------------------------------------
(* process_extraction                                                      *)

\* Who may start e: a worker that takes its message, or the request that
\* created it.
MayStart(a, e) ==
    \/ a \in Runners /\ job[a] = Free /\ e \in messages
    \/ a \in Clients /\ job[a] = [Free EXCEPT !.op = "created", !.ext = e]

\* The worker holds the message from now on, until it acknowledges it.
TakeMessage(a, e) == messages' = IF a \in Runners THEN messages \ {e} ELSE messages

\* The row is marked "processing" whatever its status was.
Start(a, e) ==
    /\ MayStart(a, e)
    /\ StoredRow(e)
    /\ extraction' = [extraction EXCEPT ![e].status = "processing"]
    /\ TakeMessage(a, e)
    /\ SetJob(a, [Free EXCEPT !.op = "run", !.ext = e])
    /\ UNCHANGED <<vars, extracts, downloads, selected>>

\* "extraction not found".
StartMissing(a, e) ==
    /\ MayStart(a, e)
    /\ ~StoredRow(e)
    /\ TakeMessage(a, e)
    /\ SetJob(a, IF a \in Runners THEN [Free EXCEPT !.op = "ack", !.ext = e] ELSE Free)
    /\ UNCHANGED <<vars, extraction, extracts, downloads, selected>>

\* The row was deleted during the run: the UPDATE matches nothing, and the
\* StaleDataError ends the task.
RowGone(a) ==
    /\ job[a].op \in {"run", "put"}
    /\ ~StoredRow(job[a].ext)
    /\ EndTask(a)
    /\ UNCHANGED <<vars, extraction, messages, extracts, downloads, selected>>

\* _run_extraction stores its result under the extraction's own key.
PutNothing(e) == extracts' = extracts
PutExtract(e) == extracts' = extracts \cup {e}

PutOutput(a) ==
    /\ job[a].op = "run"
    /\ PutExtract(job[a].ext)
    /\ SetJob(a, [job[a] EXCEPT !.op = "put"])
    /\ UNCHANGED <<vars, extraction, messages, downloads, selected>>

\* Any exception of _run_extraction, with or without an output stored.
Fail(a) ==
    LET e == job[a].ext IN
    /\ job[a].op \in {"run", "put"}
    /\ StoredRow(e)
    /\ extraction' = [extraction EXCEPT ![e].status = "failed"]
    /\ EndTask(a)
    /\ UNCHANGED <<vars, messages, extracts, downloads, selected>>

Complete(a) ==
    LET e == job[a].ext IN
    /\ job[a].op = "put"
    /\ StoredRow(e)
    /\ extraction' = [extraction EXCEPT ![e].status = "complete", ![e].output = TRUE]
    /\ EndTask(a)
    /\ UNCHANGED <<vars, messages, extracts, downloads, selected>>

\* task_acks_late: the message is given up after the task, however it ended.
Ack(k) ==
    /\ job[k].op = "ack"
    /\ SetJob(k, Free)
    /\ UNCHANGED <<vars, extraction, messages, extracts, downloads, selected>>

\* A worker holds its message from the start of the task on.
Holding(k) == job[k].op \in {"run", "put", "ack"}

\* The worker stops before the acknowledgement: the message is restored.
DropMessage(k) == messages' = messages
RestoreMessage(k) == messages' = messages \cup {job[k].ext}

WorkerLost(k) ==
    /\ Holding(k)
    /\ RestoreMessage(k)
    /\ SetJob(k, Free)
    /\ UNCHANGED <<vars, extraction, extracts, downloads, selected>>

\* The broker's visibility timeout restores the message of a long run.
Redeliver(k) ==
    /\ Holding(k)
    /\ RestoreMessage(k)
    /\ UNCHANGED <<vars, extraction, extracts, downloads, selected, job>>

\* Only its child process is killed: the pool reports the task as failed and
\* acknowledges it (task_reject_on_worker_lost is not set).
ChildKilled(k) ==
    /\ ChildKills
    /\ job[k].op \in {"run", "put"}
    /\ SetJob(k, Free)
    /\ UNCHANGED <<vars, extraction, messages, extracts, downloads, selected>>

-----------------------------------------------------------------------------
(* Download                                                                *)

\* Neither the expiry date nor the extraction's age is checked here.
DownloadAnyStatus(e) == StoredRow(e) /\ grant[extraction[e].grant].status = "active"
Downloadable(e) ==
    /\ extraction[e].status = "complete"
    /\ grant[extraction[e].grant].status = "active"

DownloadLoad(c, e) ==
    /\ job[c] = Free
    /\ Downloadable(e)
    /\ SetJob(c, [Free EXCEPT !.op = "download", !.ext = e])
    /\ UNCHANGED <<vars, extraction, messages, extracts, downloads, selected>>

\* INSERT the log row, whose foreign keys need the grant and the extraction;
\* then the URL is presigned.
DownloadCommit(c) ==
    LET e == job[c].ext IN
    /\ job[c].op = "download"
    /\ StoredRow(e)
    /\ downloads' = downloads \cup {e}
    /\ SetJob(c, Free)
    /\ UNCHANGED <<vars, extraction, messages, extracts, selected>>

-----------------------------------------------------------------------------
(* Revocation: revoke_grant, its cascades and the deletion sweep           *)

\* The grants a worker is about to revoke.
Revoking(h) ==
    CASE session[h].op = "revoke" -> {session[h].grt}
      [] session[h].op \in {"archive_revoke", "delete_revoke", "sweep"} -> session[h].todo
      [] OTHER -> {}

InFlight(g) ==
    {e \in Extractions : extraction[e].grant = g /\ extraction[e].status \in {"queued", "processing"}}

\* SELECT the grant's queued and processing extractions.
SelectInFlight(h, g) ==
    /\ g \in Revoking(h) \ selected[h].grants
    /\ selected' = [selected EXCEPT ![h].grants = @ \cup {g}, ![h].rows = @ \cup InFlight(g)]
    /\ UNCHANGED <<vars, extraction, messages, extracts, downloads, job>>

InvalidateAsRevoked(h) ==
    extraction' = [e \in Extractions |->
        IF e \in selected[h].rows THEN [extraction[e] EXCEPT !.status = "revoked"]
        ELSE extraction[e]]
\* Their status is set to "failed" in the commit that revokes the grants.
Invalidate(h) ==
    /\ \A e \in selected[h].rows : StoredRow(e)
    /\ extraction' = [e \in Extractions |->
           IF e \in selected[h].rows THEN [extraction[e] EXCEPT !.status = "failed"]
           ELSE extraction[e]]

Unselect(h) == selected' = [selected EXCEPT ![h] = NoSelection]

RevokeAndInvalidate(h) ==
    /\ RevokeCommit(h)
    /\ session[h].grt \in selected[h].grants
    /\ Invalidate(h)
    /\ Unselect(h)
    /\ UNCHANGED <<messages, extracts, downloads, job>>

\* The cascades commit after each grant, so they hold one selection at most.
CascadeAndInvalidate(h, g) ==
    /\ CascadeRevoke(h, g)
    /\ selected[h].grants = {g}
    /\ Invalidate(h)
    /\ Unselect(h)
    /\ UNCHANGED <<messages, extracts, downloads, job>>

\* Nothing is written when a row to update is gone: the sweep rolls back.
SweepAndInvalidate(h) ==
    /\ SweepCommit(h)
    /\ session[h].todo \subseteq selected[h].grants
    /\ IF \A g \in session[h].todo : Stored(grant[g].status)
       THEN Invalidate(h)
       ELSE extraction' = extraction
    /\ Unselect(h)
    /\ UNCHANGED <<messages, extracts, downloads, job>>

\* ON DELETE CASCADE from the dataset over its grants to extractions and
\* download logs; the objects in storage are left.
ExtractionsOf(d) ==
    {e \in Extractions : extraction[e].grant # None /\ grant[extraction[e].grant].dataset = d}

DeleteAndCascade(h) ==
    LET gone == ExtractionsOf(session[h].ds) IN
    /\ DeleteCommit(h)
    /\ extraction' = [e \in Extractions |->
           IF e \in gone THEN [extraction[e] EXCEPT !.status = "deleted"] ELSE extraction[e]]
    /\ downloads' = downloads \ gone
    /\ UNCHANGED <<messages, extracts, selected, job>>

AbortAndForget(h) ==
    /\ Abort(h)
    /\ Unselect(h)
    /\ UNCHANGED <<extraction, messages, extracts, downloads, job>>

\* Every other step of the workers leaves the extractions alone.
AccessStep ==
    /\ \/ \E h \in Handlers : PlainStep(h)
       \/ \E h \in Sweepers : SweepLoad(h) \/ \E u \in Users : SweepUser(h, u)
       \/ \E u \in Users : UserStep(u)
       \/ Tick
    /\ UNCHANGED xVars

-----------------------------------------------------------------------------

RevocationStep(h) ==
    \/ h \in Handlers /\ RevokeAndInvalidate(h)
    \/ \E g \in Grants : h \in Handlers /\ CascadeAndInvalidate(h, g)
    \/ h \in Handlers /\ DeleteAndCascade(h)
    \/ h \in Sweepers /\ SweepAndInvalidate(h)
    \/ \E g \in Grants : SelectInFlight(h, g)
    \/ AbortAndForget(h)

ClientStep(c) ==
    \/ \E g \in Grants : CreateLoad(c, g)
    \/ \E e \in Extractions : CreateCommit(c, e) \/ DownloadLoad(c, e)
    \/ Dispatch(c)
    \/ DownloadCommit(c)
    \/ ClientLost(c)

ActorStep(a) ==
    \/ \E e \in Extractions : Start(a, e) \/ StartMissing(a, e)
    \/ RowGone(a)
    \/ PutOutput(a)
    \/ Fail(a)
    \/ Complete(a)

RunnerStep(k) == Ack(k) \/ WorkerLost(k) \/ Redeliver(k) \/ ChildKilled(k)

ExtractionNext ==
    \/ AccessStep
    \/ \E h \in Workers : RevocationStep(h)
    \/ \E c \in Clients : ClientStep(c)
    \/ \E a \in Actors : ActorStep(a)
    \/ \E k \in Runners : RunnerStep(k)

ExtractionSpec == ExtractionInit /\ [][ExtractionNext]_allVars

\* A worker that is free takes messages, a task it runs ends, and a message
\* whose worker was lost is delivered again; no worker is lost at the same
\* point of every delivery for ever.
RunnerFairness ==
    /\ \A e \in Extractions : SF_allVars(\E k \in Runners : Start(k, e) \/ StartMissing(k, e))
    /\ \A k \in Runners :
          /\ SF_allVars(PutOutput(k) \/ Fail(k) \/ RowGone(k))
          /\ SF_allVars(Complete(k) \/ Fail(k) \/ RowGone(k))
          /\ SF_allVars(Ack(k))

FairExtractionSpec == ExtractionSpec /\ RunnerFairness

-----------------------------------------------------------------------------
(* Properties                                                              *)

\* A "complete" extraction has its output recorded, and a recorded output is
\* in storage: redelivered, failed and revoked runs included, a download URL
\* and the nightly sweep of known keys never meet a missing object.
OutputExists ==
    \A e \in Extractions :
        /\ extraction[e].status = "complete" => extraction[e].output
        /\ extraction[e].output => e \in extracts

\* An extraction never outlives its grant, even if the dataset was deleted
\* between create_extraction's checks and its INSERT, or while it ran.
ExtractionHasGrant ==
    \A e \in Extractions : StoredRow(e) =>
        extraction[e].grant # None /\ Stored(grant[extraction[e].grant].status)

\* A message is sent only for a committed row, so that "extraction not
\* found" in a worker always means that the row was deleted.
MessageHasRow ==
    /\ \A e \in messages : extraction[e].status # "absent"
    /\ \A k \in Runners : job[k].ext # None => extraction[job[k].ext].status # "absent"

\* Every logged download is of an extraction whose output is in storage.
DownloadHasOutput == \A e \in downloads : extraction[e].output /\ e \in extracts

\* An extraction that was dispatched does not stay queued or processing: its
\* message is delivered until a run of it has ended.
DispatchedSettles ==
    \A e \in Extractions :
        e \in messages ~> extraction[e].status \notin {"queued", "processing"}

=============================================================================
