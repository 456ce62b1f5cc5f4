----------------------- MODULE SubsetExtractionProofs -----------------------
(***************************************************************************)
(* Proofs about SubsetExtraction: the composition takes only steps of      *)
(* AccessRequests, so every theorem about grants holds of it, and the      *)
(* extractions keep their invariants for any number of grants, clients,    *)
(* workers and redeliveries.                                               *)
(***************************************************************************)
EXTENDS SubsetExtraction, AccessRequestsProofs

-----------------------------------------------------------------------------
(* The composition implements AccessRequests                               *)

LEMMA StepImplements == ExtractionNext => [Next]_vars
<1> SUFFICES ASSUME ExtractionNext PROVE [Next]_vars
  OBVIOUS
<1>1. CASE AccessStep
  BY <1>1 DEF AccessStep, Next, HandlerStep, SweeperStep
<1>2. ASSUME NEW h \in Workers, RevocationStep(h) PROVE [Next]_vars
  <2>1. \/ h \in Handlers /\ RevokeCommit(h)
        \/ \E g \in Grants : h \in Handlers /\ CascadeRevoke(h, g)
        \/ h \in Handlers /\ DeleteCommit(h)
        \/ h \in Sweepers /\ SweepCommit(h)
        \/ UNCHANGED vars
        \/ Abort(h)
    BY <1>2 DEF RevocationStep, RevokeAndInvalidate, CascadeAndInvalidate, DeleteAndCascade,
                SweepAndInvalidate, SelectInFlight, AbortAndForget
  <2>2. QED
    BY <2>1 DEF Next, HandlerStep, SweeperStep
<1>3. ASSUME NEW c \in Clients, ClientStep(c) PROVE UNCHANGED vars
  BY <1>3 DEF ClientStep, CreateLoad, CreateCommit, DownloadLoad, Dispatch, DownloadCommit,
              ClientLost
<1>4. ASSUME NEW a \in Actors, ActorStep(a) PROVE UNCHANGED vars
  BY <1>4 DEF ActorStep, Start, StartMissing, RowGone, PutOutput, Fail, Complete
<1>5. ASSUME NEW k \in Runners, RunnerStep(k) PROVE UNCHANGED vars
  BY <1>5 DEF RunnerStep, Ack, WorkerLost, Redeliver, ChildKilled
<1>6. QED
  BY <1>1, <1>2, <1>3, <1>4, <1>5 DEF ExtractionNext

\* The system with extractions behaves, as far as requests, grants, datasets
\* and sessions go, as AccessRequests says.
THEOREM ImplementsAccess == ExtractionSpec => Spec
<1>1. ExtractionInit => Init
  BY DEF ExtractionInit
<1>2. [ExtractionNext]_allVars => [Next]_vars
  BY StepImplements DEF allVars
<1>3. QED
  BY <1>1, <1>2, PTL DEF ExtractionSpec, Spec

\* So what was proved of the grants holds with extractions running.
THEOREM RevocationFinalWithExtractions == ExtractionSpec => RevocationFinal
BY ImplementsAccess, RevocationIsFinal, PTL

-----------------------------------------------------------------------------
(* The inductive invariant of the extractions                              *)

\* What an actor holds: the row it works on was inserted, an output about to
\* be recorded is stored, a download about to be logged has an output.
JobOK(j) ==
    /\ j \in Job
    /\ j.op = "create" => j.grt \in Grants
    /\ j.op \in {"idle", "create"} => j.ext = None
    /\ j.op \in {"created", "run", "put", "ack", "download"} =>
          j.ext \in Extractions /\ extraction[j.ext].status # "absent"
    /\ j.op = "put" => j.ext \in extracts
    /\ j.op = "download" => extraction[j.ext].output

RowOK(e) ==
    /\ extraction[e].status = "complete" => extraction[e].output
    /\ extraction[e].output => e \in extracts /\ extraction[e].status # "absent"

ExtractionInv ==
    /\ ExtractionTypeOK
    /\ \A a \in Actors : JobOK(job[a])
    /\ \A e \in Extractions : RowOK(e)
    /\ \A e \in messages : extraction[e].status # "absent"
    /\ DownloadHasOutput

\* Rows are never un-inserted, outputs neither forgotten nor removed, and
\* then whatever an actor holds stays good.
Grows ==
    /\ extracts \subseteq extracts'
    /\ \A e \in Extractions :
          /\ extraction[e].status # "absent" => extraction'[e].status # "absent"
          /\ extraction[e].output => extraction'[e].output

LEMMA JobsKept ==
    ASSUME ExtractionInv, Grows, NEW j, JobOK(j)
    PROVE  JobOK(j)'
BY DEF ExtractionInv, Grows, JobOK, ExtractionTypeOK, Job

\* Storing one good job keeps all jobs good.
LEMMA PutJob ==
    ASSUME ExtractionInv, Grows, NEW a \in Actors, NEW j, JobOK(j)', SetJob(a, j)
    PROVE  job' \in [Actors -> Job] /\ \A b \in Actors : JobOK(job[b])'
<1>1. job \in [Actors -> Job] /\ j \in Job
  BY DEF ExtractionInv, ExtractionTypeOK, JobOK
<1>2. \A b \in Actors : job'[b] = IF b = a THEN j ELSE job[b]
  BY <1>1 DEF SetJob
<1>3. \A b \in Actors : JobOK(job[b]) => JobOK(job[b])'
  <2> SUFFICES ASSUME NEW b \in Actors, JobOK(job[b]) PROVE JobOK(job[b])'
    OBVIOUS
  <2>1. CASE b = a
    BY <2>1, <1>2 DEF JobOK
  <2>2. CASE b # a
    BY <2>2, <1>2 DEF JobOK, Grows, Job, ExtractionInv, ExtractionTypeOK
  <2>3. QED
    BY <2>1, <2>2
<1>4. QED
  BY <1>1, <1>2, <1>3 DEF SetJob, ExtractionInv

LEMMA FreeOK == JobOK(Free)'
BY DEF JobOK, Free, Job, JobOps

\* A step that grows the rows, keeps each of them good, and stores a good job.
LEMMA StepKeeps ==
    ASSUME ExtractionInv, Grows, NEW a \in Actors, NEW j, JobOK(j)', SetJob(a, j),
           UNCHANGED selected,
           extraction' \in [Extractions -> ExtractionRow],
           extracts' \subseteq Extractions,
           \A e \in Extractions : RowOK(e)',
           messages' \subseteq Extractions,
           \A e \in messages' : extraction'[e].status # "absent",
           downloads' \subseteq Extractions,
           \A e \in downloads' : extraction'[e].output
    PROVE  ExtractionInv'
<1>1. job' \in [Actors -> Job] /\ \A b \in Actors : JobOK(job[b])'
  BY PutJob
<1>2. ExtractionTypeOK'
  BY <1>1 DEF ExtractionInv, ExtractionTypeOK
<1>3. DownloadHasOutput'
  BY DEF DownloadHasOutput, RowOK
<1>4. QED
  BY <1>1, <1>2, <1>3 DEF ExtractionInv

\* The facts every step starts from.
LEMMA InvFacts ==
    ASSUME ExtractionInv
    PROVE  /\ extraction \in [Extractions -> ExtractionRow]
           /\ messages \subseteq Extractions /\ extracts \subseteq Extractions
           /\ downloads \subseteq Extractions
           /\ \A e \in Extractions : RowOK(e)
           /\ \A e \in messages : extraction[e].status # "absent"
           /\ \A e \in downloads : extraction[e].output
           /\ job \in [Actors -> Job]
           /\ \A a \in Actors : JobOK(job[a])
BY DEF ExtractionInv, ExtractionTypeOK, DownloadHasOutput

\* Changing the status of one stored row, and its output only to TRUE.
LEMMA SetStatus ==
    ASSUME ExtractionInv, NEW e \in Extractions, extraction[e].status # "absent",
           NEW s \in ExtractionStatus \ {"absent", "complete"},
           extraction' = [extraction EXCEPT ![e].status = s],
           UNCHANGED extracts
    PROVE  /\ Grows
           /\ extraction' \in [Extractions -> ExtractionRow]
           /\ \A x \in Extractions : RowOK(x)'
           /\ \A x \in Extractions : extraction'[x].output = extraction[x].output
           /\ \A x \in Extractions : extraction[x].status # "absent" => extraction'[x].status # "absent"
<1>1. extraction \in [Extractions -> ExtractionRow] /\ \A x \in Extractions : RowOK(x)
  BY InvFacts
<1>2. \A x \in Extractions :
         /\ extraction'[x].status = IF x = e THEN s ELSE extraction[x].status
         /\ extraction'[x].output = extraction[x].output
         /\ extraction'[x].grant = extraction[x].grant
         /\ extraction'[x] \in ExtractionRow
  BY <1>1 DEF ExtractionRow
<1>3. extraction' \in [Extractions -> ExtractionRow]
  BY <1>1, <1>2
<1>4. \A x \in Extractions : RowOK(x)'
  BY <1>1, <1>2 DEF RowOK
<1>5. QED
  BY <1>2, <1>3, <1>4 DEF Grows

-----------------------------------------------------------------------------
(* Requests of clients                                                     *)

LEMMA ClientKeeps ==
    ASSUME ExtractionInv, NEW c \in Clients, ClientStep(c)
    PROVE  ExtractionInv'
<1>0. c \in Actors
  BY DEF Actors
<1> USE <1>0, InvFacts
<1>1. ASSUME NEW g \in Grants, CreateLoad(c, g) PROVE ExtractionInv'
  <2>1. Grows /\ \A e \in Extractions : RowOK(e)'
    BY <1>1 DEF CreateLoad, Grows, RowOK
  <2>2. JobOK([Free EXCEPT !.op = "create", !.grt = g])'
    BY DEF JobOK, Free, Job, JobOps
  <2>3. QED
    BY <1>1, <2>1, <2>2, StepKeeps DEF CreateLoad
<1>2. ASSUME NEW e \in Extractions, CreateCommit(c, e) PROVE ExtractionInv'
  <2>1. job[c].grt \in Grants
    BY <1>2 DEF CreateCommit, JobOK
  <2>2. \A x \in Extractions :
           extraction'[x] = IF x = e THEN [status |-> "queued", grant |-> job[c].grt, output |-> FALSE]
                            ELSE extraction[x]
    BY <1>2 DEF CreateCommit, InsertExtraction
  <2>3. extraction' \in [Extractions -> ExtractionRow]
    BY <1>2, <2>1, <2>2 DEF CreateCommit, InsertExtraction, ExtractionRow, ExtractionStatus
  <2>4. extraction[e].status = "absent" /\ ~extraction[e].output
    BY <1>2 DEF CreateCommit, RowOK
  <2>5. Grows /\ \A x \in Extractions : RowOK(x)'
    BY <1>2, <2>2, <2>4 DEF CreateCommit, Grows, RowOK
  <2>6. JobOK([Free EXCEPT !.op = "created", !.ext = e])'
    <3>1. extraction'[e].status # "absent"
      BY <2>2
    <3>2. QED
      BY <3>1 DEF JobOK, Free, Job, JobOps
  <2>7. \A x \in messages' : extraction'[x].status # "absent"
    BY <1>2, <2>2 DEF CreateCommit
  <2>8. \A x \in downloads' : extraction'[x].output
    BY <1>2, <2>2, <2>4 DEF CreateCommit
  <2>9. QED
    BY <1>2, <2>3, <2>5, <2>6, <2>7, <2>8, StepKeeps DEF CreateCommit
<1>3. ASSUME NEW e \in Extractions, DownloadLoad(c, e) PROVE ExtractionInv'
  <2>1. Grows /\ \A x \in Extractions : RowOK(x)'
    BY <1>3 DEF DownloadLoad, Grows, RowOK
  <2>2. JobOK([Free EXCEPT !.op = "download", !.ext = e])'
    BY <1>3 DEF DownloadLoad, Downloadable, JobOK, RowOK, Free, Job, JobOps
  <2>3. QED
    BY <1>3, <2>1, <2>2, StepKeeps DEF DownloadLoad
<1>4. CASE Dispatch(c)
  <2>1. Grows /\ \A x \in Extractions : RowOK(x)'
    BY <1>4 DEF Dispatch, Grows, RowOK
  <2>2. job[c].ext \in Extractions /\ extraction[job[c].ext].status # "absent"
    BY <1>4 DEF Dispatch, JobOK
  <2>3. QED
    BY <1>4, <2>1, <2>2, FreeOK, StepKeeps DEF Dispatch
<1>5. CASE DownloadCommit(c)
  <2>1. Grows /\ \A x \in Extractions : RowOK(x)'
    BY <1>5 DEF DownloadCommit, Grows, RowOK
  <2>2. job[c].ext \in Extractions /\ extraction[job[c].ext].output
    BY <1>5 DEF DownloadCommit, JobOK
  <2>3. QED
    BY <1>5, <2>1, <2>2, FreeOK, StepKeeps DEF DownloadCommit
<1>6. CASE ClientLost(c)
  <2>1. Grows /\ \A x \in Extractions : RowOK(x)'
    BY <1>6 DEF ClientLost, Grows, RowOK
  <2>2. QED
    BY <1>6, <2>1, FreeOK, StepKeeps DEF ClientLost
<1>7. QED
  BY <1>1, <1>2, <1>3, <1>4, <1>5, <1>6 DEF ClientStep

-----------------------------------------------------------------------------
(* Runs of process_extraction                                              *)

\* Whoever may start e works on an inserted row.
LEMMA MayStartRow ==
    ASSUME ExtractionInv, NEW a \in Actors, NEW e \in Extractions, MayStart(a, e)
    PROVE  extraction[e].status # "absent"
BY InvFacts DEF MayStart, JobOK, Free

LEMMA EndTaskJob ==
    ASSUME ExtractionInv, Grows, NEW a \in Actors, job[a].op \in {"run", "put"}, EndTask(a)
    PROVE  \E j : JobOK(j)' /\ SetJob(a, j)
<1>1. JobOK(job[a]) /\ job[a] \in Job
  BY InvFacts DEF JobOK
<1>2. /\ job[a].ext \in Extractions /\ extraction[job[a].ext].status # "absent"
      /\ extraction'[job[a].ext].status # "absent"
  BY <1>1 DEF JobOK, Grows
<1>3. PICK j : j = [job[a] EXCEPT !.op = "ack"]
  OBVIOUS
<1>4. j \in Job /\ j.op = "ack" /\ j.ext = job[a].ext
  BY <1>1, <1>3 DEF Job, JobOps
<1>5. JobOK(j)'
  BY <1>2, <1>4 DEF JobOK
<1>6. SetJob(a, j) \/ SetJob(a, Free)
  BY <1>3 DEF EndTask
<1>7. QED
  BY <1>5, <1>6, FreeOK

LEMMA ActorKeeps ==
    ASSUME ExtractionInv, NEW a \in Actors, ActorStep(a)
    PROVE  ExtractionInv'
<1> USE InvFacts
<1>1. ASSUME NEW e \in Extractions, Start(a, e) PROVE ExtractionInv'
  <2>1. extraction[e].status # "absent"
    BY <1>1, MayStartRow DEF Start
  <2>2. /\ Grows
        /\ extraction' \in [Extractions -> ExtractionRow]
        /\ \A x \in Extractions : RowOK(x)'
        /\ \A x \in Extractions : extraction'[x].output = extraction[x].output
        /\ \A x \in Extractions : extraction[x].status # "absent" => extraction'[x].status # "absent"
    BY <1>1, <2>1, SetStatus DEF Start, ExtractionStatus
  <2>3. extraction'[e].status # "absent"
    BY <2>1, <2>2
  <2>4. JobOK([Free EXCEPT !.op = "run", !.ext = e])'
    BY <2>3 DEF JobOK, Free, Job, JobOps
  <2>5. /\ messages' \subseteq messages
        /\ UNCHANGED <<extracts, downloads, selected>>
        /\ SetJob(a, [Free EXCEPT !.op = "run", !.ext = e])
    BY <1>1 DEF Start, TakeMessage
  <2>6. QED
    BY <2>2, <2>4, <2>5, StepKeeps
<1>2. ASSUME NEW e \in Extractions, StartMissing(a, e) PROVE ExtractionInv'
  <2>1. extraction[e].status # "absent"
    BY <1>2, MayStartRow DEF StartMissing
  <2>2. Grows /\ \A x \in Extractions : RowOK(x)'
    BY <1>2 DEF StartMissing, Grows, RowOK
  <2>3. extraction'[e].status # "absent"
    BY <1>2, <2>1 DEF StartMissing
  <2>4. JobOK([Free EXCEPT !.op = "ack", !.ext = e])'
    BY <2>3 DEF JobOK, Free, Job, JobOps
  <2>5. messages' \subseteq messages /\ UNCHANGED <<extraction, extracts, downloads, selected>>
    BY <1>2 DEF StartMissing, TakeMessage
  <2>6. \E j : JobOK(j)' /\ SetJob(a, j)
    BY <1>2, <2>4, FreeOK DEF StartMissing
  <2>7. QED
    BY <2>2, <2>5, <2>6, StepKeeps
<1>3. CASE RowGone(a)
  <2>1. Grows /\ \A x \in Extractions : RowOK(x)'
    BY <1>3 DEF RowGone, Grows, RowOK
  <2>2. \E j : JobOK(j)' /\ SetJob(a, j)
    BY <1>3, <2>1, EndTaskJob DEF RowGone
  <2>3. UNCHANGED <<extraction, messages, extracts, downloads, selected>>
    BY <1>3 DEF RowGone
  <2>4. QED
    BY <2>1, <2>2, <2>3, StepKeeps
<1>4. CASE PutOutput(a)
  <2>1. /\ JobOK(job[a]) /\ job[a] \in Job /\ job[a].ext \in Extractions
        /\ extraction[job[a].ext].status # "absent"
    BY <1>4 DEF PutOutput, JobOK
  <2>2. /\ extracts' = extracts \cup {job[a].ext}
        /\ UNCHANGED <<extraction, messages, downloads, selected>>
    BY <1>4 DEF PutOutput, PutExtract
  <2>3. Grows /\ \A x \in Extractions : RowOK(x)'
    BY <2>2 DEF Grows, RowOK
  <2>4. PICK j : j = [job[a] EXCEPT !.op = "put"]
    OBVIOUS
  <2>5. j \in Job /\ j.op = "put" /\ j.ext = job[a].ext /\ SetJob(a, j)
    BY <1>4, <2>1, <2>4 DEF Job, JobOps, PutOutput
  <2>6. JobOK(j)'
    BY <2>1, <2>2, <2>5 DEF JobOK
  <2>7. QED
    BY <2>1, <2>2, <2>3, <2>5, <2>6, StepKeeps
<1>5. CASE Fail(a)
  <2>1. job[a].ext \in Extractions /\ extraction[job[a].ext].status # "absent"
    BY <1>5 DEF Fail, JobOK
  <2>2. /\ Grows
        /\ extraction' \in [Extractions -> ExtractionRow]
        /\ \A x \in Extractions : RowOK(x)'
        /\ \A x \in Extractions : extraction'[x].output = extraction[x].output
        /\ \A x \in Extractions : extraction[x].status # "absent" => extraction'[x].status # "absent"
    BY <1>5, <2>1, SetStatus DEF Fail, ExtractionStatus
  <2>3. \E j : JobOK(j)' /\ SetJob(a, j)
    BY <1>5, <2>2, EndTaskJob DEF Fail
  <2>4. UNCHANGED <<messages, extracts, downloads, selected>>
    BY <1>5 DEF Fail
  <2>5. QED
    BY <2>2, <2>3, <2>4, StepKeeps
<1>6. CASE Complete(a)
  <2>1. /\ job[a].ext \in Extractions /\ extraction[job[a].ext].status # "absent"
        /\ job[a].ext \in extracts
    BY <1>6 DEF Complete, JobOK
  <2>2. UNCHANGED <<messages, extracts, downloads, selected>>
    BY <1>6 DEF Complete
  <2>3. \A x \in Extractions :
           /\ extraction'[x].status = IF x = job[a].ext THEN "complete" ELSE extraction[x].status
           /\ extraction'[x].output = (x = job[a].ext \/ extraction[x].output)
           /\ extraction'[x] \in ExtractionRow
    BY <1>6 DEF Complete, ExtractionRow, ExtractionStatus
  <2>4. extraction' \in [Extractions -> ExtractionRow]
    BY <1>6, <2>3 DEF Complete
  <2>5. Grows /\ \A x \in Extractions : RowOK(x)'
    BY <2>1, <2>2, <2>3 DEF Grows, RowOK
  <2>6. \E j : JobOK(j)' /\ SetJob(a, j)
    BY <1>6, <2>5, EndTaskJob DEF Complete
  <2>7. /\ \A x \in messages' : extraction'[x].status # "absent"
        /\ \A x \in downloads' : extraction'[x].output
    BY <2>2, <2>5 DEF Grows
  <2>8. QED
    BY <2>2, <2>4, <2>5, <2>6, <2>7, StepKeeps
<1>7. QED
  BY <1>1, <1>2, <1>3, <1>4, <1>5, <1>6 DEF ActorStep

\* A message is restored only by a worker that holds it.
LEMMA RunnerKeeps ==
    ASSUME ExtractionInv, NEW k \in Runners, RunnerStep(k)
    PROVE  ExtractionInv'
<1>0. k \in Actors
  BY DEF Actors
<1> USE <1>0, InvFacts
<1>1. CASE Ack(k) \/ ChildKilled(k)
  <2>1. Grows /\ \A x \in Extractions : RowOK(x)'
    BY <1>1 DEF Ack, ChildKilled, Grows, RowOK
  <2>2. UNCHANGED <<extraction, messages, extracts, downloads, selected>> /\ SetJob(k, Free)
    BY <1>1 DEF Ack, ChildKilled
  <2>3. QED
    BY <2>1, <2>2, FreeOK, StepKeeps
<1>2. CASE WorkerLost(k)
  <2>1. Grows /\ \A x \in Extractions : RowOK(x)'
    BY <1>2 DEF WorkerLost, Grows, RowOK
  <2>2. job[k].ext \in Extractions /\ extraction[job[k].ext].status # "absent"
    BY <1>2 DEF WorkerLost, Holding, JobOK
  <2>3. QED
    BY <1>2, <2>1, <2>2, FreeOK, StepKeeps DEF WorkerLost, RestoreMessage
<1>3. CASE Redeliver(k)
  <2>1. Grows /\ \A x \in Extractions : RowOK(x)'
    BY <1>3 DEF Redeliver, Grows, RowOK
  <2>2. job[k].ext \in Extractions /\ extraction[job[k].ext].status # "absent"
    BY <1>3 DEF Redeliver, Holding, JobOK
  <2>3. QED
    BY <1>3, <2>1, <2>2 DEF Redeliver, RestoreMessage, ExtractionInv, ExtractionTypeOK,
                            DownloadHasOutput, JobOK
<1>4. QED
  BY <1>1, <1>2, <1>3 DEF RunnerStep

-----------------------------------------------------------------------------
(* Steps of the workers of AccessRequests                                  *)

\* A step that leaves the jobs, the objects and the messages alone.
LEMMA RowStepKeeps ==
    ASSUME ExtractionInv, Grows, UNCHANGED <<messages, extracts, job>>,
           selected' \in [Workers -> Selection],
           extraction' \in [Extractions -> ExtractionRow],
           \A e \in Extractions : RowOK(e)',
           downloads' \subseteq downloads
    PROVE  ExtractionInv'
<1> USE InvFacts
<1>1. \A a \in Actors : JobOK(job[a])'
  <2> SUFFICES ASSUME NEW a \in Actors PROVE JobOK(job[a])'
    OBVIOUS
  <2>1. PICK j : j = job[a]
    OBVIOUS
  <2>2. JobOK(j)'
    BY <2>1, JobsKept
  <2>3. QED
    BY <2>1, <2>2 DEF JobOK
<1>2. DownloadHasOutput'
  BY DEF DownloadHasOutput, Grows, RowOK
<1>3. QED
  BY <1>1, <1>2 DEF ExtractionInv, ExtractionTypeOK, Grows

\* Failing a set of stored rows.
LEMMA InvalidateKeeps ==
    ASSUME ExtractionInv, NEW h \in Workers, Invalidate(h), UNCHANGED extracts
    PROVE  /\ Grows
           /\ extraction' \in [Extractions -> ExtractionRow]
           /\ \A e \in Extractions : RowOK(e)'
<1>1. extraction \in [Extractions -> ExtractionRow] /\ \A e \in Extractions : RowOK(e)
  BY InvFacts
<1>2. selected[h].rows \subseteq Extractions
  BY DEF ExtractionInv, ExtractionTypeOK, Selection
<1>3. \A e \in Extractions :
         /\ extraction'[e].status = IF e \in selected[h].rows THEN "failed" ELSE extraction[e].status
         /\ extraction'[e].output = extraction[e].output
         /\ extraction'[e] \in ExtractionRow
  BY <1>1 DEF Invalidate, ExtractionRow, ExtractionStatus
<1>4. extraction' \in [Extractions -> ExtractionRow]
  BY <1>3 DEF Invalidate
<1>5. QED
  BY <1>1, <1>3, <1>4 DEF Grows, RowOK

LEMMA UnselectType ==
    ASSUME ExtractionInv, NEW h, Unselect(h)
    PROVE  selected' \in [Workers -> Selection]
BY DEF Unselect, NoSelection, Selection, ExtractionInv, ExtractionTypeOK

LEMMA RevocationKeeps ==
    ASSUME ExtractionInv, NEW h \in Workers, RevocationStep(h)
    PROVE  ExtractionInv'
<1> USE InvFacts
<1>0. selected \in [Workers -> Selection]
  BY DEF ExtractionInv, ExtractionTypeOK
<1>1. CASE \/ RevokeAndInvalidate(h)
           \/ \E g \in Grants : CascadeAndInvalidate(h, g)
  <2>1. Invalidate(h) /\ Unselect(h) /\ UNCHANGED <<messages, extracts, downloads, job>>
    BY <1>1 DEF RevokeAndInvalidate, CascadeAndInvalidate
  <2>2. QED
    BY <2>1, InvalidateKeeps, UnselectType, RowStepKeeps
<1>2. CASE SweepAndInvalidate(h)
  <2>1. Unselect(h) /\ UNCHANGED <<messages, extracts, downloads, job>>
    BY <1>2 DEF SweepAndInvalidate
  <2>2. CASE Invalidate(h)
    BY <2>1, <2>2, InvalidateKeeps, UnselectType, RowStepKeeps
  <2>3. CASE extraction' = extraction
    <3>1. Grows /\ \A e \in Extractions : RowOK(e)'
      BY <2>1, <2>3 DEF Grows, RowOK
    <3>2. QED
      BY <2>1, <2>3, <3>1, UnselectType, RowStepKeeps
  <2>4. QED
    BY <1>2, <2>2, <2>3 DEF SweepAndInvalidate
<1>3. CASE DeleteAndCascade(h)
  <2>1. /\ UNCHANGED <<messages, extracts, selected, job>>
        /\ downloads' \subseteq downloads
    BY <1>3 DEF DeleteAndCascade
  <2>2. \A e \in Extractions :
           /\ \/ extraction'[e].status = extraction[e].status
              \/ extraction'[e].status = "deleted"
           /\ extraction'[e].output = extraction[e].output
           /\ extraction'[e] \in ExtractionRow
    BY <1>3 DEF DeleteAndCascade, ExtractionRow, ExtractionStatus
  <2>3. extraction' \in [Extractions -> ExtractionRow]
    BY <1>3, <2>2 DEF DeleteAndCascade
  <2>4. Grows /\ \A e \in Extractions : RowOK(e)'
    BY <2>1, <2>2 DEF Grows, RowOK
  <2>5. QED
    BY <1>0, <2>1, <2>3, <2>4, RowStepKeeps
<1>4. ASSUME NEW g \in Grants, SelectInFlight(h, g) PROVE ExtractionInv'
  <2>1. Grows /\ \A e \in Extractions : RowOK(e)'
    BY <1>4 DEF SelectInFlight, Grows, RowOK
  <2>2. InFlight(g) \subseteq Extractions
    BY DEF InFlight
  <2>3. selected' \in [Workers -> Selection]
    BY <1>0, <1>4, <2>2 DEF SelectInFlight, Selection
  <2>4. QED
    BY <1>4, <2>1, <2>3, RowStepKeeps DEF SelectInFlight
<1>5. CASE AbortAndForget(h)
  <2>1. Grows /\ \A e \in Extractions : RowOK(e)'
    BY <1>5 DEF AbortAndForget, Grows, RowOK
  <2>2. QED
    BY <1>5, <2>1, UnselectType, RowStepKeeps DEF AbortAndForget
<1>6. QED
  BY <1>1, <1>2, <1>3, <1>4, <1>5 DEF RevocationStep

LEMMA InitKeeps == ExtractionInit => ExtractionInv
BY DEF ExtractionInit, ExtractionInv, ExtractionTypeOK, NoExtraction, ExtractionRow,
       ExtractionStatus, NoSelection, Selection, Free, Job, JobOps, JobOK, RowOK,
       DownloadHasOutput

LEMMA NextKeeps == ExtractionInv /\ [ExtractionNext]_allVars => ExtractionInv'
<1> SUFFICES ASSUME ExtractionInv, [ExtractionNext]_allVars PROVE ExtractionInv'
  OBVIOUS
<1>1. CASE UNCHANGED xVars
  BY <1>1 DEF xVars, ExtractionInv, ExtractionTypeOK, JobOK, RowOK, DownloadHasOutput
<1>2. CASE ExtractionNext
  BY <1>1, <1>2, RevocationKeeps, ClientKeeps, ActorKeeps, RunnerKeeps DEF ExtractionNext, AccessStep
<1>3. QED
  BY <1>1, <1>2 DEF allVars

\* For every number of grants, extractions, clients and workers, and every
\* order of deliveries: outputs exist, messages have rows, logged downloads
\* have outputs.
THEOREM ExtractionInvCorrect == ExtractionSpec => []ExtractionInv
<1>1. QED
  BY InitKeeps, NextKeeps, PTL DEF ExtractionSpec

\* The type invariant of the extractions.
THEOREM ExtractionTypesCorrect == ExtractionSpec => []ExtractionTypeOK
<1>1. ExtractionInv => ExtractionTypeOK
  BY DEF ExtractionInv
<1>2. QED
  BY <1>1, ExtractionInvCorrect, PTL

\* A complete extraction's output is in storage, redeliveries included.
THEOREM OutputsExist == ExtractionSpec => []OutputExists
<1>1. ExtractionInv => OutputExists
  BY DEF ExtractionInv, RowOK, OutputExists
<1>2. QED
  BY <1>1, ExtractionInvCorrect, PTL

\* A download is logged only of an extraction whose output is in storage.
THEOREM DownloadsHaveOutput == ExtractionSpec => []DownloadHasOutput
<1>1. ExtractionInv => DownloadHasOutput
  BY DEF ExtractionInv
<1>2. QED
  BY <1>1, ExtractionInvCorrect, PTL

\* A message is only ever sent for a committed row.
THEOREM MessagesHaveRows == ExtractionSpec => []MessageHasRow
<1>1. ExtractionInv => MessageHasRow
  <2> SUFFICES ASSUME ExtractionInv PROVE MessageHasRow
    OBVIOUS
  <2>1. \A k \in Runners : JobOK(job[k]) /\ job[k] \in Job
    BY InvFacts DEF Actors, JobOK
  <2>2. \A k \in Runners : job[k].ext # None => extraction[job[k].ext].status # "absent"
    BY <2>1 DEF JobOK, Job, JobOps
  <2>3. QED
    BY <2>2 DEF MessageHasRow, ExtractionInv
<1>2. QED
  BY <1>1, ExtractionInvCorrect, PTL

-----------------------------------------------------------------------------
(* An extraction never outlives its grant                                  *)

\* Only the deletion of a dataset removes a grant.
LEMMA GrantsStayStored ==
    ASSUME TypeInv, ExtractionNext, \A h \in Handlers : ~DeleteAndCascade(h),
           NEW g \in Grants, Stored(grant[g].status)
    PROVE  Stored(grant'[g].status)
<1>0. grant \in [Grants -> AccessGrant]
  BY DEF TypeInv, TypeOK
<1>1. ASSUME NEW h \in Handlers, PlainStep(h) PROVE Stored(grant'[g].status)
  <2>1. \/ UNCHANGED grant
        \/ AttachFail(h)
        \/ \E k \in Grants : ApproveCommit(h, k)
        \/ ExtendCommit(h)
    BY <1>1 DEF PlainStep, dbVars, SubmitLoad, RejectLoad, ApproveLoad, AttachCommit,
                RevokeLoad, ExtendLoad, PublishLoad, UnarchiveLoad, ArchiveLoad, DeleteLoad,
                ListGrants, SubmitCommit, RejectCommit, StatusCommit, ArchiveCommit
  <2>2. CASE AttachFail(h)
    BY <1>0, <2>2 DEF AttachFail, AccessGrant
  <2>3. ASSUME NEW k \in Grants, ApproveCommit(h, k) PROVE Stored(grant'[g].status)
    BY <1>0, <2>3 DEF ApproveCommit, NewGrant, Stored
  <2>4. CASE ExtendCommit(h)
    BY <1>0, <2>4 DEF ExtendCommit, SetExpiry, AccessGrant
  <2>5. QED
    BY <2>1, <2>2, <2>3, <2>4
<1>2. CASE AccessStep
  <2>1. (\E h \in Handlers : PlainStep(h)) \/ UNCHANGED grant
    BY <1>2 DEF AccessStep, SweepLoad, SweepUser, dbVars, Tick, UserStep, RequestDeletion,
                GraceElapses, CancelDeletion
  <2>2. QED
    BY <1>1, <2>1
<1>3. ASSUME NEW h \in Workers, RevocationStep(h) PROVE Stored(grant'[g].status)
  <2>1. \/ UNCHANGED grant
        \/ \E k \in Grants : CascadeRevoke(h, k)
        \/ RevokeCommit(h)
        \/ SweepCommit(h)
    BY <1>3 DEF RevocationStep, RevokeAndInvalidate, CascadeAndInvalidate, SweepAndInvalidate,
                SelectInFlight, AbortAndForget, Abort, dbVars, vars
  <2>2. ASSUME NEW k \in Grants, CascadeRevoke(h, k) PROVE Stored(grant'[g].status)
    BY <1>0, <2>2 DEF CascadeRevoke, RevokeWrites, AccessGrant, Stored
  <2>3. CASE RevokeCommit(h)
    BY <1>0, <2>3 DEF RevokeCommit, RevokeWrites, AccessGrant, Stored
  <2>4. CASE SweepCommit(h)
    BY <1>0, <2>4 DEF SweepCommit, AccessGrant, Stored
  <2>5. QED
    BY <2>1, <2>2, <2>3, <2>4
<1>4. ASSUME NEW c \in Clients, ClientStep(c) PROVE UNCHANGED grant
  BY <1>4 DEF ClientStep, CreateLoad, CreateCommit, DownloadLoad, Dispatch, DownloadCommit,
              ClientLost, vars
<1>5. ASSUME NEW a \in Actors, ActorStep(a) PROVE UNCHANGED grant
  BY <1>5 DEF ActorStep, Start, StartMissing, RowGone, PutOutput, Fail, Complete, vars
<1>6. ASSUME NEW k \in Runners, RunnerStep(k) PROVE UNCHANGED grant
  BY <1>6 DEF RunnerStep, Ack, WorkerLost, Redeliver, ChildKilled, vars
<1>7. QED
  BY <1>2, <1>3, <1>4, <1>5, <1>6 DEF ExtractionNext

\* Every other step inserts extractions of stored grants only.
LEMMA RowsKeepGrant ==
    ASSUME ExtractionInv, ExtractionHasGrant, ExtractionNext,
           \A h \in Handlers : ~DeleteAndCascade(h)
    PROVE  \A e \in Extractions : Stored(extraction'[e].status) =>
               /\ extraction'[e].grant \in Grants
               /\ Stored(grant[extraction'[e].grant].status)
<1>0. /\ extraction \in [Extractions -> ExtractionRow]
      /\ \A e \in Extractions : Stored(extraction[e].status) =>
            extraction[e].grant \in Grants /\ Stored(grant[extraction[e].grant].status)
  BY InvFacts DEF ExtractionHasGrant, StoredRow, ExtractionRow
<1> DEFINE Same == \A e \in Extractions :
              /\ extraction'[e].grant = extraction[e].grant
              /\ Stored(extraction'[e].status) => Stored(extraction[e].status)
<1>1. CASE AccessStep
  BY <1>0, <1>1 DEF AccessStep, xVars
<1>2. ASSUME NEW h \in Workers, RevocationStep(h) PROVE Same
  <2>1. Invalidate(h) \/ UNCHANGED extraction
    BY <1>2 DEF RevocationStep, RevokeAndInvalidate, CascadeAndInvalidate, SweepAndInvalidate,
                SelectInFlight, AbortAndForget
  <2>2. QED
    BY <1>0, <2>1 DEF Invalidate, StoredRow, ExtractionRow
<1>3. ASSUME NEW c \in Clients, ClientStep(c), UNCHANGED extraction PROVE Same
  BY <1>3
<1>4. ASSUME NEW c \in Clients, NEW x \in Extractions, CreateCommit(c, x)
      PROVE  \A e \in Extractions : Stored(extraction'[e].status) =>
                 extraction'[e].grant \in Grants /\ Stored(grant[extraction'[e].grant].status)
  <2>1. job[c].grt \in Grants
    BY <1>4, InvFacts DEF CreateCommit, JobOK, Actors
  <2>2. QED
    BY <1>0, <1>4, <2>1 DEF CreateCommit, InsertExtraction
<1>5. ASSUME NEW a \in Actors, ActorStep(a) PROVE Same
  <2>1. \/ UNCHANGED extraction
        \/ \E e \in Extractions : Start(a, e)
        \/ Fail(a)
        \/ Complete(a)
    BY <1>5 DEF ActorStep, StartMissing, RowGone, PutOutput
  <2>2. ASSUME NEW e \in Extractions, Start(a, e) PROVE Same
    BY <1>0, <2>2 DEF Start, StoredRow, ExtractionRow
  <2>3. CASE Fail(a)
    BY <1>0, <2>3 DEF Fail, StoredRow, ExtractionRow
  <2>4. CASE Complete(a)
    BY <1>0, <2>4 DEF Complete, StoredRow, ExtractionRow
  <2>5. QED
    BY <2>1, <2>2, <2>3, <2>4
<1>6. ASSUME NEW k \in Runners, RunnerStep(k) PROVE Same
  BY <1>6 DEF RunnerStep, Ack, WorkerLost, Redeliver, ChildKilled
<1>7. Same => \A e \in Extractions : Stored(extraction'[e].status) =>
                 extraction'[e].grant \in Grants /\ Stored(grant[extraction'[e].grant].status)
  BY <1>0
<1>8. \A c \in Clients : ClientStep(c) =>
          UNCHANGED extraction \/ \E x \in Extractions : CreateCommit(c, x)
  BY DEF ClientStep, CreateLoad, DownloadLoad, Dispatch, DownloadCommit, ClientLost
<1>9. QED
  BY <1>1, <1>2, <1>3, <1>4, <1>5, <1>6, <1>7, <1>8 DEF ExtractionNext

LEMMA NextHasGrant ==
    ASSUME TypeInv, ExtractionInv, ExtractionHasGrant, [ExtractionNext]_allVars
    PROVE  ExtractionHasGrant'
<1>0. /\ extraction \in [Extractions -> ExtractionRow]
      /\ grant \in [Grants -> AccessGrant]
      /\ None \notin Grants
  BY InvFacts, ConstantsAssumption DEF TypeInv, TypeOK
<1>1. CASE UNCHANGED allVars
  BY <1>1 DEF allVars, vars, xVars, ExtractionHasGrant, StoredRow
<1>2. ASSUME NEW h \in Handlers, DeleteAndCascade(h) PROVE ExtractionHasGrant'
  <2> SUFFICES ASSUME NEW e \in Extractions, Stored(extraction'[e].status)
               PROVE  extraction'[e].grant # None /\ Stored(grant'[extraction'[e].grant].status)
    BY DEF ExtractionHasGrant, StoredRow
  <2>1. /\ e \notin ExtractionsOf(session[h].ds)
        /\ extraction'[e] = extraction[e]
    BY <1>0, <1>2 DEF DeleteAndCascade, ExtractionRow, Stored
  <2>2. extraction[e].grant \in Grants /\ Stored(grant[extraction[e].grant].status)
    BY <1>0, <2>1 DEF ExtractionHasGrant, StoredRow, ExtractionRow
  <2>3. grant[extraction[e].grant].dataset # session[h].ds
    BY <1>0, <2>1, <2>2 DEF ExtractionsOf
  <2>4. grant'[extraction[e].grant] = grant[extraction[e].grant]
    BY <1>2, <2>2, <2>3 DEF DeleteAndCascade, DeleteCommit
  <2>5. QED
    BY <1>0, <2>1, <2>2, <2>4
<1>3. CASE ExtractionNext /\ \A h \in Handlers : ~DeleteAndCascade(h)
  <2>1. \A e \in Extractions : Stored(extraction'[e].status) =>
           extraction'[e].grant \in Grants /\ Stored(grant[extraction'[e].grant].status)
    BY <1>3, RowsKeepGrant
  <2>2. \A g \in Grants : Stored(grant[g].status) => Stored(grant'[g].status)
    BY <1>3, GrantsStayStored
  <2>3. QED
    BY <1>0, <2>1, <2>2 DEF ExtractionHasGrant, StoredRow
<1>4. QED
  BY <1>1, <1>2, <1>3

\* For every number of grants, extractions and concurrent deletions, a stored
\* extraction has a stored grant.
THEOREM ExtractionsHaveGrants == ExtractionSpec => []ExtractionHasGrant
<1>1. ExtractionInit => ExtractionHasGrant
  BY DEF ExtractionInit, ExtractionHasGrant, StoredRow, Stored, NoExtraction
<1>2. TypeInv /\ ExtractionInv /\ ExtractionHasGrant /\ [ExtractionNext]_allVars
        => ExtractionHasGrant'
  BY NextHasGrant
<1>3. ExtractionSpec => []TypeInv
  BY ImplementsAccess, TypeCorrect, PTL
<1>4. QED
  BY <1>1, <1>2, <1>3, ExtractionInvCorrect, PTL DEF ExtractionSpec
=============================================================================
