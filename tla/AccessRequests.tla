--------------------------- MODULE AccessRequests ---------------------------
(***************************************************************************)
(* Dataset access requests, the grants an approval creates, the dataset    *)
(* life cycle that cascades into them, and the account-deletion sweep      *)
(* (backend/app/services/requests_service.py, admin_datasets_service.py,   *)
(* worker/tasks/notifications.py, routers/requests.py).                    *)
(*                                                                         *)
(* Every handler runs on a session of its own: it SELECTs rows into Python *)
(* objects, tests their status there, and later commits UPDATEs addressed  *)
(* by primary key.  No row is locked and the UPDATE does not repeat the    *)
(* test, so a handler is a Load step and a Commit step, and everything     *)
(* between them may interleave with the other sessions.  SQLAlchemy sends  *)
(* an UPDATE only for a column whose value differs from the loaded one.    *)
(***************************************************************************)
EXTENDS Naturals, FiniteSets

CONSTANTS
    Users,
    Datasets,
    Requests,        \* primary keys of dataset_requests
    Grants,          \* primary keys of access_grants
    RequestUser,     \* the user who submits each request
    RequestDataset,  \* the dataset each request is for
    Handlers,        \* API request handlers that may be in flight together
    Sweepers,        \* executions of process_pending_deletions
    None,            \* SQL NULL / Python None
    Durations,       \* GrantDuration values, in abstract days
    MaxTime,         \* bound of the clock
    MaxExpiry        \* bound of the expiry dates

Workers == Handlers \cup Sweepers

DurationType == [kind : {"relative", "custom"}, n : Nat]

ASSUME ConstantsAssumption ==
    /\ RequestUser \in [Requests -> Users]
    /\ RequestDataset \in [Requests -> Datasets]
    /\ None \notin Users \cup Datasets \cup Requests \cup Grants
    /\ Durations \subseteq DurationType
    /\ MaxTime \in Nat
    /\ MaxExpiry \in Nat

\* Grants are created one per approval, so a run has finitely many of them.
ASSUME GrantsFinite == IsFiniteSet(Grants)

VARIABLES
    dataset,   \* datasets.status
    request,   \* dataset_requests.status
    grant,     \* access_grants rows
    granted,   \* users.datasets_granted
    deletion,  \* users.deletion_requested_at, relative to the grace period
    now,       \* wall clock, in days
    session    \* what each worker's SQLAlchemy session holds in memory

dbVars == <<dataset, request, grant, granted, deletion, now>>
vars == <<dataset, request, grant, granted, deletion, now, session>>

-----------------------------------------------------------------------------
(* Types.  "absent" is a key never inserted, "deleted" a row removed.       *)

DatasetStatus == {"draft", "published", "archived", "deleted"}

RequestStatus == {"absent", "pending", "approved", "rejected", "deleted"}

GrantStatus == {"absent", "active", "revoked", "deleted"}

AccessGrant ==
    [status : GrantStatus, user : Users \cup {None}, dataset : Datasets \cup {None},
     request : Requests \cup {None}, expires_at : Nat]

NoGrant == [status |-> "absent", user |-> None, dataset |-> None,
            request |-> None, expires_at |-> 0]

Ops == {"idle", "submit", "attach", "approve", "reject", "extend", "revoke",
        "status", "archive", "archive_revoke", "delete", "delete_revoke", "sweep"}

Session ==
    [op : Ops,
     req : Requests \cup {None},      \* the loaded DatasetRequest
     grt : Grants \cup {None},        \* the loaded AccessGrant
     ds : Datasets \cup {None},       \* the loaded Dataset
     target : DatasetStatus,          \* the status the handler will write
     dirty : BOOLEAN,                 \* Dataset.status set but not yet flushed
     todo : SUBSET Grants,            \* loaded grants still to be revoked
     users : SUBSET Users,            \* users the sweep has still to visit
     cnt : [Users -> Nat],            \* cached User.datasets_granted
     exp : Nat]                       \* the computed expires_at

ZeroCounts == [u \in Users |-> 0]

Idle == [op |-> "idle", req |-> None, grt |-> None, ds |-> None,
         target |-> "draft", dirty |-> FALSE, todo |-> {}, users |-> {},
         cnt |-> ZeroCounts, exp |-> 0]

Stored(status) == status \notin {"absent", "deleted"}

TypeOK ==
    /\ dataset \in [Datasets -> DatasetStatus]
    /\ request \in [Requests -> RequestStatus]
    /\ grant \in [Grants -> AccessGrant]
    /\ granted \in [Users -> Nat]
    /\ deletion \in [Users -> {"none", "pending", "due"}]
    /\ now \in Nat
    /\ session \in [Workers -> Session]

\* Datasets exist (create_dataset may give any status); nothing is requested.
Init ==
    /\ dataset \in [Datasets -> {"draft", "published", "archived"}]
    /\ request = [r \in Requests |-> "absent"]
    /\ grant = [g \in Grants |-> NoGrant]
    /\ granted = ZeroCounts
    /\ deletion = [u \in Users |-> "none"]
    /\ now = 0
    /\ session = [h \in Workers |-> Idle]

-----------------------------------------------------------------------------
(* Helpers                                                                 *)

Begin(h, s) == session[h] = Idle /\ session' = [session EXCEPT ![h] = s]

Finish(h) == session' = [session EXCEPT ![h] = Idle]

\* The request's or grant's user, loaded with it: only that count is cached.
CacheCount(u) == [ZeroCounts EXCEPT ![u] = granted[u]]

\* compute_expiry: a custom date is absolute, every other key is relative.
ComputeExpiry(from, dur) ==
    IF dur.kind = "custom" THEN dur.n ELSE from + dur.n

DecrementUnclamped(n) == n - 1
NoDecrement(n) == n
Decrement(n) == IF n = 0 THEN 0 ELSE n - 1

\* UPDATE users SET datasets_granted = new, sent only if the cache changed.
WriteCount(u, old, new) ==
    granted' = IF new = old THEN granted ELSE [granted EXCEPT ![u] = new]

\* The only status in which a request may be reviewed.
CanReviewAgain(r) == Stored(request[r])
CanReview(r) == request[r] = "pending"

\* UPDATE dataset_requests by key; a deleted row makes the commit fail.
ReviewSkipped(r, status) == Stored(request[r]) /\ request' = request
ReviewUnchecked(r, status) == request' = [request EXCEPT ![r] = status]
Review(r, status) ==
    /\ Stored(request[r])
    /\ request' = [request EXCEPT ![r] = status]

\* The AccessGrant an approval of r inserts.
UnlinkedGrant(r, exp) ==
    [status |-> "active", user |-> RequestUser[r], dataset |-> RequestDataset[r],
     request |-> None, expires_at |-> exp]
NewGrant(r, exp) ==
    [status |-> "active", user |-> RequestUser[r], dataset |-> RequestDataset[r],
     request |-> r, expires_at |-> exp]

ActiveGrantsOf(d) == {g \in Grants : grant[g].status = "active" /\ grant[g].dataset = d}

-----------------------------------------------------------------------------
(* Submission: create_request, and the supporting document that follows it *)

SubmitLoad(h, r) ==
    /\ request[r] = "absent"
    /\ dataset[RequestDataset[r]] = "published"
    /\ Begin(h, [Idle EXCEPT !.op = "submit", !.req = r])
    /\ UNCHANGED dbVars

\* INSERT: the key is fresh, and the foreign key needs the dataset row.
\* Without a file the handler is done; with one it goes on to store it.
SubmitCommit(h, withFile) ==
    LET r == session[h].req IN
    /\ session[h].op = "submit"
    /\ request[r] = "absent"
    /\ dataset[RequestDataset[r]] # "deleted"
    /\ request' = [request EXCEPT ![r] = "pending"]
    /\ session' = [session EXCEPT ![h] =
                      IF withFile THEN [Idle EXCEPT !.op = "attach", !.req = r] ELSE Idle]
    /\ UNCHANGED <<dataset, grant, granted, deletion, now>>

\* The document was stored and linked.
AttachCommit(h) ==
    /\ session[h].op = "attach"
    /\ Finish(h)
    /\ UNCHANGED dbVars

\* The document could not be stored: the committed request is deleted again,
\* whatever happened to it meanwhile; grants.request_id becomes NULL.
AttachFail(h) ==
    LET r == session[h].req IN
    /\ session[h].op = "attach"
    /\ request' = [request EXCEPT ![r] = "deleted"]
    /\ grant' = [g \in Grants |->
                    IF grant[g].request = r THEN [grant[g] EXCEPT !.request = None]
                    ELSE grant[g]]
    /\ Finish(h)
    /\ UNCHANGED <<dataset, granted, deletion, now>>

-----------------------------------------------------------------------------
(* Review                                                                  *)

ApproveLoad(h, r, dur) ==
    /\ CanReview(r)
    /\ ComputeExpiry(now, dur) <= MaxExpiry
    /\ Begin(h, [Idle EXCEPT !.op = "approve", !.req = r,
                             !.cnt = CacheCount(RequestUser[r]),
                             !.exp = ComputeExpiry(now, dur)])
    /\ UNCHANGED dbVars

\* INSERT the grant, UPDATE the request and the user's counter, one commit.
\* A request row deleted meanwhile makes the commit fail (see Abort).
ApproveCommit(h, g) ==
    LET r == session[h].req
        u == RequestUser[r]
        c == session[h].cnt[u]
    IN
    /\ session[h].op = "approve"
    /\ Review(r, "approved")
    /\ grant[g].status = "absent"
    /\ grant' = [grant EXCEPT ![g] = NewGrant(r, session[h].exp)]
    /\ WriteCount(u, c, c + 1)
    /\ Finish(h)
    /\ UNCHANGED <<dataset, deletion, now>>

RejectLoad(h, r) ==
    /\ CanReview(r)
    /\ Begin(h, [Idle EXCEPT !.op = "reject", !.req = r])
    /\ UNCHANGED dbVars

RejectCommit(h) ==
    LET r == session[h].req IN
    /\ session[h].op = "reject"
    /\ Review(r, "rejected")
    /\ Finish(h)
    /\ UNCHANGED <<dataset, grant, granted, deletion, now>>

-----------------------------------------------------------------------------
(* Grants                                                                  *)

\* An extension to the loaded expiry sends no UPDATE and is left out.
ExtendLoad(h, g, dur) ==
    LET e == ComputeExpiry(grant[g].expires_at, dur) IN
    /\ grant[g].status = "active"
    /\ e # grant[g].expires_at
    /\ e <= MaxExpiry
    /\ Begin(h, [Idle EXCEPT !.op = "extend", !.grt = g, !.exp = e])
    /\ UNCHANGED dbVars

\* UPDATE access_grants SET expires_at; the status column is not written.
Reactivate(g, exp) ==
    grant' = [grant EXCEPT ![g].expires_at = exp, ![g].status = "active"]
SetExpiry(g, exp) == grant' = [grant EXCEPT ![g].expires_at = exp]

ExtendCommit(h) ==
    LET g == session[h].grt IN
    /\ session[h].op = "extend"
    /\ Stored(grant[g].status)
    /\ SetExpiry(g, session[h].exp)
    /\ Finish(h)
    /\ UNCHANGED <<dataset, request, granted, deletion, now>>

RevokeLoad(h, g) ==
    /\ grant[g].status = "active"
    /\ Begin(h, [Idle EXCEPT !.op = "revoke", !.grt = g,
                             !.cnt = CacheCount(grant[g].user)])
    /\ UNCHANGED dbVars

\* The writes of revoke_grant, for the counter value cached in the session.
RevokeWrites(g, cached) ==
    /\ Stored(grant[g].status)
    /\ grant' = [grant EXCEPT ![g].status = "revoked"]
    /\ WriteCount(grant[g].user, cached, Decrement(cached))

RevokeCommit(h) ==
    LET g == session[h].grt IN
    /\ session[h].op = "revoke"
    /\ RevokeWrites(g, session[h].cnt[grant[g].user])
    /\ Finish(h)
    /\ UNCHANGED <<dataset, request, deletion, now>>

-----------------------------------------------------------------------------
(* Dataset life cycle                                                      *)

\* set_publish_status; setting the loaded status again sends no UPDATE.
CanPublish(d, target) == dataset[d] \notin {"archived", "deleted", target}

PublishLoad(h, d, target) ==
    /\ CanPublish(d, target)
    /\ Begin(h, [Idle EXCEPT !.op = "status", !.ds = d, !.target = target])
    /\ UNCHANGED dbVars

UnarchiveLoad(h, d) ==
    /\ dataset[d] = "archived"
    /\ Begin(h, [Idle EXCEPT !.op = "status", !.ds = d, !.target = "draft"])
    /\ UNCHANGED dbVars

StatusCommit(h) ==
    LET d == session[h].ds IN
    /\ session[h].op = "status"
    /\ dataset[d] # "deleted"
    /\ dataset' = [dataset EXCEPT ![d] = session[h].target]
    /\ Finish(h)
    /\ UNCHANGED <<request, grant, granted, deletion, now>>

\* archive_dataset sets the status in memory only; autoflush is off.
ArchiveLoad(h, d) ==
    /\ dataset[d] # "deleted"
    /\ Begin(h, [Idle EXCEPT !.op = "archive", !.ds = d, !.target = "archived",
                             !.dirty = (dataset[d] # "archived")])
    /\ UNCHANGED dbVars

DeleteLoad(h, d) ==
    /\ dataset[d] # "deleted"
    /\ Begin(h, [Idle EXCEPT !.op = "delete", !.ds = d])
    /\ UNCHANGED dbVars

\* list_grants_for_dataset(status="active"), each with its user.
UnexpiredGrants(d) == {g \in ActiveGrantsOf(d) : grant[g].expires_at > now}
GrantsToRevoke(d) == ActiveGrantsOf(d)

ListGrants(h) ==
    LET todo == GrantsToRevoke(session[h].ds)
        owners == {grant[g].user : g \in todo}
    IN
    /\ session[h].op \in {"archive", "delete"}
    /\ session' = [session EXCEPT
           ![h].op = IF session[h].op = "archive" THEN "archive_revoke" ELSE "delete_revoke",
           ![h].todo = todo,
           ![h].cnt = [u \in Users |-> IF u \in owners THEN granted[u] ELSE 0]]
    /\ UNCHANGED dbVars

\* A pending Dataset.status is flushed by the next commit of the session.
FlushDataset(h) ==
    LET d == session[h].ds IN
    IF session[h].dirty
    THEN /\ dataset[d] # "deleted"
         /\ dataset' = [dataset EXCEPT ![d] = session[h].target]
    ELSE dataset' = dataset

\* One iteration of the cascade: revoke_grant commits, and with it the
\* dataset's status the first time round.
CascadeRevoke(h, g) ==
    LET u == grant[g].user
        c == session[h].cnt[u]
    IN
    /\ session[h].op \in {"archive_revoke", "delete_revoke"}
    /\ g \in session[h].todo
    /\ RevokeWrites(g, c)
    /\ FlushDataset(h)
    /\ session' = [session EXCEPT ![h].todo = @ \ {g}, ![h].dirty = FALSE,
                                  ![h].cnt[u] = Decrement(c)]
    /\ UNCHANGED <<request, deletion, now>>

ArchiveCommit(h) ==
    /\ session[h].op = "archive_revoke"
    /\ session[h].todo = {}
    /\ FlushDataset(h)
    /\ Finish(h)
    /\ UNCHANGED <<request, grant, granted, deletion, now>>

\* ON DELETE CASCADE removes the dataset's requests and grants.
DeleteCommit(h) ==
    LET d == session[h].ds IN
    /\ session[h].op = "delete_revoke"
    /\ session[h].todo = {}
    /\ dataset' = [dataset EXCEPT ![d] = "deleted"]
    /\ request' = [r \in Requests |->
                      IF RequestDataset[r] = d /\ request[r] # "absent"
                      THEN "deleted" ELSE request[r]]
    /\ grant' = [g \in Grants |->
                    IF grant[g].dataset = d THEN [grant[g] EXCEPT !.status = "deleted"]
                    ELSE grant[g]]
    /\ Finish(h)
    /\ UNCHANGED <<granted, deletion, now>>

-----------------------------------------------------------------------------
(* Account deletion                                                        *)

RequestDeletion(u) ==
    /\ deletion[u] = "none"
    /\ deletion' = [deletion EXCEPT ![u] = "pending"]
    /\ UNCHANGED <<dataset, request, grant, granted, now, session>>

GraceElapses(u) ==
    /\ deletion[u] = "pending"
    /\ deletion' = [deletion EXCEPT ![u] = "due"]
    /\ UNCHANGED <<dataset, request, grant, granted, now, session>>

\* The user or an administrator withdraws the request, at any time.
CancelDeletion(u) ==
    /\ deletion[u] # "none"
    /\ deletion' = [deletion EXCEPT ![u] = "none"]
    /\ UNCHANGED <<dataset, request, grant, granted, now, session>>

\* The users past the grace period, with their counters.
SweepLoad(h) ==
    LET due == {u \in Users : deletion[u] = "due"} IN
    /\ due # {}
    /\ Begin(h, [Idle EXCEPT !.op = "sweep", !.users = due,
                    !.cnt = [u \in Users |-> IF u \in due THEN granted[u] ELSE 0]])
    /\ UNCHANGED dbVars

\* One user's active grants; they are revoked in the open transaction.
UnexpiredOfUser(u) ==
    {g \in Grants : grant[g].status = "active" /\ grant[g].user = u /\ grant[g].expires_at > now}
ActiveOfUser(u) == {g \in Grants : grant[g].status = "active" /\ grant[g].user = u}

SweepUser(h, u) ==
    /\ session[h].op = "sweep"
    /\ u \in session[h].users
    /\ session' = [session EXCEPT
           ![h].users = @ \ {u},
           ![h].todo = @ \cup ActiveOfUser(u)]
    /\ UNCHANGED dbVars

OwnedBy(gs, u) == {g \in gs : grant[g].user = u}

\* What decrementing once per revoked grant, never below zero, leaves.
SweptCount(cached, k) == IF k >= cached THEN 0 ELSE cached - k

\* The only commit of the sweep: all of it, or (a row is gone) nothing.
SweepCommit(h) ==
    LET todo == session[h].todo
        cnt == session[h].cnt
        new == [u \in Users |-> SweptCount(cnt[u], Cardinality(OwnedBy(todo, u)))]
    IN
    /\ session[h].op = "sweep"
    /\ session[h].users = {}
    /\ IF \A g \in todo : Stored(grant[g].status)
       THEN /\ grant' = [g \in Grants |->
                            IF g \in todo THEN [grant[g] EXCEPT !.status = "revoked"]
                            ELSE grant[g]]
            /\ granted' = [u \in Users |-> IF new[u] = cnt[u] THEN granted[u] ELSE new[u]]
       ELSE UNCHANGED <<grant, granted>>
    /\ Finish(h)
    /\ UNCHANGED <<dataset, request, deletion, now>>

-----------------------------------------------------------------------------
(* Environment                                                             *)

Tick ==
    /\ now < MaxTime
    /\ now' = now + 1
    /\ UNCHANGED <<dataset, request, grant, granted, deletion, session>>

\* The worker dies, its connection drops, or its commit fails because a row
\* it updates is gone or a deadlock is broken: what it had not committed is lost.
Abort(h) ==
    /\ session[h] # Idle
    /\ Finish(h)
    /\ UNCHANGED dbVars

-----------------------------------------------------------------------------

\* The steps of a handler that neither revoke a grant nor delete its dataset.
PlainStep(h) ==
    \/ \E r \in Requests :
          \/ SubmitLoad(h, r)
          \/ RejectLoad(h, r)
          \/ \E dur \in Durations : ApproveLoad(h, r, dur)
    \/ \E withFile \in BOOLEAN : SubmitCommit(h, withFile)
    \/ AttachCommit(h)
    \/ AttachFail(h)
    \/ RejectCommit(h)
    \/ \E g \in Grants :
          \/ ApproveCommit(h, g)
          \/ RevokeLoad(h, g)
          \/ \E dur \in Durations : ExtendLoad(h, g, dur)
    \/ ExtendCommit(h)
    \/ \E d \in Datasets :
          \/ \E target \in {"published", "draft"} : PublishLoad(h, d, target)
          \/ UnarchiveLoad(h, d)
          \/ ArchiveLoad(h, d)
          \/ DeleteLoad(h, d)
    \/ StatusCommit(h)
    \/ ListGrants(h)
    \/ ArchiveCommit(h)

HandlerStep(h) ==
    \/ PlainStep(h)
    \/ RevokeCommit(h)
    \/ \E g \in Grants : CascadeRevoke(h, g)
    \/ DeleteCommit(h)

SweeperStep(h) ==
    \/ SweepLoad(h)
    \/ \E u \in Users : SweepUser(h, u)
    \/ SweepCommit(h)

UserStep(u) == RequestDeletion(u) \/ GraceElapses(u) \/ CancelDeletion(u)

Next ==
    \/ \E h \in Handlers : HandlerStep(h)
    \/ \E h \in Sweepers : SweeperStep(h)
    \/ \E h \in Workers : Abort(h)
    \/ \E u \in Users : UserStep(u)
    \/ Tick

Spec == Init /\ [][Next]_vars

\* Celery beat starts the sweep daily and a lost task is started again, so a
\* sweep is not killed at the same point every day for ever.
SweepFairness ==
    \A h \in Sweepers :
        /\ WF_vars(SweepLoad(h))
        /\ SF_vars(\E u \in Users : SweepUser(h, u))
        /\ SF_vars(SweepCommit(h))

FairSpec == Spec /\ SweepFairness

-----------------------------------------------------------------------------
(* Properties that hold for any number of concurrent handlers               *)

\* A stored grant that names a request names one that was reviewed, and is
\* for that request's user and dataset.  A grant loses its request only by
\* the deletion of a request whose document could not be stored.
GrantTraceable ==
    \A g \in Grants :
        LET r == grant[g].request IN
        Stored(grant[g].status) /\ r # None =>
            /\ request[r] \in {"approved", "rejected"}
            /\ grant[g].user = RequestUser[r]
            /\ grant[g].dataset = RequestDataset[r]

\* An approved request has the grant that approve_request inserted with it,
\* whatever is revoked, rejected, archived or deleted around it.
ApprovedHasGrant ==
    \A r \in Requests :
        request[r] = "approved" =>
            \E g \in Grants : grant[g].request = r /\ Stored(grant[g].status)

\* permanently_delete_dataset leaves neither requests nor grants of the
\* dataset, not even those of handlers that loaded it before the deletion.
DeletedLeavesNothing ==
    \A d \in Datasets : dataset[d] = "deleted" =>
        /\ \A r \in Requests : RequestDataset[r] = d => ~Stored(request[r])
        /\ \A g \in Grants : grant[g].dataset = d => ~Stored(grant[g].status)

\* A revoked grant never becomes active again, although extend_grant and
\* the cascades write rows that were loaded while they were active.
RevocationFinal ==
    [][\A g \in Grants : grant[g].status = "revoked" => grant'[g].status # "active"]_vars

\* A user whose grace period has elapsed loses every active grant, unless
\* the deletion is withdrawn (process_pending_deletions).
SweepRevokes ==
    \A u \in Users :
        deletion[u] = "due" ~> (deletion[u] # "due" \/ \A g \in Grants : ~(grant[g].status = "active" /\ grant[g].user = u))

-----------------------------------------------------------------------------
(* Properties of one worker at a time                                       *)

\* test_cannot_approve_already_approved: a request yields at most one grant.
OneGrantPerRequest ==
    \A g1, g2 \in Grants :
        grant[g1].request = grant[g2].request /\ grant[g1].request # None => g1 = g2

\* "a rejected request cannot be re-approved without a new request"
\* (MASTER_PLAN.md:235): no grant was issued for a rejected request.
RejectedHasNoGrant ==
    \A r \in Requests : request[r] = "rejected" => \A g \in Grants : grant[g].request # r

\* users.datasets_granted is the number of the user's active grants.
CounterMatches ==
    \A u \in Users :
        granted[u] = Cardinality({g \in Grants : grant[g].status = "active" /\ grant[g].user = u})

\* When archive_dataset finishes, none of the dataset's grants is active.
ArchiveCascadeComplete ==
    [][\A h \in Handlers : ArchiveCommit(h) =>
          \A g \in Grants : grant'[g].dataset = session[h].ds => grant'[g].status # "active"]_vars
=============================================================================
