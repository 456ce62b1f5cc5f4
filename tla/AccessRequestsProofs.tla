------------------------ MODULE AccessRequestsProofs ------------------------
(***************************************************************************)
(* Proofs about AccessRequests, for any number of users, datasets,         *)
(* requests, grants and concurrent workers.                                *)
(***************************************************************************)
EXTENDS AccessRequests, FiniteSetTheorems, TLAPS

-----------------------------------------------------------------------------
(* The inductive invariant                                                 *)

\* The session holds the rows its operation loaded.
SessionOK(s) ==
    /\ s \in Session
    /\ s.op \in {"submit", "attach", "approve", "reject"} => s.req \in Requests
    /\ s.op \in {"extend", "revoke"} => s.grt \in Grants
    /\ s.op \in {"status", "archive", "archive_revoke", "delete", "delete_revoke"} =>
          s.ds \in Datasets
    /\ s.target # "deleted"

\* A stored grant has a user and a dataset: both columns are NOT NULL.
GrantsOwned ==
    \A g \in Grants : Stored(grant[g].status) =>
        grant[g].user \in Users /\ grant[g].dataset \in Datasets

TypeInv ==
    /\ TypeOK
    /\ \A h \in Workers : SessionOK(session[h])
    /\ GrantsOwned

\* The invariant of the database rows: each conjunct needs the others.
RowsInv == GrantTraceable /\ ApprovedHasGrant /\ DeletedLeavesNothing

Inv == TypeInv /\ RowsInv

-----------------------------------------------------------------------------
(* Lemmas about the helpers                                                *)

\* The empty session is well formed.
LEMMA IdleOK == SessionOK(Idle)
BY DEF SessionOK, Idle, Session, Ops, DatasetStatus, ZeroCounts

\* Storing a well-formed session keeps them all well formed.
LEMMA PutSession ==
    ASSUME NEW h \in Workers, NEW s, SessionOK(s), TypeInv,
           session' = [session EXCEPT ![h] = s]
    PROVE  /\ session' \in [Workers -> Session]
           /\ \A k \in Workers : SessionOK(session'[k])
<1>1. session \in [Workers -> Session] /\ \A k \in Workers : SessionOK(session[k])
  BY DEF TypeInv, TypeOK
<1>2. s \in Session
  BY DEF SessionOK
<1>3. \A k \in Workers : session'[k] = IF k = h THEN s ELSE session[k]
  BY <1>1
<1>4. QED
  BY <1>1, <1>2, <1>3

\* Both helpers that compute a counter stay in the naturals.
LEMMA DecrementType == ASSUME NEW n \in Nat PROVE Decrement(n) \in Nat
BY DEF Decrement

LEMMA SweptCountType ==
    ASSUME NEW c \in Nat, NEW gs \in SUBSET Grants
    PROVE  SweptCount(c, Cardinality(gs)) \in Nat
<1>1. Cardinality(gs) \in Nat
  BY GrantsFinite, FS_Subset, FS_CardinalityType
<1>2. QED
  BY <1>1 DEF SweptCount

LEMMA CacheCountType ==
    ASSUME NEW u, granted \in [Users -> Nat]
    PROVE  CacheCount(u) \in [Users -> Nat]
BY DEF CacheCount, ZeroCounts

LEMMA WriteCountType ==
    ASSUME NEW u, NEW old \in Nat, NEW new \in Nat, granted \in [Users -> Nat],
           WriteCount(u, old, new)
    PROVE  granted' \in [Users -> Nat]
BY DEF WriteCount

LEMMA ExpiryType ==
    ASSUME NEW from \in Nat, NEW dur \in Durations
    PROVE  ComputeExpiry(from, dur) \in Nat
BY ConstantsAssumption DEF ComputeExpiry, DurationType

\* Revoking a stored grant keeps the rows well typed and owned.
LEMMA RevokeWritesType ==
    ASSUME TypeInv, NEW g \in Grants, NEW c \in Nat, RevokeWrites(g, c)
    PROVE  /\ grant' \in [Grants -> AccessGrant]
           /\ granted' \in [Users -> Nat]
           /\ GrantsOwned'
<1>1. grant' \in [Grants -> AccessGrant]
  BY DEF TypeInv, TypeOK, RevokeWrites, AccessGrant, GrantStatus
<1>2. granted' \in [Users -> Nat]
  BY WriteCountType, DecrementType DEF TypeInv, TypeOK, RevokeWrites
<1>3. GrantsOwned'
  BY DEF TypeInv, TypeOK, RevokeWrites, AccessGrant, GrantsOwned, Stored
<1>4. QED
  BY <1>1, <1>2, <1>3

-----------------------------------------------------------------------------
(* Every step keeps the type invariant.  A Load step only stores a session; *)
(* a Commit step ends one and writes rows.                                  *)

LEMMA InitType == Init => TypeInv
<1> SUFFICES ASSUME Init PROVE TypeInv
  OBVIOUS
<1>1. Idle \in Session
  BY IdleOK DEF SessionOK
<1>2. TypeOK
  BY <1>1, ConstantsAssumption
  DEF Init, TypeOK, DatasetStatus, RequestStatus, AccessGrant, GrantStatus, NoGrant, ZeroCounts
<1>3. \A h \in Workers : SessionOK(session[h])
  BY IdleOK DEF Init
<1>4. GrantsOwned
  BY DEF Init, GrantsOwned, NoGrant, Stored
<1>5. QED
  BY <1>2, <1>3, <1>4 DEF TypeInv

\* A step that only stores a well-formed session.
LEMMA LoadType ==
    ASSUME TypeInv, NEW h \in Workers, NEW s, SessionOK(s),
           session' = [session EXCEPT ![h] = s], UNCHANGED dbVars
    PROVE  TypeInv'
<1>1. session' \in [Workers -> Session] /\ \A k \in Workers : SessionOK(session'[k])
  BY PutSession
<1>2. QED
  BY <1>1 DEF TypeInv, TypeOK, dbVars, GrantsOwned

\* A step that ends the session and writes well-typed rows.
LEMMA CommitType ==
    ASSUME TypeInv, NEW h \in Workers, Finish(h),
           dataset' \in [Datasets -> DatasetStatus],
           request' \in [Requests -> RequestStatus],
           grant' \in [Grants -> AccessGrant],
           granted' \in [Users -> Nat],
           deletion' = deletion, now' = now,
           GrantsOwned'
    PROVE  TypeInv'
<1>1. session' \in [Workers -> Session] /\ \A k \in Workers : SessionOK(session'[k])
  BY PutSession, IdleOK DEF Finish
<1>2. QED
  BY <1>1 DEF TypeInv, TypeOK

LEMMA LoadsKeepType ==
    ASSUME TypeInv, NEW h \in Workers,
           \/ \E r \in Requests : SubmitLoad(h, r) \/ RejectLoad(h, r)
           \/ \E r \in Requests, dur \in Durations : ApproveLoad(h, r, dur)
           \/ \E g \in Grants, dur \in Durations : ExtendLoad(h, g, dur)
           \/ \E g \in Grants : RevokeLoad(h, g)
           \/ \E d \in Datasets, target \in {"published", "draft"} : PublishLoad(h, d, target)
           \/ \E d \in Datasets : UnarchiveLoad(h, d) \/ ArchiveLoad(h, d) \/ DeleteLoad(h, d)
           \/ SweepLoad(h)
    PROVE  TypeInv'
<1> USE DEF Begin
<1>0. Idle \in Session /\ TypeOK /\ SessionOK(Idle)
  BY IdleOK DEF SessionOK, TypeInv
<1>1. ASSUME NEW r \in Requests, SubmitLoad(h, r) PROVE TypeInv'
  <2>1. SessionOK([Idle EXCEPT !.op = "submit", !.req = r])
    BY DEF SessionOK, Session, Idle, ZeroCounts, DatasetStatus, Ops
  <2>2. QED
    BY <1>1, <2>1, LoadType DEF SubmitLoad
<1>2. ASSUME NEW r \in Requests, RejectLoad(h, r) PROVE TypeInv'
  <2>1. SessionOK([Idle EXCEPT !.op = "reject", !.req = r])
    BY DEF SessionOK, Session, Idle, ZeroCounts, DatasetStatus, Ops
  <2>2. QED
    BY <1>2, <2>1, LoadType DEF RejectLoad
<1>3. ASSUME NEW r \in Requests, NEW dur \in Durations, ApproveLoad(h, r, dur) PROVE TypeInv'
  <2> DEFINE c == CacheCount(RequestUser[r])
             e == ComputeExpiry(now, dur)
  <2>1. e \in Nat /\ c \in [Users -> Nat]
    BY <1>0, ExpiryType, CacheCountType DEF TypeOK
  <2> HIDE DEF c, e
  <2>2. SessionOK([Idle EXCEPT !.op = "approve", !.req = r, !.cnt = c, !.exp = e])
    BY <2>1 DEF SessionOK, Session, Idle, DatasetStatus, Ops
  <2>3. QED
    BY <1>3, <2>2, LoadType DEF ApproveLoad, c, e
<1>4. ASSUME NEW g \in Grants, NEW dur \in Durations, ExtendLoad(h, g, dur) PROVE TypeInv'
  <2> DEFINE e == ComputeExpiry(grant[g].expires_at, dur)
  <2>1. e \in Nat
    BY <1>0, ExpiryType DEF TypeOK, AccessGrant
  <2> HIDE DEF e
  <2>2. SessionOK([Idle EXCEPT !.op = "extend", !.grt = g, !.exp = e])
    BY <2>1 DEF SessionOK, Session, Idle, ZeroCounts, DatasetStatus, Ops
  <2>3. QED
    BY <1>4, <2>2, LoadType DEF ExtendLoad, e
<1>5. ASSUME NEW g \in Grants, RevokeLoad(h, g) PROVE TypeInv'
  <2> DEFINE c == CacheCount(grant[g].user)
  <2>1. c \in [Users -> Nat]
    BY <1>0, CacheCountType DEF TypeOK
  <2> HIDE DEF c
  <2>2. SessionOK([Idle EXCEPT !.op = "revoke", !.grt = g, !.cnt = c])
    BY <2>1 DEF SessionOK, Session, Idle, DatasetStatus, Ops
  <2>3. QED
    BY <1>5, <2>2, LoadType DEF RevokeLoad, c
<1>6. ASSUME NEW d \in Datasets, NEW target \in {"published", "draft"}, PublishLoad(h, d, target)
      PROVE TypeInv'
  <2>1. SessionOK([Idle EXCEPT !.op = "status", !.ds = d, !.target = target])
    BY DEF SessionOK, Session, Idle, ZeroCounts, DatasetStatus, Ops
  <2>2. QED
    BY <1>6, <2>1, LoadType DEF PublishLoad
<1>7. ASSUME NEW d \in Datasets, UnarchiveLoad(h, d) PROVE TypeInv'
  <2>1. SessionOK([Idle EXCEPT !.op = "status", !.ds = d, !.target = "draft"])
    BY DEF SessionOK, Session, Idle, ZeroCounts, DatasetStatus, Ops
  <2>2. QED
    BY <1>7, <2>1, LoadType DEF UnarchiveLoad
<1>8. ASSUME NEW d \in Datasets, ArchiveLoad(h, d) PROVE TypeInv'
  <2>1. \A b \in BOOLEAN :
           SessionOK([Idle EXCEPT !.op = "archive", !.ds = d, !.target = "archived", !.dirty = b])
    BY DEF SessionOK, Session, Idle, ZeroCounts, DatasetStatus, Ops
  <2>2. (dataset[d] # "archived") \in BOOLEAN
    OBVIOUS
  <2>3. QED
    BY <1>8, <2>1, <2>2, LoadType DEF ArchiveLoad
<1>9. ASSUME NEW d \in Datasets, DeleteLoad(h, d) PROVE TypeInv'
  <2>1. SessionOK([Idle EXCEPT !.op = "delete", !.ds = d])
    BY DEF SessionOK, Session, Idle, ZeroCounts, DatasetStatus, Ops
  <2>2. QED
    BY <1>9, <2>1, LoadType DEF DeleteLoad
<1>10. CASE SweepLoad(h)
  <2> DEFINE due == {u \in Users : deletion[u] = "due"}
             c == [u \in Users |-> IF u \in due THEN granted[u] ELSE 0]
  <2>1. c \in [Users -> Nat] /\ due \subseteq Users
    BY <1>0 DEF TypeOK
  <2>2. session' = [session EXCEPT ![h] = [Idle EXCEPT !.op = "sweep", !.users = due, !.cnt = c]]
        /\ UNCHANGED dbVars
    BY <1>10 DEF SweepLoad
  <2> HIDE DEF due, c
  <2>3. SessionOK([Idle EXCEPT !.op = "sweep", !.users = due, !.cnt = c])
    BY <2>1 DEF SessionOK, Session, Idle, DatasetStatus, Ops
  <2>4. QED
    BY <2>2, <2>3, LoadType
<1>11. QED
  BY <1>1, <1>2, <1>3, <1>4, <1>5, <1>6, <1>7, <1>8, <1>9, <1>10

\* The commits that end a session.
LEMMA CommitsKeepType ==
    ASSUME TypeInv, NEW h \in Workers,
           \/ AttachCommit(h)
           \/ AttachFail(h)
           \/ RejectCommit(h)
           \/ \E g \in Grants : ApproveCommit(h, g)
           \/ ExtendCommit(h)
           \/ RevokeCommit(h)
           \/ StatusCommit(h)
           \/ ArchiveCommit(h)
           \/ DeleteCommit(h)
           \/ SweepCommit(h)
           \/ Abort(h)
    PROVE  TypeInv'
<1>0. TypeOK /\ GrantsOwned /\ session[h] \in Session /\ SessionOK(session[h])
  BY DEF TypeInv, TypeOK
<1>1. CASE AttachCommit(h)
  BY <1>0, <1>1, CommitType DEF AttachCommit, dbVars, TypeOK, GrantsOwned
<1>2. CASE AttachFail(h)
  <2>1. request' \in [Requests -> RequestStatus]
    BY <1>0, <1>2 DEF AttachFail, TypeOK, RequestStatus
  <2>2. grant' \in [Grants -> AccessGrant] /\ GrantsOwned'
    BY <1>0, <1>2 DEF AttachFail, TypeOK, AccessGrant, GrantsOwned
  <2>3. QED
    BY <1>0, <1>2, <2>1, <2>2, CommitType DEF AttachFail, TypeOK
<1>3. CASE RejectCommit(h)
  <2>1. request' \in [Requests -> RequestStatus]
    BY <1>0, <1>3 DEF RejectCommit, Review, TypeOK, RequestStatus
  <2>2. QED
    BY <1>0, <1>3, <2>1, CommitType DEF RejectCommit, TypeOK, GrantsOwned
<1>4. ASSUME NEW g \in Grants, ApproveCommit(h, g) PROVE TypeInv'
  <2> DEFINE r == session[h].req
             u == RequestUser[r]
             c == session[h].cnt[u]
  <2>1. r \in Requests /\ u \in Users /\ RequestDataset[r] \in Datasets
    BY <1>0, <1>4, ConstantsAssumption DEF ApproveCommit, SessionOK
  <2>2. c \in Nat /\ session[h].exp \in Nat
    BY <1>0, <2>1 DEF Session
  <2>3. granted' \in [Users -> Nat]
    BY <1>0, <1>4, <2>2, WriteCountType DEF ApproveCommit, TypeOK
  <2>4. request' \in [Requests -> RequestStatus]
    BY <1>0, <1>4 DEF ApproveCommit, Review, TypeOK, RequestStatus
  <2>5. NewGrant(r, session[h].exp) \in AccessGrant
    BY <2>1, <2>2 DEF NewGrant, AccessGrant, GrantStatus
  <2>6. grant' = [grant EXCEPT ![g] = NewGrant(r, session[h].exp)]
    BY <1>4 DEF ApproveCommit
  <2>7. grant' \in [Grants -> AccessGrant]
    BY <1>0, <2>5, <2>6 DEF TypeOK
  <2>8. GrantsOwned'
    BY <1>0, <2>1, <2>6 DEF TypeOK, GrantsOwned, NewGrant
  <2>9. QED
    BY <1>0, <1>4, <2>3, <2>4, <2>7, <2>8, CommitType DEF ApproveCommit, TypeOK
<1>5. CASE ExtendCommit(h)
  <2>1. session[h].grt \in Grants /\ session[h].exp \in Nat
    BY <1>0, <1>5 DEF ExtendCommit, SessionOK, Session
  <2>2. grant' \in [Grants -> AccessGrant] /\ GrantsOwned'
    BY <1>0, <1>5, <2>1 DEF ExtendCommit, SetExpiry, TypeOK, AccessGrant, GrantsOwned
  <2>3. QED
    BY <1>0, <1>5, <2>2, CommitType DEF ExtendCommit, TypeOK
<1>6. CASE RevokeCommit(h)
  <2> DEFINE g == session[h].grt
             c == session[h].cnt[grant[g].user]
  <2>1. g \in Grants /\ RevokeWrites(g, c)
    BY <1>0, <1>6 DEF RevokeCommit, SessionOK
  <2>2. c \in Nat
    BY <1>0, <2>1 DEF RevokeWrites, GrantsOwned, Session
  <2>3. QED
    BY <1>0, <1>6, <2>1, <2>2, RevokeWritesType, CommitType DEF RevokeCommit, TypeOK
<1>7. CASE StatusCommit(h)
  <2>1. dataset' \in [Datasets -> DatasetStatus]
    BY <1>0, <1>7 DEF StatusCommit, TypeOK, Session
  <2>2. QED
    BY <1>0, <1>7, <2>1, CommitType DEF StatusCommit, TypeOK, GrantsOwned
<1>8. CASE ArchiveCommit(h)
  <2>1. dataset' \in [Datasets -> DatasetStatus]
    BY <1>0, <1>8 DEF ArchiveCommit, FlushDataset, TypeOK, Session
  <2>2. QED
    BY <1>0, <1>8, <2>1, CommitType DEF ArchiveCommit, TypeOK, GrantsOwned
<1>9. CASE DeleteCommit(h)
  <2>1. dataset' \in [Datasets -> DatasetStatus]
    BY <1>0, <1>9 DEF DeleteCommit, TypeOK, DatasetStatus
  <2>2. request' \in [Requests -> RequestStatus]
    BY <1>0, <1>9 DEF DeleteCommit, TypeOK, RequestStatus
  <2>3. \A g \in Grants : grant'[g] = IF grant[g].dataset = session[h].ds
                                       THEN [grant[g] EXCEPT !.status = "deleted"]
                                       ELSE grant[g]
    BY <1>9 DEF DeleteCommit
  <2>4. grant' \in [Grants -> AccessGrant]
    <3>1. \A g \in Grants : grant'[g] \in AccessGrant
      BY <1>0, <2>3 DEF TypeOK, AccessGrant, GrantStatus
    <3>2. grant' = [g \in Grants |-> grant'[g]]
      BY <1>9 DEF DeleteCommit
    <3>3. QED
      BY <3>1, <3>2
  <2>5. GrantsOwned'
    BY <1>0, <2>3 DEF TypeOK, AccessGrant, GrantsOwned, Stored
  <2>6. QED
    BY <1>0, <1>9, <2>1, <2>2, <2>4, <2>5, CommitType DEF DeleteCommit, TypeOK
<1>10. CASE SweepCommit(h)
  <2> DEFINE todo == session[h].todo
             cnt == session[h].cnt
             new == [u \in Users |-> SweptCount(cnt[u], Cardinality(OwnedBy(todo, u)))]
  <2>1. todo \subseteq Grants /\ cnt \in [Users -> Nat]
    BY <1>0 DEF Session
  <2>2. ASSUME NEW u \in Users PROVE new[u] \in Nat
    <3>1. OwnedBy(todo, u) \in SUBSET Grants
      BY <2>1 DEF OwnedBy
    <3>2. QED
      BY <2>1, <3>1, SweptCountType
  <2>3. grant' \in [Grants -> AccessGrant] /\ GrantsOwned'
    BY <1>0, <1>10 DEF SweepCommit, TypeOK, AccessGrant, GrantStatus, GrantsOwned, Stored
  <2>4. \/ granted' = granted
        \/ granted' = [u \in Users |-> IF new[u] = cnt[u] THEN granted[u] ELSE new[u]]
    BY <1>10 DEF SweepCommit
  <2> HIDE DEF new, cnt
  <2>5. granted' \in [Users -> Nat]
    BY <1>0, <2>2, <2>4 DEF TypeOK
  <2>6. QED
    BY <1>0, <1>10, <2>3, <2>5, CommitType DEF SweepCommit, TypeOK
<1>11. CASE Abort(h)
  BY <1>0, <1>11, CommitType DEF Abort, dbVars, TypeOK, GrantsOwned
<1>12. QED
  BY <1>1, <1>2, <1>3, <1>4, <1>5, <1>6, <1>7, <1>8, <1>9, <1>10, <1>11

\* The steps that change a session without ending it.
LEMMA MiddlesKeepType ==
    ASSUME TypeInv, NEW h \in Workers,
           \/ \E withFile \in BOOLEAN : SubmitCommit(h, withFile)
           \/ ListGrants(h)
           \/ \E g \in Grants : CascadeRevoke(h, g)
           \/ \E u \in Users : SweepUser(h, u)
    PROVE  TypeInv'
<1> DEFINE s == session[h]
<1>0. /\ TypeOK /\ GrantsOwned /\ s \in Session /\ SessionOK(s)
      /\ session = [session EXCEPT ![h] = s]
  BY DEF TypeInv, TypeOK
<1>1. ASSUME NEW withFile \in BOOLEAN, SubmitCommit(h, withFile) PROVE TypeInv'
  <2> DEFINE t == IF withFile THEN [Idle EXCEPT !.op = "attach", !.req = s.req] ELSE Idle
  <2>1. s.req \in Requests
    BY <1>0, <1>1 DEF SubmitCommit, SessionOK
  <2>2. SessionOK(t)
    BY <2>1 DEF SessionOK, Session, Idle, ZeroCounts, DatasetStatus, Ops
  <2>3. session' = [session EXCEPT ![h] = t]
    BY <1>1 DEF SubmitCommit
  <2> HIDE DEF t
  <2>4. session' \in [Workers -> Session] /\ \A k \in Workers : SessionOK(session'[k])
    BY <2>2, <2>3, PutSession
  <2>5. request' \in [Requests -> RequestStatus]
    BY <1>0, <1>1 DEF SubmitCommit, TypeOK, RequestStatus
  <2>6. QED
    BY <1>0, <1>1, <2>4, <2>5 DEF SubmitCommit, TypeInv, TypeOK, GrantsOwned
<1>2. CASE ListGrants(h)
  <2> DEFINE todo == GrantsToRevoke(s.ds)
             owners == {grant[g].user : g \in todo}
             c == [u \in Users |-> IF u \in owners THEN granted[u] ELSE 0]
             op == IF s.op = "archive" THEN "archive_revoke" ELSE "delete_revoke"
             t == [s EXCEPT !.op = op, !.todo = todo, !.cnt = c]
  <2>1. session' = [session EXCEPT ![h] = t]
    BY <1>0, <1>2 DEF ListGrants, TypeOK
  <2>2. todo \subseteq Grants /\ c \in [Users -> Nat]
    BY <1>0 DEF GrantsToRevoke, ActiveGrantsOf, TypeOK
  <2>3. op \in {"archive_revoke", "delete_revoke"} /\ s.op \in {"archive", "delete"}
    BY <1>2 DEF ListGrants
  <2> HIDE DEF todo, c, op, s
  <2>4. SessionOK(t)
    BY <1>0, <2>2, <2>3 DEF SessionOK, Session, Ops
  <2>5. QED
    BY <1>2, <2>1, <2>4, LoadType DEF ListGrants
<1>3. ASSUME NEW g \in Grants, CascadeRevoke(h, g) PROVE TypeInv'
  <2> DEFINE u == grant[g].user
             c == s.cnt[u]
             t == [s EXCEPT !.todo = @ \ {g}, !.dirty = FALSE, !.cnt[u] = Decrement(c)]
  <2>1. RevokeWrites(g, c) /\ FlushDataset(h)
    BY <1>3 DEF CascadeRevoke
  <2>2. u \in Users /\ c \in Nat /\ Decrement(c) \in Nat
    BY <1>0, <2>1, DecrementType DEF RevokeWrites, GrantsOwned, Session
  <2>3. session' = [session EXCEPT ![h] = t]
    BY <1>0, <1>3 DEF CascadeRevoke, TypeOK
  <2>4. SessionOK(t)
    BY <1>0, <2>2 DEF SessionOK, Session
  <2>5. session' \in [Workers -> Session] /\ \A k \in Workers : SessionOK(session'[k])
    BY <2>3, <2>4, PutSession
  <2>6. dataset' \in [Datasets -> DatasetStatus]
    BY <1>0, <2>1 DEF FlushDataset, TypeOK, Session
  <2>7. grant' \in [Grants -> AccessGrant] /\ granted' \in [Users -> Nat] /\ GrantsOwned'
    BY <2>1, <2>2, RevokeWritesType
  <2>8. QED
    BY <1>0, <1>3, <2>5, <2>6, <2>7 DEF CascadeRevoke, TypeInv, TypeOK
<1>4. ASSUME NEW u \in Users, SweepUser(h, u) PROVE TypeInv'
  <2> DEFINE t == [s EXCEPT !.users = @ \ {u}, !.todo = @ \cup ActiveOfUser(u)]
  <2>1. session' = [session EXCEPT ![h] = t]
    BY <1>0, <1>4 DEF SweepUser, TypeOK
  <2>2. ActiveOfUser(u) \subseteq Grants
    BY DEF ActiveOfUser
  <2>3. SessionOK(t)
    BY <1>0, <2>2 DEF SessionOK, Session
  <2>4. QED
    BY <1>4, <2>1, <2>3, LoadType DEF SweepUser
<1>5. QED
  BY <1>1, <1>2, <1>3, <1>4

\* The steps of users and of time touch neither sessions nor rows.
LEMMA OthersKeepType ==
    ASSUME TypeInv, Tick \/ \E u \in Users : UserStep(u)
    PROVE  TypeInv'
BY DEF TypeInv, TypeOK, GrantsOwned, Tick, UserStep, RequestDeletion, GraceElapses, CancelDeletion

\* One case per disjunct of Next.
LEMMA NextType == TypeInv /\ [Next]_vars => TypeInv'
<1> SUFFICES ASSUME TypeInv, [Next]_vars PROVE TypeInv'
  OBVIOUS
<1>1. ASSUME NEW h \in Handlers, HandlerStep(h) PROVE TypeInv'
  <2>1. h \in Workers
    BY DEF Workers
  <2>2. QED
    BY <1>1, <2>1, LoadsKeepType, CommitsKeepType, MiddlesKeepType DEF HandlerStep, PlainStep
<1>2. ASSUME NEW h \in Sweepers, SweeperStep(h) PROVE TypeInv'
  <2>1. h \in Workers
    BY DEF Workers
  <2>2. QED
    BY <1>2, <2>1, LoadsKeepType, CommitsKeepType, MiddlesKeepType DEF SweeperStep
<1>3. ASSUME NEW h \in Workers, Abort(h) PROVE TypeInv'
  BY <1>3, CommitsKeepType
<1>4. CASE Tick \/ \E u \in Users : UserStep(u)
  BY <1>4, OthersKeepType
<1>5. CASE UNCHANGED vars
  BY <1>5 DEF vars, TypeInv, TypeOK, GrantsOwned
<1>6. QED
  BY <1>1, <1>2, <1>3, <1>4, <1>5 DEF Next

\* Every reachable state is well typed, each session holds the rows its
\* operation loaded, and every stored grant has its user and its dataset.
THEOREM TypeCorrect == Spec => []TypeInv
<1>1. QED
  BY InitType, NextType, PTL DEF Spec

\* Type correctness: in particular datasets_granted never becomes negative,
\* whatever stale counters the sessions write back.
THEOREM TypeCorrectness == Spec => []TypeOK
<1>1. TypeInv => TypeOK
  BY DEF TypeInv
<1>2. QED
  BY <1>1, TypeCorrect, PTL

-----------------------------------------------------------------------------
(* The rows: a step that writes neither requests, grants nor datasets keeps *)
(* their invariant, and so does each of the steps that do write them.       *)

LEMMA RowsUnchanged ==
    ASSUME RowsInv, UNCHANGED <<dataset, request, grant>>
    PROVE  RowsInv'
BY DEF RowsInv, GrantTraceable, ApprovedHasGrant, DeletedLeavesNothing

\* A step that changes grants only in their expiry or from a stored status to
\* another, and leaves requests and the set of deleted datasets alone.
LEMMA RowsUpdated ==
    ASSUME RowsInv, UNCHANGED request,
           \A d \in Datasets : dataset'[d] = "deleted" => dataset[d] = "deleted",
           \A g \in Grants : /\ Stored(grant'[g].status) <=> Stored(grant[g].status)
                             /\ grant'[g].user = grant[g].user
                             /\ grant'[g].dataset = grant[g].dataset
                             /\ grant'[g].request = grant[g].request
    PROVE  RowsInv'
<1>1. GrantTraceable'
  BY DEF RowsInv, GrantTraceable, Stored
<1>2. ApprovedHasGrant'
  BY DEF RowsInv, ApprovedHasGrant, Stored
<1>3. DeletedLeavesNothing'
  BY DEF RowsInv, DeletedLeavesNothing, Stored
<1>4. QED
  BY <1>1, <1>2, <1>3 DEF RowsInv

LEMMA SubmitKeepsRows ==
    ASSUME Inv, NEW h \in Workers, NEW withFile \in BOOLEAN, SubmitCommit(h, withFile)
    PROVE  RowsInv'
<1> DEFINE r == session[h].req
<1>1. /\ r \in Requests /\ request[r] = "absent" /\ dataset[RequestDataset[r]] # "deleted"
      /\ \A q \in Requests : request'[q] = IF q = r THEN "pending" ELSE request[q]
      /\ UNCHANGED <<dataset, grant>>
  BY DEF Inv, TypeInv, TypeOK, SessionOK, SubmitCommit
<1>2. GrantTraceable'
  BY <1>1, ConstantsAssumption DEF Inv, RowsInv, GrantTraceable, TypeInv, TypeOK, AccessGrant
<1>3. ApprovedHasGrant'
  BY <1>1 DEF Inv, RowsInv, ApprovedHasGrant
<1>4. DeletedLeavesNothing'
  BY <1>1 DEF Inv, RowsInv, DeletedLeavesNothing
<1>5. QED
  BY <1>2, <1>3, <1>4 DEF RowsInv

LEMMA AttachFailKeepsRows ==
    ASSUME Inv, NEW h \in Workers, AttachFail(h)
    PROVE  RowsInv'
<1> DEFINE r == session[h].req
<1>1. /\ r \in Requests
      /\ \A q \in Requests : request'[q] = IF q = r THEN "deleted" ELSE request[q]
      /\ \A g \in Grants : /\ grant'[g].status = grant[g].status
                           /\ grant'[g].user = grant[g].user
                           /\ grant'[g].dataset = grant[g].dataset
                           /\ grant'[g].request = IF grant[g].request = r THEN None
                                                  ELSE grant[g].request
      /\ UNCHANGED dataset
  BY DEF Inv, TypeInv, TypeOK, SessionOK, AttachFail, AccessGrant
<1>2. GrantTraceable'
  BY <1>1 DEF Inv, RowsInv, GrantTraceable, TypeInv, TypeOK, AccessGrant
<1>3. ApprovedHasGrant'
  <2> SUFFICES ASSUME NEW q \in Requests, request'[q] = "approved"
               PROVE  \E g \in Grants : grant'[g].request = q /\ Stored(grant'[g].status)
    BY DEF ApprovedHasGrant, Stored
  <2>1. q # r /\ request[q] = "approved"
    BY <1>1
  <2>2. PICK g \in Grants : grant[g].request = q /\ Stored(grant[g].status)
    BY <2>1 DEF Inv, RowsInv, ApprovedHasGrant
  <2>3. QED
    BY <1>1, <2>1, <2>2
<1>4. DeletedLeavesNothing'
  BY <1>1 DEF Inv, RowsInv, DeletedLeavesNothing, Stored
<1>5. QED
  BY <1>2, <1>3, <1>4 DEF RowsInv

LEMMA ApproveKeepsRows ==
    ASSUME Inv, NEW h \in Workers, NEW g \in Grants, ApproveCommit(h, g)
    PROVE  RowsInv'
<1> DEFINE r == session[h].req
           n == NewGrant(r, session[h].exp)
<1>1. /\ r \in Requests /\ Stored(request[r]) /\ grant[g].status = "absent"
      /\ \A q \in Requests : request'[q] = IF q = r THEN "approved" ELSE request[q]
      /\ \A k \in Grants : grant'[k] = IF k = g THEN n ELSE grant[k]
      /\ UNCHANGED dataset
  BY DEF Inv, TypeInv, TypeOK, SessionOK, ApproveCommit, Review
<1>2. /\ n.status = "active" /\ n.request = r
      /\ n.user = RequestUser[r] /\ n.dataset = RequestDataset[r]
  BY DEF NewGrant
<1> HIDE DEF n
<1>3. GrantTraceable'
  BY <1>1, <1>2 DEF Inv, RowsInv, GrantTraceable, TypeInv, TypeOK, AccessGrant
<1>4. ApprovedHasGrant'
  BY <1>1, <1>2 DEF Inv, RowsInv, ApprovedHasGrant, Stored
<1>5. DeletedLeavesNothing'
  BY <1>1, <1>2 DEF Inv, RowsInv, DeletedLeavesNothing, Stored
<1>6. QED
  BY <1>3, <1>4, <1>5 DEF RowsInv

LEMMA RejectKeepsRows ==
    ASSUME Inv, NEW h \in Workers, RejectCommit(h)
    PROVE  RowsInv'
<1> DEFINE r == session[h].req
<1>1. /\ r \in Requests /\ Stored(request[r])
      /\ \A q \in Requests : request'[q] = IF q = r THEN "rejected" ELSE request[q]
      /\ UNCHANGED <<dataset, grant>>
  BY DEF Inv, TypeInv, TypeOK, SessionOK, RejectCommit, Review
<1>2. GrantTraceable'
  BY <1>1 DEF Inv, RowsInv, GrantTraceable, TypeInv, TypeOK, AccessGrant
<1>3. ApprovedHasGrant'
  BY <1>1 DEF Inv, RowsInv, ApprovedHasGrant
<1>4. DeletedLeavesNothing'
  BY <1>1 DEF Inv, RowsInv, DeletedLeavesNothing
<1>5. QED
  BY <1>2, <1>3, <1>4 DEF RowsInv

LEMMA DeleteKeepsRows ==
    ASSUME Inv, NEW h \in Workers, DeleteCommit(h)
    PROVE  RowsInv'
<1> DEFINE d == session[h].ds
<1>1. /\ \A e \in Datasets : dataset'[e] = IF e = d THEN "deleted" ELSE dataset[e]
      /\ \A r \in Requests : request'[r] = IF RequestDataset[r] = d /\ request[r] # "absent"
                                           THEN "deleted" ELSE request[r]
      /\ \A g \in Grants : grant'[g] = IF grant[g].dataset = d
                                       THEN [grant[g] EXCEPT !.status = "deleted"]
                                       ELSE grant[g]
  BY DEF Inv, TypeInv, TypeOK, DeleteCommit
<1>2. \A g \in Grants : /\ grant'[g].user = grant[g].user
                        /\ grant'[g].dataset = grant[g].dataset
                        /\ grant'[g].request = grant[g].request
                        /\ grant'[g].status = IF grant[g].dataset = d THEN "deleted"
                                              ELSE grant[g].status
  <2> SUFFICES ASSUME NEW g \in Grants
               PROVE  /\ grant'[g].user = grant[g].user
                      /\ grant'[g].dataset = grant[g].dataset
                      /\ grant'[g].request = grant[g].request
                      /\ grant'[g].status = IF grant[g].dataset = d THEN "deleted"
                                            ELSE grant[g].status
    OBVIOUS
  <2>1. grant[g] \in AccessGrant
    BY DEF Inv, TypeInv, TypeOK
  <2>2. grant'[g] = IF grant[g].dataset = d THEN [grant[g] EXCEPT !.status = "deleted"]
                    ELSE grant[g]
    BY <1>1
  <2>3. QED
    BY <2>1, <2>2 DEF AccessGrant
<1>3. GrantTraceable'
  <2> SUFFICES ASSUME NEW g \in Grants, Stored(grant'[g].status), grant'[g].request # None
               PROVE  /\ request'[grant'[g].request] \in {"approved", "rejected"}
                      /\ grant'[g].user = RequestUser[grant'[g].request]
                      /\ grant'[g].dataset = RequestDataset[grant'[g].request]
    BY DEF GrantTraceable, Stored
  <2>1. grant[g].dataset # d /\ Stored(grant[g].status) /\ grant[g].request \in Requests
    BY <1>2 DEF Stored, Inv, TypeInv, TypeOK, AccessGrant
  <2>2. QED
    BY <1>1, <1>2, <2>1 DEF Inv, RowsInv, GrantTraceable
<1>4. ApprovedHasGrant'
  <2> SUFFICES ASSUME NEW q \in Requests, request'[q] = "approved"
               PROVE  \E g \in Grants : grant'[g].request = q /\ Stored(grant'[g].status)
    BY DEF ApprovedHasGrant, Stored
  <2>1. RequestDataset[q] # d /\ request[q] = "approved"
    BY <1>1
  <2>2. PICK g \in Grants : grant[g].request = q /\ Stored(grant[g].status)
    BY <2>1 DEF Inv, RowsInv, ApprovedHasGrant
  <2>3. grant[g].dataset = RequestDataset[q]
    BY <2>2, ConstantsAssumption DEF Inv, RowsInv, GrantTraceable
  <2>4. QED
    BY <1>2, <2>1, <2>2, <2>3
<1>5. DeletedLeavesNothing'
  BY <1>1, <1>2 DEF Inv, RowsInv, DeletedLeavesNothing, Stored
<1>6. QED
  BY <1>3, <1>4, <1>5 DEF RowsInv

\* The updates of grants and of a dataset's status, none of which deletes.
LEMMA UpdatesKeepRows ==
    ASSUME Inv, NEW h \in Workers,
           \/ ExtendCommit(h)
           \/ RevokeCommit(h)
           \/ StatusCommit(h)
           \/ \E g \in Grants : CascadeRevoke(h, g)
           \/ ArchiveCommit(h)
           \/ SweepCommit(h)
    PROVE  RowsInv'
<1>0. /\ grant \in [Grants -> AccessGrant] /\ dataset \in [Datasets -> DatasetStatus]
      /\ SessionOK(session[h]) /\ session[h] \in Session /\ RowsInv
  BY DEF Inv, TypeInv, TypeOK
<1> DEFINE Kept(g) == /\ Stored(grant'[g].status) <=> Stored(grant[g].status)
                      /\ grant'[g].user = grant[g].user
                      /\ grant'[g].dataset = grant[g].dataset
                      /\ grant'[g].request = grant[g].request
           NoneDeleted == \A d \in Datasets : dataset'[d] = "deleted" => dataset[d] = "deleted"
<1>1. CASE ExtendCommit(h)
  <2>1. \A g \in Grants : Kept(g)
    BY <1>0, <1>1 DEF ExtendCommit, SetExpiry, AccessGrant
  <2>2. NoneDeleted /\ UNCHANGED request
    BY <1>1 DEF ExtendCommit
  <2>3. QED
    BY <1>0, <2>1, <2>2, RowsUpdated
<1>2. CASE RevokeCommit(h)
  <2>1. \A g \in Grants : Kept(g)
    BY <1>0, <1>2 DEF RevokeCommit, RevokeWrites, AccessGrant, Stored
  <2>2. NoneDeleted /\ UNCHANGED request
    BY <1>2 DEF RevokeCommit
  <2>3. QED
    BY <1>0, <2>1, <2>2, RowsUpdated
<1>3. CASE StatusCommit(h)
  <2>1. \A g \in Grants : Kept(g)
    BY <1>3 DEF StatusCommit
  <2>2. NoneDeleted /\ UNCHANGED request
    BY <1>0, <1>3 DEF StatusCommit, SessionOK
  <2>3. QED
    BY <1>0, <2>1, <2>2, RowsUpdated
<1>4. ASSUME NEW g \in Grants, CascadeRevoke(h, g) PROVE RowsInv'
  <2>1. \A k \in Grants : Kept(k)
    BY <1>0, <1>4 DEF CascadeRevoke, RevokeWrites, AccessGrant, Stored
  <2>2. NoneDeleted /\ UNCHANGED request
    BY <1>0, <1>4 DEF CascadeRevoke, FlushDataset, SessionOK
  <2>3. QED
    BY <1>0, <2>1, <2>2, RowsUpdated
<1>5. CASE ArchiveCommit(h)
  <2>1. \A g \in Grants : Kept(g)
    BY <1>5 DEF ArchiveCommit
  <2>2. NoneDeleted /\ UNCHANGED request
    BY <1>0, <1>5 DEF ArchiveCommit, FlushDataset, SessionOK
  <2>3. QED
    BY <1>0, <2>1, <2>2, RowsUpdated
<1>6. CASE SweepCommit(h)
  <2>1. \A g \in Grants : Kept(g)
    BY <1>0, <1>6 DEF SweepCommit, AccessGrant, Stored
  <2>2. NoneDeleted /\ UNCHANGED request
    BY <1>6 DEF SweepCommit
  <2>3. QED
    BY <1>0, <2>1, <2>2, RowsUpdated
<1>7. QED
  BY <1>1, <1>2, <1>3, <1>4, <1>5, <1>6

LEMMA InitRows == Init => RowsInv
<1> SUFFICES ASSUME Init PROVE RowsInv
  OBVIOUS
<1>1. GrantTraceable
  BY DEF Init, GrantTraceable, NoGrant, Stored
<1>2. ApprovedHasGrant
  BY DEF Init, ApprovedHasGrant
<1>3. DeletedLeavesNothing
  BY DEF Init, DeletedLeavesNothing, NoGrant, Stored
<1>4. QED
  BY <1>1, <1>2, <1>3 DEF RowsInv

LEMMA NextRows == Inv /\ [Next]_vars => RowsInv'
<1> SUFFICES ASSUME Inv, [Next]_vars PROVE RowsInv'
  OBVIOUS
<1>0. RowsInv
  BY DEF Inv
<1> DEFINE Same == UNCHANGED <<dataset, request, grant>>
<1>1. ASSUME NEW h \in Handlers, HandlerStep(h) PROVE RowsInv'
  <2>1. h \in Workers
    BY DEF Workers
  <2>2. \/ Same
        \/ \E withFile \in BOOLEAN : SubmitCommit(h, withFile)
        \/ AttachFail(h)
        \/ \E g \in Grants : ApproveCommit(h, g) \/ CascadeRevoke(h, g)
        \/ RejectCommit(h) \/ ExtendCommit(h) \/ RevokeCommit(h)
        \/ StatusCommit(h) \/ ArchiveCommit(h) \/ DeleteCommit(h)
    BY <1>1 DEF HandlerStep, PlainStep, dbVars, SubmitLoad, RejectLoad, ApproveLoad, AttachCommit,
                RevokeLoad, ExtendLoad, PublishLoad, UnarchiveLoad, ArchiveLoad, DeleteLoad,
                ListGrants
  <2>3. QED
    BY <1>0, <2>1, <2>2, RowsUnchanged, SubmitKeepsRows, AttachFailKeepsRows,
       ApproveKeepsRows, RejectKeepsRows, DeleteKeepsRows, UpdatesKeepRows
<1>2. ASSUME NEW h \in Sweepers, SweeperStep(h) PROVE RowsInv'
  <2>1. h \in Workers
    BY DEF Workers
  <2>2. Same \/ SweepCommit(h)
    BY <1>2 DEF SweeperStep, SweepLoad, SweepUser, dbVars
  <2>3. QED
    BY <1>0, <2>1, <2>2, RowsUnchanged, UpdatesKeepRows
<1>3. ASSUME NEW h \in Workers, Abort(h) PROVE RowsInv'
  BY <1>0, <1>3, RowsUnchanged DEF Abort, dbVars
<1>4. CASE Tick \/ \E u \in Users : UserStep(u)
  <2>1. Same
    BY <1>4 DEF Tick, UserStep, RequestDeletion, GraceElapses, CancelDeletion
  <2>2. QED
    BY <1>0, <2>1, RowsUnchanged
<1>5. CASE UNCHANGED vars
  BY <1>0, <1>5, RowsUnchanged DEF vars
<1>6. QED
  BY <1>1, <1>2, <1>3, <1>4, <1>5 DEF Next

\* The inductive invariant holds in every reachable state.
THEOREM InvCorrect == Spec => []Inv
<1>1. Init => Inv
  BY InitType, InitRows DEF Inv
<1>2. Inv /\ [Next]_vars => Inv'
  BY NextType, NextRows DEF Inv
<1>3. QED
  BY <1>1, <1>2, PTL DEF Spec

\* Every stored grant that names a request names a reviewed one of the same
\* user and dataset, under any interleaving of handlers.
THEOREM GrantsTraceable == Spec => []GrantTraceable
<1>1. Inv => GrantTraceable
  BY DEF Inv, RowsInv
<1>2. QED
  BY <1>1, InvCorrect, PTL

\* Every approved request keeps the row of a grant.
THEOREM ApprovalsHaveGrants == Spec => []ApprovedHasGrant
<1>1. Inv => ApprovedHasGrant
  BY DEF Inv, RowsInv
<1>2. QED
  BY <1>1, InvCorrect, PTL

\* No handler resurrects rows of a dataset that was permanently deleted.
THEOREM DeletionLeavesNothing == Spec => []DeletedLeavesNothing
<1>1. Inv => DeletedLeavesNothing
  BY DEF Inv, RowsInv
<1>2. QED
  BY <1>1, InvCorrect, PTL

-----------------------------------------------------------------------------
(* Revocation is final                                                     *)

\* The steps that write grants leave a revoked one revoked or delete it.
LEMMA RevokedStays ==
    ASSUME TypeInv, [Next]_vars, NEW g \in Grants, grant[g].status = "revoked"
    PROVE  grant'[g].status # "active"
<1>0. grant \in [Grants -> AccessGrant]
  BY DEF TypeInv, TypeOK
<1>1. ASSUME NEW h \in Handlers, HandlerStep(h) PROVE grant'[g].status # "active"
  <2>1. \/ UNCHANGED grant
        \/ AttachFail(h)
        \/ \E k \in Grants : ApproveCommit(h, k) \/ CascadeRevoke(h, k)
        \/ ExtendCommit(h) \/ RevokeCommit(h) \/ DeleteCommit(h)
    BY <1>1 DEF HandlerStep, PlainStep, dbVars, SubmitLoad, RejectLoad, ApproveLoad, AttachCommit,
                RevokeLoad, ExtendLoad, PublishLoad, UnarchiveLoad, ArchiveLoad, DeleteLoad,
                ListGrants, SubmitCommit, RejectCommit, StatusCommit, ArchiveCommit
  <2>2. CASE AttachFail(h)
    BY <1>0, <2>2 DEF AttachFail, AccessGrant
  <2>3. ASSUME NEW k \in Grants, ApproveCommit(h, k) PROVE grant'[g].status # "active"
    BY <1>0, <2>3 DEF ApproveCommit
  <2>4. ASSUME NEW k \in Grants, CascadeRevoke(h, k) PROVE grant'[g].status # "active"
    BY <1>0, <2>4 DEF CascadeRevoke, RevokeWrites, AccessGrant
  <2>5. CASE ExtendCommit(h)
    BY <1>0, <2>5 DEF ExtendCommit, SetExpiry, AccessGrant
  <2>6. CASE RevokeCommit(h)
    BY <1>0, <2>6 DEF RevokeCommit, RevokeWrites, AccessGrant
  <2>7. CASE DeleteCommit(h)
    BY <1>0, <2>7 DEF DeleteCommit, AccessGrant
  <2>8. QED
    BY <2>1, <2>2, <2>3, <2>4, <2>5, <2>6, <2>7
<1>2. ASSUME NEW h \in Sweepers, SweeperStep(h) PROVE grant'[g].status # "active"
  BY <1>0, <1>2 DEF SweeperStep, SweepLoad, SweepUser, SweepCommit, dbVars, AccessGrant
<1>3. CASE \/ \E h \in Workers : Abort(h)
           \/ \E u \in Users : UserStep(u)
           \/ Tick
           \/ UNCHANGED vars
  BY <1>3 DEF Abort, dbVars, vars, Tick, UserStep, RequestDeletion, GraceElapses, CancelDeletion
<1>4. QED
  BY <1>1, <1>2, <1>3 DEF Next

\* A revoked grant is never active again, although an extension or a second
\* revocation loaded while it was active may still be committed.
THEOREM RevocationIsFinal == Spec => RevocationFinal
<1>1. TypeInv /\ [Next]_vars =>
        [\A g \in Grants : grant[g].status = "revoked" => grant'[g].status # "active"]_vars
  BY RevokedStays
<1>2. QED
  BY <1>1, TypeCorrect, PTL DEF Spec, RevocationFinal

-----------------------------------------------------------------------------
(* One worker at a time.  The review properties fail for two concurrent     *)
(* handlers; with one worker they hold, because what its session loaded is  *)
(* still true when it commits.                                              *)

OneWorker == \A h, k \in Workers : h = k

SerialInv ==
    /\ OneGrantPerRequest
    /\ \A r \in Requests : request[r] \in {"absent", "pending", "rejected"} =>
          \A g \in Grants : grant[g].request # r
    /\ \A h \in Workers : session[h].op \in {"approve", "reject"} =>
          request[session[h].req] = "pending"

\* A step after which session k reviews a request that is not pending.
OpensReview(k) ==
    /\ session'[k] # session[k]
    /\ session'[k].op \in {"approve", "reject"}
    /\ ~(session'[k].req \in Requests /\ request[session'[k].req] = "pending")

LEMMA OtherOp ==
    ASSUME session \in [Workers -> Session], NEW h \in Workers, NEW s,
           s.op \notin {"approve", "reject"}, session' = [session EXCEPT ![h] = s],
           NEW k \in Workers
    PROVE  ~OpensReview(k)
BY DEF OpensReview

\* The steps that leave requests and the grants' request column alone, and
\* begin no review.
LEMMA SerialUnchanged ==
    ASSUME TypeInv, SerialInv, UNCHANGED request,
           \A g \in Grants : grant'[g].request = grant[g].request,
           \A h \in Workers :
              \/ session'[h] = session[h]
              \/ session'[h].op \notin {"approve", "reject"}
              \/ session'[h].req \in Requests /\ request[session'[h].req] = "pending"
    PROVE  SerialInv'
BY DEF SerialInv, OneGrantPerRequest

\* With one worker, ending its session leaves no review open.
LEMMA OnlySession ==
    ASSUME OneWorker, TypeInv, NEW h \in Workers, NEW s, session' = [session EXCEPT ![h] = s]
    PROVE  \A k \in Workers : session'[k] = s
BY DEF OneWorker, TypeInv, TypeOK

LEMMA SerialApprove ==
    ASSUME OneWorker, Inv, SerialInv, NEW h \in Workers, NEW g \in Grants, ApproveCommit(h, g)
    PROVE  SerialInv'
<1> DEFINE r == session[h].req
           n == NewGrant(r, session[h].exp)
<1>1. /\ r \in Requests /\ request[r] = "pending"
      /\ \A q \in Requests : request'[q] = IF q = r THEN "approved" ELSE request[q]
      /\ \A k \in Grants : grant'[k] = IF k = g THEN n ELSE grant[k]
  BY DEF Inv, TypeInv, TypeOK, SessionOK, SerialInv, ApproveCommit, Review
<1>2. n.request = r
  BY DEF NewGrant
<1>3. \A k \in Grants : grant[k].request # r
  BY <1>1 DEF SerialInv
<1>4. \A k \in Workers : session'[k] = Idle
  BY OnlySession DEF ApproveCommit, Finish, Inv
<1> HIDE DEF n
<1>5. OneGrantPerRequest'
  BY <1>1, <1>2, <1>3 DEF SerialInv, OneGrantPerRequest
<1>6. \A q \in Requests : request'[q] \in {"absent", "pending", "rejected"} =>
          \A k \in Grants : grant'[k].request # q
  BY <1>1, <1>2 DEF SerialInv
<1>7. QED
  BY <1>4, <1>5, <1>6 DEF SerialInv, Idle

LEMMA SerialReject ==
    ASSUME OneWorker, Inv, SerialInv, NEW h \in Workers, RejectCommit(h)
    PROVE  SerialInv'
<1> DEFINE r == session[h].req
<1>1. /\ r \in Requests /\ request[r] = "pending"
      /\ \A q \in Requests : request'[q] = IF q = r THEN "rejected" ELSE request[q]
      /\ UNCHANGED grant
  BY DEF Inv, TypeInv, TypeOK, SessionOK, SerialInv, RejectCommit, Review
<1>2. \A k \in Workers : session'[k] = Idle
  BY OnlySession DEF RejectCommit, Finish, Inv
<1>3. QED
  BY <1>1, <1>2 DEF SerialInv, OneGrantPerRequest, Idle

LEMMA SerialSubmit ==
    ASSUME OneWorker, Inv, SerialInv, NEW h \in Workers,
           AttachFail(h) \/ \E withFile \in BOOLEAN : SubmitCommit(h, withFile)
    PROVE  SerialInv'
<1> DEFINE r == session[h].req
<1>1. CASE AttachFail(h)
  <2>1. /\ r \in Requests
        /\ \A q \in Requests : request'[q] = IF q = r THEN "deleted" ELSE request[q]
        /\ \A g \in Grants : grant'[g].request = IF grant[g].request = r THEN None
                                                 ELSE grant[g].request
    BY <1>1 DEF Inv, TypeInv, TypeOK, SessionOK, AttachFail, AccessGrant
  <2>2. \A k \in Workers : session'[k] = Idle
    BY <1>1, OnlySession DEF AttachFail, Finish, Inv
  <2>3. OneGrantPerRequest'
    BY <2>1 DEF SerialInv, OneGrantPerRequest
  <2>4. \A q \in Requests : request'[q] \in {"absent", "pending", "rejected"} =>
            \A g \in Grants : grant'[g].request # q
    BY <2>1, ConstantsAssumption DEF SerialInv
  <2>5. QED
    BY <2>2, <2>3, <2>4 DEF SerialInv, Idle
<1>2. ASSUME NEW withFile \in BOOLEAN, SubmitCommit(h, withFile) PROVE SerialInv'
  <2>1. /\ r \in Requests /\ request[r] = "absent"
        /\ \A q \in Requests : request'[q] = IF q = r THEN "pending" ELSE request[q]
        /\ UNCHANGED grant
    BY <1>2 DEF Inv, TypeInv, TypeOK, SessionOK, SubmitCommit
  <2>2. \A k \in Workers : session'[k].op \in {"idle", "attach"}
    <3> DEFINE t == IF withFile THEN [Idle EXCEPT !.op = "attach", !.req = r] ELSE Idle
    <3>1. session' = [session EXCEPT ![h] = t]
      BY <1>2 DEF SubmitCommit
    <3>2. t.op \in {"idle", "attach"}
      BY DEF Idle
    <3> HIDE DEF t
    <3>3. QED
      BY <3>1, <3>2, OnlySession DEF Inv
  <2>3. QED
    BY <2>1, <2>2 DEF SerialInv, OneGrantPerRequest
<1>3. QED
  BY <1>1, <1>2

LEMMA SerialDelete ==
    ASSUME OneWorker, Inv, SerialInv, NEW h \in Workers, DeleteCommit(h)
    PROVE  SerialInv'
<1>1. /\ \A r \in Requests : request'[r] \in {request[r], "deleted"}
      /\ \A g \in Grants : grant'[g].request = grant[g].request
  BY DEF DeleteCommit, Inv, TypeInv, TypeOK, AccessGrant
<1>2. \A k \in Workers : session'[k] = Idle
  BY OnlySession DEF DeleteCommit, Finish, Inv
<1>3. QED
  BY <1>1, <1>2 DEF SerialInv, OneGrantPerRequest, Idle

\* The remaining handler steps neither write requests nor relink grants.
LEMMA SerialOthers ==
    ASSUME OneWorker, Inv, SerialInv, NEW h \in Workers,
           \/ \E r \in Requests : SubmitLoad(h, r) \/ RejectLoad(h, r)
           \/ \E r \in Requests, dur \in Durations : ApproveLoad(h, r, dur)
           \/ AttachCommit(h)
           \/ \E g \in Grants : RevokeLoad(h, g) \/ CascadeRevoke(h, g)
           \/ \E g \in Grants, dur \in Durations : ExtendLoad(h, g, dur)
           \/ ExtendCommit(h) \/ RevokeCommit(h)
           \/ \E d \in Datasets, target \in {"published", "draft"} : PublishLoad(h, d, target)
           \/ \E d \in Datasets : UnarchiveLoad(h, d) \/ ArchiveLoad(h, d) \/ DeleteLoad(h, d)
           \/ StatusCommit(h) \/ ListGrants(h) \/ ArchiveCommit(h)
           \/ SweepLoad(h) \/ SweepCommit(h) \/ Abort(h)
           \/ \E u \in Users : SweepUser(h, u)
    PROVE  SerialInv'
<1>0. /\ TypeInv /\ grant \in [Grants -> AccessGrant] /\ session \in [Workers -> Session]
  BY DEF Inv, TypeInv, TypeOK
<1> DEFINE Relinked == \E g \in Grants : grant'[g].request # grant[g].request
<1>1. UNCHANGED request
  BY DEF SubmitLoad, RejectLoad, ApproveLoad, AttachCommit, RevokeLoad, CascadeRevoke,
         ExtendLoad, ExtendCommit, RevokeCommit, PublishLoad, UnarchiveLoad, ArchiveLoad,
         DeleteLoad, StatusCommit, ListGrants, ArchiveCommit, SweepLoad, SweepCommit, Abort,
         SweepUser, dbVars
<1>2. ~Relinked
  <2>1. \/ UNCHANGED grant
        \/ ExtendCommit(h) \/ SweepCommit(h) \/ RevokeCommit(h)
        \/ \E g \in Grants : CascadeRevoke(h, g)
    BY DEF SubmitLoad, RejectLoad, ApproveLoad, AttachCommit, RevokeLoad,
           ExtendLoad, PublishLoad, UnarchiveLoad, ArchiveLoad, DeleteLoad,
           StatusCommit, ListGrants, ArchiveCommit, SweepLoad, Abort, SweepUser, dbVars
  <2>2. CASE ExtendCommit(h)
    BY <1>0, <2>2 DEF ExtendCommit, SetExpiry, AccessGrant
  <2>3. CASE SweepCommit(h)
    BY <1>0, <2>3 DEF SweepCommit, AccessGrant
  <2>4. CASE RevokeCommit(h)
    BY <1>0, <2>4 DEF RevokeCommit, RevokeWrites, AccessGrant
  <2>5. ASSUME NEW g \in Grants, CascadeRevoke(h, g) PROVE ~Relinked
    BY <1>0, <2>5 DEF CascadeRevoke, RevokeWrites, AccessGrant
  <2>6. QED
    BY <2>1, <2>2, <2>3, <2>4, <2>5
<1>3. ASSUME NEW k \in Workers PROVE ~OpensReview(k)
  <2>1. ASSUME NEW r \in Requests, RejectLoad(h, r) PROVE ~OpensReview(k)
    <3> DEFINE t == [Idle EXCEPT !.op = "reject", !.req = r]
    <3>1. session' = [session EXCEPT ![h] = t] /\ request[r] = "pending"
      BY <2>1 DEF RejectLoad, Begin, CanReview
    <3>2. t.req = r
      BY DEF Idle
    <3> HIDE DEF t
    <3>3. QED
      BY <1>0, <3>1, <3>2 DEF OpensReview
  <2>2. ASSUME NEW r \in Requests, NEW dur \in Durations, ApproveLoad(h, r, dur)
        PROVE  ~OpensReview(k)
    <3> DEFINE t == [Idle EXCEPT !.op = "approve", !.req = r,
                                 !.cnt = CacheCount(RequestUser[r]),
                                 !.exp = ComputeExpiry(now, dur)]
    <3>1. session' = [session EXCEPT ![h] = t] /\ request[r] = "pending"
      BY <2>2 DEF ApproveLoad, Begin, CanReview
    <3>2. t.req = r
      BY DEF Idle
    <3> HIDE DEF t
    <3>3. QED
      BY <1>0, <3>1, <3>2 DEF OpensReview
  <2>3. ASSUME NEW r \in Requests, SubmitLoad(h, r) PROVE ~OpensReview(k)
    <3> DEFINE t == [Idle EXCEPT !.op = "submit", !.req = r]
    <3>1. session' = [session EXCEPT ![h] = t]
      BY <2>3 DEF SubmitLoad, Begin
    <3>2. t.op = "submit"
      BY DEF Idle
    <3> HIDE DEF t
    <3>3. QED
      BY <1>0, <3>1, <3>2, OtherOp
  <2>4. ASSUME NEW g \in Grants, RevokeLoad(h, g) PROVE ~OpensReview(k)
    <3> DEFINE t == [Idle EXCEPT !.op = "revoke", !.grt = g, !.cnt = CacheCount(grant[g].user)]
    <3>1. session' = [session EXCEPT ![h] = t]
      BY <2>4 DEF RevokeLoad, Begin
    <3>2. t.op = "revoke"
      BY DEF Idle
    <3> HIDE DEF t
    <3>3. QED
      BY <1>0, <3>1, <3>2, OtherOp
  <2>5. ASSUME NEW g \in Grants, NEW dur \in Durations, ExtendLoad(h, g, dur) PROVE ~OpensReview(k)
    <3> DEFINE t == [Idle EXCEPT !.op = "extend", !.grt = g,
                                 !.exp = ComputeExpiry(grant[g].expires_at, dur)]
    <3>1. session' = [session EXCEPT ![h] = t]
      BY <2>5 DEF ExtendLoad, Begin
    <3>2. t.op = "extend"
      BY DEF Idle
    <3> HIDE DEF t
    <3>3. QED
      BY <1>0, <3>1, <3>2, OtherOp
  <2>6. ASSUME NEW d \in Datasets, NEW x \in {"published", "draft"}, PublishLoad(h, d, x) PROVE ~OpensReview(k)
    <3> DEFINE t == [Idle EXCEPT !.op = "status", !.ds = d, !.target = x]
    <3>1. session' = [session EXCEPT ![h] = t]
      BY <2>6 DEF PublishLoad, Begin
    <3>2. t.op = "status"
      BY DEF Idle
    <3> HIDE DEF t
    <3>3. QED
      BY <1>0, <3>1, <3>2, OtherOp
  <2>7. ASSUME NEW d \in Datasets, UnarchiveLoad(h, d) PROVE ~OpensReview(k)
    <3> DEFINE t == [Idle EXCEPT !.op = "status", !.ds = d, !.target = "draft"]
    <3>1. session' = [session EXCEPT ![h] = t]
      BY <2>7 DEF UnarchiveLoad, Begin
    <3>2. t.op = "status"
      BY DEF Idle
    <3> HIDE DEF t
    <3>3. QED
      BY <1>0, <3>1, <3>2, OtherOp
  <2>8. ASSUME NEW d \in Datasets, ArchiveLoad(h, d) PROVE ~OpensReview(k)
    <3> DEFINE t == [Idle EXCEPT !.op = "archive", !.ds = d, !.target = "archived",
                                 !.dirty = (dataset[d] # "archived")]
    <3>1. session' = [session EXCEPT ![h] = t]
      BY <2>8 DEF ArchiveLoad, Begin
    <3>2. t.op = "archive"
      BY DEF Idle
    <3> HIDE DEF t
    <3>3. QED
      BY <1>0, <3>1, <3>2, OtherOp
  <2>9. ASSUME NEW d \in Datasets, DeleteLoad(h, d) PROVE ~OpensReview(k)
    <3> DEFINE t == [Idle EXCEPT !.op = "delete", !.ds = d]
    <3>1. session' = [session EXCEPT ![h] = t]
      BY <2>9 DEF DeleteLoad, Begin
    <3>2. t.op = "delete"
      BY DEF Idle
    <3> HIDE DEF t
    <3>3. QED
      BY <1>0, <3>1, <3>2, OtherOp
  <2>10. CASE SweepLoad(h)
    <3> DEFINE due == {u \in Users : deletion[u] = "due"}
               t == [Idle EXCEPT !.op = "sweep", !.users = due,
                        !.cnt = [u \in Users |-> IF u \in due THEN granted[u] ELSE 0]]
    <3>1. session' = [session EXCEPT ![h] = t]
      BY <2>10 DEF SweepLoad, Begin
    <3>2. t.op = "sweep"
      BY DEF Idle
    <3> HIDE DEF t
    <3>3. QED
      BY <1>0, <3>1, <3>2, OtherOp
  <2>11. CASE \/ AttachCommit(h) \/ ExtendCommit(h) \/ RevokeCommit(h) \/ StatusCommit(h)
              \/ ArchiveCommit(h) \/ SweepCommit(h) \/ Abort(h)
    <3>1. session' = [session EXCEPT ![h] = Idle]
      BY <2>11 DEF AttachCommit, ExtendCommit, RevokeCommit, StatusCommit, ArchiveCommit,
                   SweepCommit, Abort, Finish
    <3>2. Idle.op = "idle"
      BY DEF Idle
    <3>3. QED
      BY <1>0, <3>1, <3>2, OtherOp
  <2>12. CASE ListGrants(h)
    <3>1. session'[k] = session[k] \/ session'[k].op \in {"archive_revoke", "delete_revoke"}
      BY <1>0, <2>12 DEF ListGrants, Session
    <3>2. QED
      BY <3>1 DEF OpensReview
  <2>13. ASSUME NEW g \in Grants, CascadeRevoke(h, g) PROVE ~OpensReview(k)
    <3>1. session'[k] = session[k] \/ session'[k].op = session[h].op
      <4> DEFINE u == grant[g].user
                 t == [session[h] EXCEPT !.todo = @ \ {g}, !.dirty = FALSE,
                          !.cnt[u] = Decrement(session[h].cnt[u])]
      <4>1. session' = [session EXCEPT ![h] = t]
        BY <1>0, <2>13 DEF CascadeRevoke
      <4>2. t.op = session[h].op
        BY <1>0 DEF Session
      <4> HIDE DEF t
      <4>3. QED
        BY <1>0, <4>1, <4>2
    <3>2. session[h].op \in {"archive_revoke", "delete_revoke"}
      BY <2>13 DEF CascadeRevoke
    <3>3. QED
      BY <3>1, <3>2 DEF OpensReview
  <2>14. ASSUME NEW u \in Users, SweepUser(h, u) PROVE ~OpensReview(k)
    <3>1. session'[k] = session[k] \/ session'[k].op = session[h].op
      <4> DEFINE t == [session[h] EXCEPT !.users = @ \ {u}, !.todo = @ \cup ActiveOfUser(u)]
      <4>1. session' = [session EXCEPT ![h] = t]
        BY <1>0, <2>14 DEF SweepUser
      <4>2. t.op = session[h].op
        BY <1>0 DEF Session
      <4> HIDE DEF t
      <4>3. QED
        BY <1>0, <4>1, <4>2
    <3>2. session[h].op = "sweep"
      BY <2>14 DEF SweepUser
    <3>3. QED
      BY <3>1, <3>2 DEF OpensReview
  <2>15. QED
    BY <2>1, <2>2, <2>3, <2>4, <2>5, <2>6, <2>7, <2>8, <2>9, <2>10, <2>11, <2>12,
       <2>13, <2>14
<1>4. QED
  BY <1>0, <1>1, <1>2, <1>3, SerialUnchanged DEF OpensReview, Inv

LEMMA SerialStep ==
    ASSUME OneWorker, Inv, SerialInv, [Next]_vars
    PROVE  SerialInv'
<1>1. ASSUME NEW h \in Handlers, HandlerStep(h) PROVE SerialInv'
  <2>1. h \in Workers
    BY DEF Workers
  <2>2. QED
    BY <1>1, <2>1, SerialApprove, SerialReject, SerialSubmit, SerialDelete, SerialOthers
    DEF HandlerStep, PlainStep
<1>2. ASSUME NEW h \in Sweepers, SweeperStep(h) PROVE SerialInv'
  <2>1. h \in Workers
    BY DEF Workers
  <2>2. QED
    BY <1>2, <2>1, SerialOthers DEF SweeperStep
<1>3. ASSUME NEW h \in Workers, Abort(h) PROVE SerialInv'
  BY <1>3, SerialOthers
<1>4. CASE (\E u \in Users : UserStep(u)) \/ Tick \/ UNCHANGED vars
  BY <1>4, SerialUnchanged
  DEF UserStep, RequestDeletion, GraceElapses, CancelDeletion, Tick, vars, Inv
<1>5. QED
  BY <1>1, <1>2, <1>3, <1>4 DEF Next

\* When handlers do not overlap, a request yields at most one grant and a
\* rejected request none: the 409 guards of approve_request and
\* reject_request are enough without concurrency.
THEOREM SerialReview ==
    ASSUME OneWorker
    PROVE  Spec => [](OneGrantPerRequest /\ RejectedHasNoGrant)
<1>1. Init => SerialInv
  <2> SUFFICES ASSUME Init PROVE SerialInv
    OBVIOUS
  <2>1. \A g \in Grants : grant[g].request = None
    BY DEF Init, NoGrant
  <2>2. \A h \in Workers : session[h].op = "idle"
    BY DEF Init, Idle
  <2>3. QED
    BY <2>1, <2>2, ConstantsAssumption DEF SerialInv, OneGrantPerRequest
<1>2. Inv /\ SerialInv /\ [Next]_vars => SerialInv'
  BY SerialStep
<1>3. SerialInv => OneGrantPerRequest /\ RejectedHasNoGrant
  BY DEF SerialInv, RejectedHasNoGrant
<1>4. QED
  BY <1>1, <1>2, <1>3, InvCorrect, PTL DEF Spec

-----------------------------------------------------------------------------
(* The counter of a user's grants, without concurrency.  A session keeps    *)
(* the counters it loaded, so the invariant says of each operation that     *)
(* what it loaded is still so; the cascades need it grant by grant.         *)

\* What a session has loaded and will write from is still what is stored.
SessionCounts(s) ==
    /\ s.op = "approve" => s.cnt[RequestUser[s.req]] = granted[RequestUser[s.req]]
    /\ s.op = "revoke" =>
          /\ grant[s.grt].status = "active"
          /\ s.cnt[grant[s.grt].user] = granted[grant[s.grt].user]
    /\ s.op \in {"archive_revoke", "delete_revoke"} =>
          /\ s.todo = ActiveGrantsOf(s.ds)
          /\ \A g \in s.todo : s.cnt[grant[g].user] = granted[grant[g].user]
    /\ s.op = "sweep" =>
          \A u \in Users :
              /\ u \in s.users => s.cnt[u] = granted[u]
              /\ OwnedBy(s.todo, u) # {} =>
                    OwnedBy(s.todo, u) = ActiveOfUser(u) /\ s.cnt[u] = granted[u]

CounterInv ==
    /\ CounterMatches
    /\ \A h \in Workers : SessionCounts(session[h])

\* The operations whose session holds nothing that counts.
LEMMA NoCounts ==
    ASSUME NEW s, s.op \in {"idle", "submit", "attach", "reject", "extend", "status", "archive", "delete"}
    PROVE  SessionCounts(s) /\ SessionCounts(s)'
BY DEF SessionCounts

\* Storing a session, while no grant and no counter changes.
LEMMA CounterLoad ==
    ASSUME OneWorker, TypeInv, CounterInv, NEW h \in Workers, NEW s,
           session' = [session EXCEPT ![h] = s], UNCHANGED <<grant, granted>>,
           SessionCounts(s)
    PROVE  CounterInv'
<1>1. CounterMatches'
  BY DEF CounterInv, CounterMatches
<1>2. \A k \in Workers : session'[k] = s
  BY OnlySession
<1>3. SessionCounts(s)'
  BY DEF SessionCounts, ActiveGrantsOf, OwnedBy, ActiveOfUser
<1> QED
  BY <1>1, <1>2, <1>3 DEF CounterInv, SessionCounts, ActiveGrantsOf, OwnedBy, ActiveOfUser

\* Ending the session.
LEMMA CounterFinish ==
    ASSUME OneWorker, TypeInv, NEW h \in Workers, Finish(h), CounterMatches'
    PROVE  CounterInv'
<1>1. \A k \in Workers : session'[k] = Idle
  BY OnlySession DEF Finish
<1>2. Idle.op = "idle"
  BY DEF Idle
<1> QED
  BY <1>1, <1>2 DEF CounterInv, SessionCounts

LEMMA ActiveFinite ==
    ASSUME NEW u
    PROVE  IsFiniteSet(ActiveOfUser(u)) /\ Cardinality(ActiveOfUser(u)) \in Nat
BY GrantsFinite, FS_Subset, FS_CardinalityType DEF ActiveOfUser

\* Steps that change neither which grants are active nor whose they are.
LEMMA CounterSame ==
    ASSUME CounterMatches, UNCHANGED granted,
           \A g \in Grants : (grant[g].status = "active" \/ grant'[g].status = "active") =>
               grant'[g].status = grant[g].status /\ grant'[g].user = grant[g].user
    PROVE  CounterMatches'
<1>1. ASSUME NEW u \in Users PROVE ActiveOfUser(u)' = ActiveOfUser(u)
  BY DEF ActiveOfUser
<1> QED
  BY <1>1 DEF CounterMatches, ActiveOfUser

\* Revoking an active grant takes one off its user's counter, and only off that.
LEMMA CounterRevoke ==
    ASSUME TypeInv, CounterMatches, NEW g \in Grants, grant[g].status = "active",
           RevokeWrites(g, granted[grant[g].user])
    PROVE  /\ CounterMatches'
           /\ granted' = [granted EXCEPT ![grant[g].user] = Decrement(granted[grant[g].user])]
           /\ grant' = [grant EXCEPT ![g].status = "revoked"]
<1>1. PICK u : u = grant[g].user
  OBVIOUS
<1>2. u \in Users /\ granted \in [Users -> Nat] /\ grant \in [Grants -> AccessGrant]
  BY <1>1 DEF TypeInv, TypeOK, GrantsOwned, Stored
<1>3. grant' = [grant EXCEPT ![g].status = "revoked"]
  BY DEF RevokeWrites
<1>4. granted' = [granted EXCEPT ![u] = Decrement(granted[u])]
  BY <1>1, <1>2 DEF RevokeWrites, WriteCount
<1>5. granted'[u] = granted[u] - 1
  <2>1. g \in ActiveOfUser(u)
    BY <1>1 DEF ActiveOfUser
  <2>2. Cardinality(ActiveOfUser(u)) # 0
    BY <2>1, ActiveFinite, FS_EmptySet
  <2>3. granted[u] = Cardinality(ActiveOfUser(u))
    BY <1>2 DEF CounterMatches, ActiveOfUser
  <2> QED
    BY <1>2, <1>4, <2>2, <2>3 DEF Decrement
<1>6. ASSUME NEW v \in Users PROVE granted'[v] = Cardinality(ActiveOfUser(v)')
  <2>1. granted[v] = Cardinality(ActiveOfUser(v)) /\ IsFiniteSet(ActiveOfUser(v))
    BY ActiveFinite DEF CounterMatches, ActiveOfUser
  <2>2. \A k \in Grants : /\ grant'[k].user = grant[k].user
                          /\ grant'[k].status = IF k = g THEN "revoked" ELSE grant[k].status
    BY <1>2, <1>3 DEF AccessGrant
  <2>3. CASE v = u
    <3>1. ActiveOfUser(v)' = ActiveOfUser(v) \ {g} /\ g \in ActiveOfUser(v)
      BY <1>1, <2>2, <2>3 DEF ActiveOfUser
    <3> QED
      BY <1>5, <2>1, <2>3, <3>1, FS_RemoveElement
  <2>4. CASE v # u
    <3>1. ActiveOfUser(v)' = ActiveOfUser(v)
      BY <1>1, <2>2, <2>4 DEF ActiveOfUser
    <3> QED
      BY <1>2, <1>4, <2>1, <2>4, <3>1
  <2> QED
    BY <2>3, <2>4
<1>7. CounterMatches'
  BY <1>6 DEF CounterMatches, ActiveOfUser
<1> QED
  BY <1>1, <1>3, <1>4, <1>7

\* An approval adds one active grant and one to its user's counter.
LEMMA CounterApprove ==
    ASSUME OneWorker, Inv, CounterInv, NEW h \in Workers, NEW g \in Grants, ApproveCommit(h, g)
    PROVE  CounterInv'
<1>1. PICK r, u, n : r = session[h].req /\ u = RequestUser[r] /\ n = NewGrant(r, session[h].exp)
  OBVIOUS
<1>2. /\ TypeInv /\ granted \in [Users -> Nat] /\ grant \in [Grants -> AccessGrant]
      /\ r \in Requests /\ u \in Users
  BY <1>1, ConstantsAssumption DEF Inv, TypeInv, TypeOK, SessionOK, ApproveCommit
<1>3. session[h].cnt[u] = granted[u]
  BY <1>1 DEF CounterInv, SessionCounts, ApproveCommit
<1>4. granted' = [granted EXCEPT ![u] = granted[u] + 1]
  BY <1>1, <1>2, <1>3 DEF ApproveCommit, WriteCount
<1>5. grant' = [grant EXCEPT ![g] = n] /\ grant[g].status = "absent"
  BY <1>1 DEF ApproveCommit
<1>6. n.status = "active" /\ n.user = u
  BY <1>1 DEF NewGrant
<1>7. ASSUME NEW v \in Users PROVE granted'[v] = Cardinality(ActiveOfUser(v)')
  <2>1. granted[v] = Cardinality(ActiveOfUser(v)) /\ IsFiniteSet(ActiveOfUser(v))
    BY ActiveFinite DEF CounterInv, CounterMatches, ActiveOfUser
  <2>2. \A k \in Grants : grant'[k] = IF k = g THEN n ELSE grant[k]
    BY <1>2, <1>5
  <2>3. CASE v = u
    <3>1. ActiveOfUser(v)' = ActiveOfUser(v) \cup {g} /\ g \notin ActiveOfUser(v)
      BY <1>5, <1>6, <2>2, <2>3 DEF ActiveOfUser
    <3>2. Cardinality(ActiveOfUser(v)') = Cardinality(ActiveOfUser(v)) + 1
      BY <2>1, <3>1, FS_AddElement
    <3>3. granted'[v] = granted[v] + 1
      BY <1>2, <1>4, <2>3
    <3> QED
      BY <2>1, <3>2, <3>3
  <2>4. CASE v # u
    <3>1. ActiveOfUser(v)' = ActiveOfUser(v)
      BY <1>5, <1>6, <2>2, <2>4 DEF ActiveOfUser
    <3> QED
      BY <1>2, <1>4, <2>1, <2>4, <3>1
  <2> QED
    BY <2>3, <2>4
<1>8. CounterMatches'
  BY <1>7 DEF CounterMatches, ActiveOfUser
<1> QED
  BY <1>2, <1>8, CounterFinish DEF ApproveCommit

LEMMA CounterRevokeCommit ==
    ASSUME OneWorker, Inv, CounterInv, NEW h \in Workers, RevokeCommit(h)
    PROVE  CounterInv'
<1>1. TypeInv /\ CounterMatches /\ session[h].grt \in Grants
  BY DEF Inv, TypeInv, SessionOK, RevokeCommit, CounterInv
<1>2. /\ grant[session[h].grt].status = "active"
      /\ RevokeWrites(session[h].grt, granted[grant[session[h].grt].user])
  BY DEF RevokeCommit, CounterInv, SessionCounts
<1>3. CounterMatches'
  BY <1>1, <1>2, CounterRevoke
<1> QED
  BY <1>1, <1>3, CounterFinish DEF RevokeCommit

\* One grant of a cascade; what is left to revoke is still what is active.
LEMMA CounterCascade ==
    ASSUME OneWorker, Inv, CounterInv, NEW h \in Workers, NEW g \in Grants, CascadeRevoke(h, g)
    PROVE  CounterInv'
<1>1. PICK s, u, d : s = session[h] /\ u = grant[g].user /\ d = s.ds
  OBVIOUS
<1>2. /\ TypeInv /\ CounterMatches /\ s \in Session
      /\ granted \in [Users -> Nat] /\ grant \in [Grants -> AccessGrant]
  BY <1>1 DEF Inv, TypeInv, TypeOK, CounterInv
<1>3. /\ s.op \in {"archive_revoke", "delete_revoke"} /\ g \in s.todo
      /\ s.todo = ActiveGrantsOf(d)
      /\ \A k \in s.todo : s.cnt[grant[k].user] = granted[grant[k].user]
  BY <1>1 DEF CascadeRevoke, CounterInv, SessionCounts
<1>4. grant[g].status = "active" /\ s.cnt[u] = granted[u] /\ u \in Users
  BY <1>1, <1>2, <1>3 DEF ActiveGrantsOf, TypeInv, GrantsOwned, Stored
<1>5. RevokeWrites(g, granted[grant[g].user])
  BY <1>1, <1>4 DEF CascadeRevoke
<1>6. /\ CounterMatches'
      /\ granted' = [granted EXCEPT ![u] = Decrement(granted[u])]
      /\ grant' = [grant EXCEPT ![g].status = "revoked"]
  BY <1>1, <1>2, <1>4, <1>5, CounterRevoke
<1>7. PICK t : t = [s EXCEPT !.todo = @ \ {g}, !.dirty = FALSE, !.cnt[u] = Decrement(s.cnt[u])]
  OBVIOUS
<1>8. session' = [session EXCEPT ![h] = t]
  <2>1. session' = [session EXCEPT ![h].todo = @ \ {g}, ![h].dirty = FALSE,
                                    ![h].cnt[u] = Decrement(s.cnt[u])]
    BY <1>1 DEF CascadeRevoke
  <2>2. session \in [Workers -> Session]
    BY DEF Inv, TypeInv, TypeOK
  <2> QED
    BY <1>1, <1>7, <2>1, <2>2
<1>9. /\ t.op = s.op /\ t.ds = s.ds /\ t.todo = s.todo \ {g}
      /\ t.cnt = [s.cnt EXCEPT ![u] = Decrement(granted[u])]
  BY <1>2, <1>4, <1>7 DEF Session
<1>10. \A k \in Grants : /\ grant'[k].user = grant[k].user /\ grant'[k].dataset = grant[k].dataset
                        /\ grant'[k].status = IF k = g THEN "revoked" ELSE grant[k].status
  BY <1>2, <1>6 DEF AccessGrant
<1>11. t.todo = ActiveGrantsOf(t.ds)'
  BY <1>1, <1>3, <1>9, <1>10 DEF ActiveGrantsOf
<1>12. ASSUME NEW k \in t.todo PROVE t.cnt[grant'[k].user] = granted'[grant'[k].user]
  <2>1. k \in Grants /\ k \in s.todo /\ grant'[k].user = grant[k].user /\ grant[k].user \in Users
    BY <1>2, <1>3, <1>9, <1>10 DEF ActiveGrantsOf, TypeInv, GrantsOwned, Stored
  <2>2. s.cnt \in [Users -> Nat]
    BY <1>2 DEF Session
  <2>3. s.cnt[grant[k].user] = granted[grant[k].user]
    BY <1>3, <2>1
  <2>4. CASE grant[k].user = u
    BY <1>2, <1>6, <1>9, <2>1, <2>2, <2>4
  <2>5. CASE grant[k].user # u
    BY <1>2, <1>6, <1>9, <2>1, <2>2, <2>3, <2>5
  <2> QED
    BY <2>4, <2>5
<1>13. \A k \in Workers : session'[k] = t
  BY <1>2, <1>8, OnlySession
<1>14. SessionCounts(t)'
  BY <1>3, <1>9, <1>11, <1>12 DEF SessionCounts
<1> QED
  BY <1>6, <1>13, <1>14 DEF CounterInv, SessionCounts

\* The deletion of a dataset takes only grants that its cascade has revoked.
LEMMA CounterDelete ==
    ASSUME OneWorker, Inv, CounterInv, NEW h \in Workers, DeleteCommit(h)
    PROVE  CounterInv'
<1>1. TypeInv /\ CounterMatches /\ grant \in [Grants -> AccessGrant]
  BY DEF Inv, TypeInv, TypeOK, CounterInv
<1>2. ActiveGrantsOf(session[h].ds) = {}
  BY DEF DeleteCommit, CounterInv, SessionCounts
<1>3. \A g \in Grants : grant'[g] = IF grant[g].dataset = session[h].ds
                                     THEN [grant[g] EXCEPT !.status = "deleted"] ELSE grant[g]
  BY DEF DeleteCommit
<1>4. ASSUME NEW g \in Grants, grant[g].status = "active" \/ grant'[g].status = "active"
      PROVE  grant'[g].status = grant[g].status /\ grant'[g].user = grant[g].user
  BY <1>1, <1>2, <1>3, <1>4 DEF ActiveGrantsOf, AccessGrant
<1>5. CounterMatches'
  BY <1>1, <1>4, CounterSame DEF DeleteCommit
<1> QED
  BY <1>1, <1>5, CounterFinish DEF DeleteCommit

\* The sweep adds one user's active grants to those it will revoke.
LEMMA CounterSweepUser ==
    ASSUME OneWorker, Inv, CounterInv, NEW h \in Workers, NEW u \in Users, SweepUser(h, u)
    PROVE  CounterInv'
<1>1. PICK s : s = session[h]
  OBVIOUS
<1>2. TypeInv /\ s \in Session /\ s.op = "sweep" /\ u \in s.users /\ UNCHANGED <<grant, granted>>
  BY <1>1 DEF Inv, TypeInv, TypeOK, SweepUser, dbVars
<1>3. PICK t : t = [s EXCEPT !.users = @ \ {u}, !.todo = @ \cup ActiveOfUser(u)]
  OBVIOUS
<1>4. session' = [session EXCEPT ![h] = t]
  BY <1>1, <1>3 DEF SweepUser, Inv, TypeInv, TypeOK
<1>5. t.op = "sweep" /\ t.users = s.users \ {u} /\ t.todo = s.todo \cup ActiveOfUser(u) /\ t.cnt = s.cnt
  BY <1>2, <1>3 DEF Session
<1>6. \A v \in Users : /\ v \in s.users => s.cnt[v] = granted[v]
                       /\ OwnedBy(s.todo, v) # {} =>
                             OwnedBy(s.todo, v) = ActiveOfUser(v) /\ s.cnt[v] = granted[v]
  BY <1>1, <1>2 DEF CounterInv, SessionCounts
<1>7. ASSUME NEW v \in Users, OwnedBy(t.todo, v) # {}
      PROVE  OwnedBy(t.todo, v) = ActiveOfUser(v) /\ t.cnt[v] = granted[v]
  <2>1. CASE v = u
    <3>1. OwnedBy(t.todo, v) = OwnedBy(s.todo, v) \cup ActiveOfUser(v)
      BY <1>5, <2>1 DEF OwnedBy, ActiveOfUser
    <3> QED
      BY <1>2, <1>5, <1>6, <2>1, <3>1
  <2>2. CASE v # u
    <3>1. OwnedBy(t.todo, v) = OwnedBy(s.todo, v)
      BY <1>5, <2>2 DEF OwnedBy, ActiveOfUser
    <3> QED
      BY <1>5, <1>6, <1>7, <3>1
  <2> QED
    BY <2>1, <2>2
<1>8. SessionCounts(t)
  BY <1>5, <1>6, <1>7 DEF SessionCounts
<1> QED
  BY <1>2, <1>4, <1>8, CounterLoad

\* The one commit of the sweep: a user that it visited is left without an
\* active grant and with the counter at zero, and every other as it was.
LEMMA CounterSweepCommit ==
    ASSUME OneWorker, Inv, CounterInv, NEW h \in Workers, SweepCommit(h)
    PROVE  CounterInv'
<1>1. PICK s : s = session[h]
  OBVIOUS
<1>2. /\ TypeInv /\ CounterMatches /\ s \in Session /\ s.op = "sweep"
      /\ granted \in [Users -> Nat] /\ grant \in [Grants -> AccessGrant]
  BY <1>1 DEF Inv, TypeInv, TypeOK, SweepCommit, CounterInv
<1>3. CASE UNCHANGED <<grant, granted>>
  BY <1>2, <1>3, CounterSame, CounterFinish DEF SweepCommit
<1>4. CASE ~UNCHANGED <<grant, granted>>
  <2> DEFINE new(u) == SweptCount(s.cnt[u], Cardinality(OwnedBy(s.todo, u)))
  <2>1. /\ grant' = [g \in Grants |-> IF g \in s.todo THEN [grant[g] EXCEPT !.status = "revoked"]
                                       ELSE grant[g]]
        /\ \A u \in Users : granted'[u] = IF new(u) = s.cnt[u] THEN granted[u] ELSE new(u)
    BY <1>1, <1>4 DEF SweepCommit
  <2>2. \A g \in Grants : /\ grant'[g].user = grant[g].user
                          /\ grant'[g].status = IF g \in s.todo THEN "revoked" ELSE grant[g].status
    BY <1>2, <2>1 DEF AccessGrant
  <2>3. ASSUME NEW u \in Users PROVE granted'[u] = Cardinality(ActiveOfUser(u)')
    <3>1. /\ granted[u] = Cardinality(ActiveOfUser(u)) /\ granted[u] \in Nat
          /\ s.cnt[u] \in Nat
      BY <1>2 DEF CounterMatches, ActiveOfUser, Session
    <3>2. OwnedBy(s.todo, u) # {} => OwnedBy(s.todo, u) = ActiveOfUser(u) /\ s.cnt[u] = granted[u]
      BY <1>1, <1>2 DEF CounterInv, SessionCounts
    <3>3. CASE OwnedBy(s.todo, u) = {}
      <4>1. ActiveOfUser(u)' = ActiveOfUser(u)
        BY <2>2, <3>3 DEF ActiveOfUser, OwnedBy
      <4>2. new(u) = s.cnt[u]
        BY <3>1, <3>3, FS_EmptySet DEF SweptCount
      <4> QED
        BY <2>1, <3>1, <4>1, <4>2
    <3>4. CASE OwnedBy(s.todo, u) # {}
      <4>1. ActiveOfUser(u)' = {}
        BY <2>2, <3>2, <3>4 DEF ActiveOfUser, OwnedBy
      <4>2. new(u) = 0
        BY <3>1, <3>2, <3>4 DEF SweptCount
      <4>3. granted'[u] = 0
        BY <2>1, <3>1, <3>2, <3>4, <4>2
      <4> QED
        BY <4>1, <4>3, FS_EmptySet
    <3> QED
      BY <3>3, <3>4
  <2>4. CounterMatches'
    BY <2>3 DEF CounterMatches, ActiveOfUser
  <2> QED
    BY <1>2, <2>4, CounterFinish DEF SweepCommit
<1> QED
  BY <1>3, <1>4

LEMMA CounterLists ==
    ASSUME OneWorker, Inv, CounterInv, NEW h \in Workers, ListGrants(h)
    PROVE  CounterInv'
<1>1. PICK s, todo, cnt :
         /\ s = session[h] /\ todo = ActiveGrantsOf(s.ds)
         /\ cnt = [u \in Users |-> IF u \in {grant[g].user : g \in todo} THEN granted[u] ELSE 0]
  OBVIOUS
<1>2. TypeInv /\ s \in Session
  BY <1>1 DEF Inv, TypeInv, TypeOK
<1>3. PICK t : /\ t = [s EXCEPT !.op = IF s.op = "archive" THEN "archive_revoke" ELSE "delete_revoke",
                                !.todo = todo, !.cnt = cnt]
               /\ session' = [session EXCEPT ![h] = t]
  <2>1. PICK t : t = [s EXCEPT !.op = IF s.op = "archive" THEN "archive_revoke" ELSE "delete_revoke",
                                !.todo = todo, !.cnt = cnt]
    OBVIOUS
  <2> QED
    BY <1>1, <2>1 DEF ListGrants, GrantsToRevoke, Inv, TypeInv, TypeOK
<1>4. t.op \in {"archive_revoke", "delete_revoke"} /\ t.todo = todo /\ t.cnt = cnt /\ t.ds = s.ds
  BY <1>2, <1>3 DEF Session
<1>5. \A g \in todo : grant[g].user \in Users
  BY <1>1, <1>2 DEF ActiveGrantsOf, TypeInv, GrantsOwned, Stored
<1>6. SessionCounts(t)
  BY <1>1, <1>4, <1>5 DEF SessionCounts
<1> QED
  BY <1>2, <1>3, <1>6, CounterLoad DEF ListGrants, dbVars

LEMMA CounterLoads ==
    ASSUME OneWorker, Inv, CounterInv, NEW h \in Workers,
           \/ \E r \in Requests : SubmitLoad(h, r) \/ RejectLoad(h, r)
           \/ \E r \in Requests, dur \in Durations : ApproveLoad(h, r, dur)
           \/ \E g \in Grants : RevokeLoad(h, g)
           \/ \E g \in Grants, dur \in Durations : ExtendLoad(h, g, dur)
           \/ \E d \in Datasets, target \in {"published", "draft"} : PublishLoad(h, d, target)
           \/ \E d \in Datasets : UnarchiveLoad(h, d) \/ ArchiveLoad(h, d) \/ DeleteLoad(h, d)
           \/ SweepLoad(h)
    PROVE  CounterInv'
<1>0. TypeInv /\ UNCHANGED <<grant, granted>>
  BY DEF Inv, SubmitLoad, RejectLoad, ApproveLoad, RevokeLoad, ExtendLoad, PublishLoad,
         UnarchiveLoad, ArchiveLoad, DeleteLoad, SweepLoad, dbVars
<1>1. ASSUME NEW s, session' = [session EXCEPT ![h] = s],
             s.op \in {"idle", "submit", "attach", "reject", "extend", "status", "archive", "delete"}
      PROVE  CounterInv'
  <2>1. SessionCounts(s)
    BY <1>1, NoCounts
  <2> QED
    BY <1>0, <1>1, <2>1, CounterLoad
<1>2. ASSUME NEW r \in Requests, SubmitLoad(h, r) \/ RejectLoad(h, r) PROVE CounterInv'
  <2>1. PICK o \in {"submit", "reject"} :
           session' = [session EXCEPT ![h] = [Idle EXCEPT !.op = o, !.req = r]]
    BY <1>2 DEF SubmitLoad, RejectLoad, Begin
  <2>2. [Idle EXCEPT !.op = o, !.req = r].op = o
    BY DEF Idle
  <2> QED
    BY <1>1, <2>1, <2>2
<1>3. ASSUME NEW r \in Requests, NEW dur \in Durations, ApproveLoad(h, r, dur) PROVE CounterInv'
  <2>1. PICK c, e : c = CacheCount(RequestUser[r]) /\ e = ComputeExpiry(now, dur)
    OBVIOUS
  <2>2. PICK s : s = [Idle EXCEPT !.op = "approve", !.req = r, !.cnt = c, !.exp = e]
    OBVIOUS
  <2>3. session' = [session EXCEPT ![h] = s]
    BY <1>3, <2>1, <2>2 DEF ApproveLoad, Begin
  <2>4. s.op = "approve" /\ s.req = r /\ s.cnt = c
    BY <2>2 DEF Idle
  <2>5. c[RequestUser[r]] = granted[RequestUser[r]]
    BY <2>1, ConstantsAssumption DEF CacheCount, ZeroCounts
  <2>6. SessionCounts(s)
    BY <2>4, <2>5 DEF SessionCounts
  <2> QED
    BY <1>0, <2>3, <2>6, CounterLoad
<1>4. ASSUME NEW g \in Grants, RevokeLoad(h, g) PROVE CounterInv'
  <2>1. PICK c : c = CacheCount(grant[g].user)
    OBVIOUS
  <2>2. PICK s : s = [Idle EXCEPT !.op = "revoke", !.grt = g, !.cnt = c]
    OBVIOUS
  <2>3. session' = [session EXCEPT ![h] = s] /\ grant[g].status = "active"
    BY <1>4, <2>1, <2>2 DEF RevokeLoad, Begin
  <2>4. s.op = "revoke" /\ s.grt = g /\ s.cnt = c
    BY <2>2 DEF Idle
  <2>5. c[grant[g].user] = granted[grant[g].user]
    BY <1>0, <2>1, <2>3 DEF CacheCount, ZeroCounts, TypeInv, GrantsOwned, Stored
  <2>6. SessionCounts(s)
    BY <2>3, <2>4, <2>5 DEF SessionCounts
  <2> QED
    BY <1>0, <2>3, <2>6, CounterLoad
<1>5. ASSUME NEW g \in Grants, NEW dur \in Durations, ExtendLoad(h, g, dur) PROVE CounterInv'
  <2>1. PICK e : e = ComputeExpiry(grant[g].expires_at, dur)
    OBVIOUS
  <2>2. session' = [session EXCEPT ![h] = [Idle EXCEPT !.op = "extend", !.grt = g, !.exp = e]]
    BY <1>5, <2>1 DEF ExtendLoad, Begin
  <2>3. [Idle EXCEPT !.op = "extend", !.grt = g, !.exp = e].op = "extend"
    BY DEF Idle
  <2> QED
    BY <1>1, <2>2, <2>3
<1>6. ASSUME NEW d \in Datasets,
             \/ \E target \in {"published", "draft"} : PublishLoad(h, d, target)
             \/ UnarchiveLoad(h, d) \/ ArchiveLoad(h, d) \/ DeleteLoad(h, d)
      PROVE  CounterInv'
  <2>1. PICK b : b = (dataset[d] # "archived")
    OBVIOUS
  <2>2. ASSUME NEW x PROVE
          /\ [Idle EXCEPT !.op = "status", !.ds = d, !.target = x].op = "status"
          /\ [Idle EXCEPT !.op = "archive", !.ds = d, !.target = "archived", !.dirty = b].op = "archive"
          /\ [Idle EXCEPT !.op = "delete", !.ds = d].op = "delete"
    BY DEF Idle
  <2>3. ASSUME NEW x \in {"published", "draft"}, PublishLoad(h, d, x) PROVE CounterInv'
    BY <1>1, <2>2, <2>3 DEF PublishLoad, Begin
  <2>4. CASE UnarchiveLoad(h, d)
    BY <1>1, <2>2, <2>4 DEF UnarchiveLoad, Begin
  <2>5. CASE ArchiveLoad(h, d)
    BY <1>1, <2>1, <2>2, <2>5 DEF ArchiveLoad, Begin
  <2>6. CASE DeleteLoad(h, d)
    BY <1>1, <2>2, <2>6 DEF DeleteLoad, Begin
  <2> QED
    BY <1>6, <2>3, <2>4, <2>5, <2>6
<1>7. CASE SweepLoad(h)
  <2>1. PICK due, c : /\ due = {u \in Users : deletion[u] = "due"}
                      /\ c = [u \in Users |-> IF u \in due THEN granted[u] ELSE 0]
    OBVIOUS
  <2>2. PICK s : s = [Idle EXCEPT !.op = "sweep", !.users = due, !.cnt = c]
    OBVIOUS
  <2>3. session' = [session EXCEPT ![h] = s]
    BY <1>7, <2>1, <2>2 DEF SweepLoad, Begin
  <2>4. s.op = "sweep" /\ s.users = due /\ s.cnt = c /\ s.todo = {}
    BY <2>2 DEF Idle
  <2>5. SessionCounts(s)
    BY <2>1, <2>4 DEF SessionCounts, OwnedBy
  <2> QED
    BY <1>0, <2>3, <2>5, CounterLoad
<1> QED
  BY <1>2, <1>3, <1>4, <1>5, <1>6, <1>7

\* The commits that change neither which grants are active nor a counter.
LEMMA CounterCommits ==
    ASSUME OneWorker, Inv, CounterInv, NEW h \in Workers,
           \/ \E withFile \in BOOLEAN : SubmitCommit(h, withFile)
           \/ AttachCommit(h) \/ AttachFail(h) \/ RejectCommit(h) \/ ExtendCommit(h)
           \/ StatusCommit(h) \/ ArchiveCommit(h) \/ Abort(h)
    PROVE  CounterInv'
<1>1. TypeInv /\ CounterMatches /\ grant \in [Grants -> AccessGrant] /\ UNCHANGED granted
  BY DEF Inv, TypeInv, TypeOK, CounterInv, SubmitCommit, AttachCommit, AttachFail, RejectCommit,
         ExtendCommit, StatusCommit, ArchiveCommit, Abort, dbVars
<1>2. \A g \in Grants : grant'[g].status = grant[g].status /\ grant'[g].user = grant[g].user
  BY <1>1 DEF SubmitCommit, AttachCommit, AttachFail, RejectCommit, ExtendCommit, SetExpiry,
              StatusCommit, ArchiveCommit, Abort, dbVars, AccessGrant
<1>3. CounterMatches'
  BY <1>1, <1>2, CounterSame
<1>4. ASSUME NEW withFile \in BOOLEAN, SubmitCommit(h, withFile) PROVE CounterInv'
  <2>1. PICK s : /\ s = IF withFile THEN [Idle EXCEPT !.op = "attach", !.req = session[h].req] ELSE Idle
                 /\ session' = [session EXCEPT ![h] = s]
    BY <1>4 DEF SubmitCommit
  <2>2. s.op \in {"attach", "idle"}
    BY <2>1 DEF Idle
  <2>3. SessionCounts(s)
    BY <2>2, NoCounts
  <2> QED
    BY <1>1, <1>4, <2>1, <2>3, CounterLoad DEF SubmitCommit
<1>5. CASE Finish(h)
  BY <1>1, <1>3, <1>5, CounterFinish
<1> QED
  BY <1>4, <1>5 DEF AttachCommit, AttachFail, RejectCommit, ExtendCommit, StatusCommit,
                    ArchiveCommit, Abort

LEMMA CounterStep ==
    ASSUME OneWorker, Inv, CounterInv, [Next]_vars
    PROVE  CounterInv'
<1>1. ASSUME NEW h \in Handlers, HandlerStep(h) PROVE CounterInv'
  <2>1. h \in Workers
    BY DEF Workers
  <2> QED
    BY <1>1, <2>1, CounterApprove, CounterRevokeCommit, CounterCascade, CounterDelete,
       CounterLists, CounterLoads, CounterCommits DEF HandlerStep, PlainStep
<1>2. ASSUME NEW h \in Sweepers, SweeperStep(h) PROVE CounterInv'
  <2>1. h \in Workers
    BY DEF Workers
  <2> QED
    BY <1>2, <2>1, CounterLoads, CounterSweepUser, CounterSweepCommit DEF SweeperStep
<1>3. ASSUME NEW h \in Workers, Abort(h) PROVE CounterInv'
  BY <1>3, CounterCommits
<1>4. CASE (\E u \in Users : UserStep(u)) \/ Tick \/ UNCHANGED vars
  <2>1. UNCHANGED <<grant, granted, session>>
    BY <1>4 DEF UserStep, RequestDeletion, GraceElapses, CancelDeletion, Tick, vars
  <2> QED
    BY <2>1 DEF CounterInv, CounterMatches, SessionCounts, ActiveGrantsOf, OwnedBy, ActiveOfUser
<1> QED
  BY <1>1, <1>2, <1>3, <1>4 DEF Next

LEMMA CounterHolds ==
    ASSUME OneWorker
    PROVE  Spec => []CounterInv
<1>1. Init => CounterInv
  <2> SUFFICES ASSUME Init PROVE CounterInv
    OBVIOUS
  <2>1. \A u \in Users : ActiveOfUser(u) = {} /\ granted[u] = 0
    BY DEF Init, ActiveOfUser, NoGrant, ZeroCounts
  <2>2. \A h \in Workers : session[h] = Idle /\ Idle.op = "idle"
    BY DEF Init, Idle
  <2>3. CounterMatches
    BY <2>1, FS_EmptySet DEF CounterMatches, ActiveOfUser
  <2> QED
    BY <2>2, <2>3, NoCounts DEF CounterInv
<1>2. Inv /\ CounterInv /\ [Next]_vars => CounterInv'
  BY CounterStep
<1> QED
  BY <1>1, <1>2, InvCorrect, PTL DEF Spec

\* users.datasets_granted is the number of the user's active grants, through
\* approvals, revocations, both cascades and the sweep, as long as no two of
\* them overlap: each writes a number that it computed from one it had loaded.
THEOREM CountersMatch ==
    ASSUME OneWorker
    PROVE  Spec => []CounterMatches
<1>1. CounterInv => CounterMatches
  BY DEF CounterInv
<1> QED
  BY <1>1, CounterHolds, PTL

\* When archive_dataset finishes, none of the dataset's grants is active: no
\* grant can be approved or extended between its list and its commit.
THEOREM ArchivesComplete ==
    ASSUME OneWorker
    PROVE  Spec => ArchiveCascadeComplete
<1>1. ASSUME Inv, CounterInv, NEW h \in Handlers, ArchiveCommit(h), NEW g \in Grants,
             grant'[g].dataset = session[h].ds
      PROVE  grant'[g].status # "active"
  <2>1. h \in Workers /\ UNCHANGED grant
    BY <1>1 DEF Workers, ArchiveCommit
  <2>2. ActiveGrantsOf(session[h].ds) = {}
    BY <1>1, <2>1 DEF CounterInv, SessionCounts, ArchiveCommit
  <2> QED
    BY <1>1, <2>1, <2>2 DEF ActiveGrantsOf
<1>2. Inv /\ CounterInv =>
         \A h \in Handlers : ArchiveCommit(h) =>
             \A g \in Grants : grant'[g].dataset = session[h].ds => grant'[g].status # "active"
  BY <1>1
<1> QED
  BY <1>2, CounterHolds, InvCorrect, PTL DEF ArchiveCascadeComplete
=============================================================================
