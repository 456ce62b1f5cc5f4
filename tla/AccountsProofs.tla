--------------------------- MODULE AccountsProofs ---------------------------
(***************************************************************************)
(* Proofs about Accounts, for any number of requests, users, sessions and  *)
(* roles, and any threshold of the lockout.                                *)
(***************************************************************************)
EXTENDS Accounts, FiniteSetTheorems, TLAPS

-----------------------------------------------------------------------------
(* Types.  A request has a user, and a change of roles has a role of an    *)
(* account that exists.                                                    *)

RoleOps == {"assign", "assigning", "unassign", "unassigning"}
StoredOps == RoleOps \cup {"password", "anonymize", "unlisted", "stripping"}

GoodJob(j) ==
    /\ j.op # "idle" => j.user \in Users /\ \A s \in j.sessions : session[s].user = j.user
    /\ j.op \in RoleOps => j.role \in Roles
    /\ j.op \in StoredOps => Stored(j.user)

JobOK(h) == GoodJob(job[h])

\* A session has an account from the moment it is opened.
OwnerOK(s) ==
    IF session[s].status = "absent" THEN session[s].user = None
    ELSE session[s].user \in Users

TypeInv ==
    /\ AccountTypeOK
    /\ \A h \in Handlers : JobOK(h)
    /\ \A s \in Sessions : OwnerOK(s)

USE DEF historyVars, roleVars, loginVars

LEMMA JobFields ==
    ASSUME TypeInv, NEW h \in Handlers
    PROVE  /\ job[h] \in Job
           /\ JobOK(h)
           /\ job[h].seen \in Seen
           /\ job[h].op # "idle" => account[job[h].user] \in Account
BY DEF TypeInv, AccountTypeOK, Job, JobOK, GoodJob

LEMMA FreeType == Free \in Job /\ Free.op = "idle" /\ GoodJob(Free)
BY DEF Free, Job, Ops, Unseen, Seen, GoodJob, RoleOps, StoredOps

LEMMA InitTypes == Init => TypeInv
<1> SUFFICES ASSUME Init PROVE TypeInv
  OBVIOUS
<1>1. NoAccount \in Account /\ NoSession \in SessionRow
  BY DEF NoAccount, Account, AccountStatus, NoSession, SessionRow
<1>2. AccountTypeOK
  BY <1>1, FreeType DEF Init, AccountTypeOK
<1>3. \A h \in Handlers : JobOK(h)
  BY DEF Init, JobOK, GoodJob, Free, RoleOps, StoredOps
<1>4. \A s \in Sessions : OwnerOK(s)
  BY DEF Init, OwnerOK, NoSession
<1>5. QED
  BY <1>2, <1>3, <1>4 DEF TypeInv

\* A request goes on to its next step, and no account disappears.
LEMMA NextJob ==
    ASSUME TypeInv, NEW h \in Handlers, NEW j \in Job, SetJob(h, j),
           \A u \in Users : Stored(u) => Stored(u)',
           \A s \in Sessions : session[s].user \in Users => session'[s].user = session[s].user,
           GoodJob(j)
    PROVE  job' \in [Handlers -> Job] /\ \A k \in Handlers : JobOK(k)'
<1>1. job \in [Handlers -> Job] /\ \A k \in Handlers : JobOK(k)
  BY DEF TypeInv, AccountTypeOK
<1>2. job' \in [Handlers -> Job] /\ job'[h] = j
  BY <1>1 DEF SetJob
<1>3. ASSUME NEW i \in Job, GoodJob(i)
      PROVE  /\ i.op # "idle" =>
                   i.user \in Users /\ \A s \in i.sessions : session'[s].user = i.user
             /\ i.op \in RoleOps => i.role \in Roles
             /\ i.op \in StoredOps => Stored(i.user)'
  BY <1>3 DEF GoodJob, Job, RoleOps, StoredOps
<1>4. ASSUME NEW k \in Handlers PROVE JobOK(k)'
  <2>1. PICK i \in Job : job'[k] = i /\ GoodJob(i)
    BY <1>1, <1>2 DEF SetJob, JobOK
  <2>2. QED
    BY <1>3, <2>1 DEF JobOK, GoodJob
<1>5. QED
  BY <1>2, <1>4

\* The row of an account, changed.
LEMMA NextAccount ==
    ASSUME TypeInv, NEW u \in Users, NEW a \in Account, a.status # "absent" \/ ~Stored(u),
           account' = [account EXCEPT ![u] = a]
    PROVE  /\ account' \in [Users -> Account]
           /\ \A v \in Users : Stored(v) => Stored(v)'
BY DEF TypeInv, AccountTypeOK, Stored

\* Fields of such a row, changed.
LEMMA AccountFields ==
    ASSUME NEW a \in Account, NEW s \in AccountStatus, NEW r \in {"user", "admin"}
    PROVE  /\ [a EXCEPT !.status = s] \in Account
           /\ [a EXCEPT !.status = s].status = s
           /\ [a EXCEPT !.role = r] \in Account
           /\ [a EXCEPT !.role = r].status = a.status
           /\ Renewed(a) \in Account
           /\ Renewed(a).status = a.status /\ Renewed(a).role = a.role
<1>1. [a EXCEPT !.status = s] \in Account /\ [a EXCEPT !.status = s].status = s
  BY DEF Account
<1>2. [a EXCEPT !.role = r] \in Account /\ [a EXCEPT !.role = r].status = a.status
  BY DEF Account
<1>3. Renewed(a) \in Account /\ Renewed(a).status = a.status /\ Renewed(a).role = a.role
  <2> DEFINE n == a.changes + 1
  <2>1. n \in Nat
    BY DEF Account
  <2>2. Renewed(a) = [a EXCEPT !.changes = n, !.closing = n]
    BY DEF Renewed, Account
  <2> HIDE DEF n
  <2>3. QED
    BY <2>1, <2>2 DEF Account
<1>4. QED
  BY <1>1, <1>2, <1>3

\* What a link sent by mail changes.
LEMMA LinkUpdate ==
    ASSUME TypeInv, NEW u \in Users, VerifyEmail(u) \/ ConfirmInvite(u)
    PROVE  \E a \in Account :
              /\ a.status = account[u].status /\ a.role = account[u].role
              /\ a.closing = account[u].closing
              /\ UpdateAccount(u, a)
<1>1. account[u] \in Account
  BY DEF TypeInv, AccountTypeOK
<1> DEFINE a == [account[u] EXCEPT !.verified = TRUE]
           n == account[u].changes + 1
           b == [account[u] EXCEPT !.verified = TRUE, !.changes = n]
<1>2. /\ a \in Account /\ a.status = account[u].status /\ a.role = account[u].role
      /\ a.closing = account[u].closing
  BY <1>1 DEF Account
<1>3. /\ b \in Account /\ b.status = account[u].status /\ b.role = account[u].role
      /\ b.closing = account[u].closing
  <2>1. n \in Nat
    BY <1>1 DEF Account
  <2> HIDE DEF n
  <2>2. QED
    BY <1>1, <2>1 DEF Account
<1>4. UpdateAccount(u, a) \/ UpdateAccount(u, b)
  BY <1>1 DEF Account, VerifyEmail, ConfirmInvite
<1> HIDE DEF a, b
<1>5. QED
  BY <1>2, <1>3, <1>4

\* Actions without a request.
LEMMA OthersTypes ==
    ASSUME TypeInv, 
           \/ \E u \in Users : AccountStep(u)
           \/ \E s \in Sessions : RevokeSession(s)
           \/ \E r \in Roles : CreateRole(r) \/ DeleteRole(r)
    PROVE  TypeInv'
<1> USE DEF TypeInv, AccountTypeOK
<1>0. UNCHANGED session => \A s \in Sessions : OwnerOK(s)'
  BY DEF OwnerOK
<1>1. ASSUME NEW u \in Users, Register(u) \/ Invite(u) PROVE TypeInv'
  <2>1. PICK a \in Account : a.status # "absent" /\ Create(u, a) /\ UNCHANGED assigned
    BY <1>1 DEF Register, Invite, Invited, NoAccount, Account, AccountStatus
  <2>2. account' = [account EXCEPT ![u] = a]
    BY <2>1 DEF Create
  <2>3. account' \in [Users -> Account] /\ \A v \in Users : Stored(v) => Stored(v)'
    BY <2>1, <2>2, NextAccount
  <2>4. \A h \in Handlers : JobOK(h)'
    BY <2>1, <2>3 DEF Create, JobOK, GoodJob, RoleOps, StoredOps
  <2>5. QED
    BY <1>0, <2>1, <2>3, <2>4 DEF Create
<1>2. ASSUME NEW u \in Users, NEW r \in Roles, InviteAdmin(u, r) PROVE TypeInv'
  <2>1. PICK a \in Account : a.status # "absent" /\ Create(u, a)
    BY <1>2 DEF InviteAdmin, Invited, NoAccount, Account, AccountStatus, AdminIff
  <2>2. account' = [account EXCEPT ![u] = a]
    BY <2>1 DEF Create
  <2>3. account' \in [Users -> Account] /\ \A v \in Users : Stored(v) => Stored(v)'
    BY <2>1, <2>2, NextAccount
  <2>4. \A h \in Handlers : JobOK(h)'
    BY <2>1, <2>3 DEF Create, JobOK, GoodJob, RoleOps, StoredOps
  <2>5. assigned' \in [Users -> [Roles -> Nat]]
    BY <1>2 DEF InviteAdmin
  <2>6. QED
    BY <1>0, <2>1, <2>3, <2>4, <2>5 DEF Create
<1>3. ASSUME NEW u \in Users, VerifyEmail(u) \/ ConfirmInvite(u) PROVE TypeInv'
  <2>1. PICK a \in Account : a.status = account[u].status /\ UpdateAccount(u, a)
    BY <1>3, LinkUpdate
  <2>2. account' = [account EXCEPT ![u] = a] /\ a.status # "absent"
    BY <2>1 DEF UpdateAccount, Stored
  <2>3. account' \in [Users -> Account] /\ \A v \in Users : Stored(v) => Stored(v)'
    BY <2>2, NextAccount
  <2>4. \A h \in Handlers : JobOK(h)'
    BY <2>1, <2>3 DEF UpdateAccount, JobOK, GoodJob, RoleOps, StoredOps
  <2>5. QED
    BY <1>0, <2>1, <2>3, <2>4 DEF UpdateAccount
<1>4. ASSUME NEW u \in Users, FailureExpires(u) PROVE TypeInv'
  <2>1. failures' \in [Users -> Nat]
    BY <1>4 DEF FailureExpires
  <2>2. QED
    <3>1. UNCHANGED <<account, assigned, roleRow, lock, session, job, unrevoked, unsynced>>
      BY <1>4 DEF FailureExpires
    <3>2. \A h \in Handlers : JobOK(h) => JobOK(h)'
      BY <3>1 DEF JobOK, GoodJob, Stored
    <3>3. QED
      BY <1>0, <2>1, <3>1, <3>2
<1>5. ASSUME NEW s \in Sessions, RevokeSession(s) PROVE TypeInv'
  <2>1. session' \in [Sessions -> SessionRow]
    <3>1. session \in [Sessions -> SessionRow] /\ session' = Revoked({s})
      BY <1>5 DEF RevokeSession
    <3>2. QED
      BY ONLY <3>1 DEF Revoked, NoSession, SessionRow
  <2>2. \A t \in Sessions : OwnerOK(t)'
    BY <1>5, <2>1 DEF RevokeSession, Revoked, NoSession, SessionRow, OwnerOK, Active
  <2>3. \A t \in Sessions : session'[t].user = session[t].user
    BY <1>5 DEF RevokeSession, Revoked, NoSession, SessionRow
  <2>4. \A h \in Handlers : JobOK(h)'
    BY <1>5, <2>3 DEF RevokeSession, JobOK, GoodJob, Stored, Job, RoleOps, StoredOps
  <2>5. QED
    BY <1>5, <2>1, <2>2, <2>4 DEF RevokeSession
<1>6. ASSUME NEW r \in Roles, CreateRole(r) PROVE TypeInv'
  BY <1>0, <1>6 DEF CreateRole, JobOK, GoodJob, Stored
<1>7. ASSUME NEW r \in Roles, DeleteRole(r) PROVE TypeInv'
  <2>1. roleRow' \in [Roles -> {"absent", "stored", "deleted"}]
    BY <1>7 DEF DeleteRole
  <2>2. assigned' \in [Users -> [Roles -> Nat]] /\ unsynced' \subseteq Users
    BY <1>7 DEF DeleteRole
  <2>3. QED
    BY <1>0, <1>7, <2>1, <2>2 DEF DeleteRole, JobOK, GoodJob, Stored
<1>8. QED
  BY <1>1, <1>2, <1>3, <1>4, <1>5, <1>6, <1>7 DEF AccountStep

\* A step of a request that leaves the rest to be typed separately.
LEMMA StepTypes ==
    ASSUME TypeInv, NEW h \in Handlers, NEW j \in Job, SetJob(h, j),
           \A u \in Users : Stored(u) => Stored(u)',
           \A s \in Sessions : session[s].user \in Users => session'[s].user = session[s].user,
           GoodJob(j),
           account' \in [Users -> Account],
           assigned' \in [Users -> [Roles -> Nat]],
           session' \in [Sessions -> SessionRow],
           failures' \in [Users -> Nat],
           lock' \in [Users -> Handlers \cup {None}],
           unrevoked' \subseteq Users, unsynced' \subseteq Users,
           \A s \in Sessions : OwnerOK(s)',
           UNCHANGED roleRow
    PROVE  TypeInv'
BY NextJob DEF TypeInv, AccountTypeOK

\* A step of a request that only reads.
LEMMA ReadTypes ==
    ASSUME TypeInv, NEW h \in Handlers, NEW j \in Job, SetJob(h, j),
           GoodJob(j),
           UNCHANGED <<account, roleVars, loginVars, historyVars>>
    PROVE  TypeInv'
BY StepTypes DEF TypeInv, AccountTypeOK, Stored, OwnerOK

\* Revoking sessions.
LEMMA RevokedTypes ==
    ASSUME TypeInv, NEW h \in Handlers, job[h].op # "idle",
           session' = Revoked(job[h].sessions),
           JobOK(h)
    PROVE  /\ session' \in [Sessions -> SessionRow]
           /\ \A s \in Sessions : OwnerOK(s)'
           /\ \A s \in Sessions : session'[s].user = session[s].user
<1>1. ASSUME NEW s \in Sessions
      PROVE  /\ session'[s] \in SessionRow
             /\ session'[s].user = session[s].user
             /\ IF s \in job[h].sessions THEN session'[s].status = "revoked"
                ELSE session'[s] = session[s]
  BY DEF Revoked, NoSession, TypeInv, AccountTypeOK, SessionRow
<1>2. session' \in [Sessions -> SessionRow]
  BY <1>1 DEF Revoked
<1>3. job[h].sessions \subseteq Sessions /\ job[h].user \in Users
  BY JobFields DEF Job, GoodJob, JobOK
<1>4. \A s \in Sessions : OwnerOK(s)'
  BY <1>1, <1>3 DEF TypeInv, OwnerOK, JobOK, GoodJob, SessionRow
<1>5. QED
  BY <1>1, <1>2, <1>4

LEMMA SignInTypes ==
    ASSUME TypeInv, NEW h \in Handlers, SignInStep(h)
    PROVE  TypeInv'
<1>0. job[h] \in Job /\ JobOK(h) /\ job[h].seen \in Seen
  BY JobFields
<1>1. ASSUME NEW u \in Users, LoginCheck(h, u) \/ PasswordLoad(h, u) PROVE TypeInv'
  <2>1. PICK op \in {"checked", "password"} :
            /\ SetJob(h, [Free EXCEPT !.op = op, !.user = u])
            /\ op = "password" => Stored(u)
    BY <1>1 DEF LoginCheck, PasswordLoad, Begin
  <2>2. [Free EXCEPT !.op = op, !.user = u] \in Job
    BY <2>1 DEF Free, Job, Ops, Unseen, Seen
  <2>3. GoodJob([Free EXCEPT !.op = op, !.user = u])
    BY <2>1 DEF RoleOps, StoredOps, Free, GoodJob
  <2>4. QED
    BY <1>1, <2>1, <2>2, <2>3, ReadTypes DEF LoginCheck, PasswordLoad
<1>2. ASSUME NEW correct \in BOOLEAN, LoginVerify(h, correct) PROVE TypeInv'
  <2>1. job[h].op = "checked" /\ account[job[h].user].changes \in Nat
    BY <1>2, JobFields DEF LoginVerify, Account
  <2>2. [job[h] EXCEPT !.op = "failing"] \in Job
    BY <1>0 DEF Job, Ops
  <2>3. [job[h] EXCEPT !.op = "verified", !.seen.changes = account[job[h].user].changes] \in Job
    <3>1. [job[h].seen EXCEPT !.changes = account[job[h].user].changes] \in Seen
      BY <1>0, <2>1 DEF Seen
    <3>2. QED
      BY <1>0, <3>1 DEF Job, Ops
  <2>4. PICK j \in Job : SetJob(h, j) /\ GoodJob(j)
    BY <1>0, <1>2, <2>1, <2>2, <2>3, FreeType DEF LoginVerify, GoodJob, JobOK, RoleOps, StoredOps, Job
  <2>5. QED
    BY <1>0, <1>2, <2>1, <2>4, ReadTypes DEF LoginVerify, JobOK, GoodJob, RoleOps, StoredOps, Free
<1>3. CASE LoginFail(h)
  <2>1. failures' \in [Users -> Nat]
    BY <1>0, <1>3 DEF LoginFail, JobOK, GoodJob, TypeInv, AccountTypeOK
  <2>2. QED
    BY <1>3, <2>1, StepTypes, FreeType DEF LoginFail, TypeInv, AccountTypeOK, Stored, OwnerOK
<1>4. ASSUME NEW s \in Sessions, LoginIssue(h, s) PROVE TypeInv'
  <2>1. session' \in [Sessions -> SessionRow] /\ \A t \in Sessions : OwnerOK(t)'
    BY <1>0, <1>4 DEF LoginIssue, JobOK, GoodJob, Seen, SessionRow, BeingAnonymized, TypeInv, AccountTypeOK, OwnerOK
  <2>2. \A t \in Sessions : session[t].user \in Users => session'[t].user = session[t].user
    BY <1>4, AccountsAssumption DEF LoginIssue, TypeInv, AccountTypeOK, OwnerOK
  <2>3. QED
    BY <1>4, <2>1, <2>2, StepTypes, FreeType DEF LoginIssue, TypeInv, AccountTypeOK, Stored, OwnerOK
<1>5. ASSUME NEW s \in Sessions, RefreshLoad(h, s) PROVE TypeInv'
  <2>1. session[s].user \in Users
    BY <1>5 DEF RefreshLoad, Active, TypeInv, OwnerOK
  <2>2. [Free EXCEPT !.op = "refresh", !.user = session[s].user, !.session = s] \in Job
    BY <2>1 DEF Free, Job, Ops, Unseen, Seen
  <2>3. QED
    BY <1>5, <2>1, <2>2, ReadTypes DEF RefreshLoad, RoleOps, StoredOps, Free, GoodJob, JobOK
<1>6. CASE RefreshCommit(h)
  BY <1>6, StepTypes, FreeType DEF RefreshCommit, Touch, TypeInv, AccountTypeOK, Stored, OwnerOK
<1>7. CASE PasswordCommit(h)
  <2>1. /\ job[h].user \in Users
        /\ [job[h] EXCEPT !.op = "changed"] \in Job
        /\ GoodJob([job[h] EXCEPT !.op = "changed"])
    BY <1>0, <1>7 DEF PasswordCommit, JobOK, GoodJob, Job, Ops, RoleOps, StoredOps
  <2>2. account' \in [Users -> Account] /\ \A u \in Users : Stored(u) => Stored(u)'
    <3> DEFINE a == Renewed(account[job[h].user])
    <3>1. a \in Account /\ a.status = account[job[h].user].status
      BY <2>1, AccountFields DEF TypeInv, AccountTypeOK, AccountStatus
    <3>2. account' = [account EXCEPT ![job[h].user] = a]
      BY <1>7, <2>1 DEF PasswordCommit, TypeInv, AccountTypeOK
    <3>3. a.status # "absent" \/ ~Stored(job[h].user)
      BY <3>1 DEF Stored
    <3> HIDE DEF a
    <3>4. QED
      BY <2>1, <3>1, <3>2, <3>3, NextAccount
  <2>3. QED
    BY <1>7, <2>1, <2>2, StepTypes DEF PasswordCommit, TypeInv, AccountTypeOK, Job, RoleOps, StoredOps, OwnerOK, GoodJob, Free, JobOK
<1>8. CASE RevokeList(h)
  <2>1. [job[h] EXCEPT !.op = "revoking", !.sessions = OpenSessions(job[h].user)] \in Job
    BY <1>0 DEF Job, Ops, OpenSessions
  <2>2. QED
    BY <1>0, <1>8, <2>1, ReadTypes DEF RevokeList, ListOpenSessions, OpenSessions, Job, RoleOps, StoredOps, JobOK, GoodJob
<1>9. CASE RevokeCommit(h)
  <2>1. /\ session' \in [Sessions -> SessionRow] /\ \A s \in Sessions : OwnerOK(s)'
        /\ \A s \in Sessions : session'[s].user = session[s].user
    BY <1>0, <1>9, RevokedTypes DEF RevokeCommit
  <2>2. QED
    BY <1>9, <2>1, StepTypes, FreeType DEF RevokeCommit, TypeInv, AccountTypeOK, Stored
<1>10. QED
  BY <1>1, <1>2, <1>3, <1>4, <1>5, <1>6, <1>7, <1>8, <1>9 DEF SignInStep

\* A request whose only write is a change of its user's account.
LEMMA AdminAccount ==
    ASSUME TypeInv, NEW h \in Handlers, NEW a \in Account, job[h].op # "idle",
           a.status # "absent" \/ ~Stored(job[h].user),
           account' = [account EXCEPT ![job[h].user] = a]
    PROVE  account' \in [Users -> Account] /\ \A u \in Users : Stored(u) => Stored(u)'
BY JobFields, NextAccount DEF JobOK, GoodJob

\* What a request of status or anonymisation writes.
LEMMA NewFields ==
    ASSUME TypeInv, NEW h \in Handlers, job[h].op # "idle", NEW role \in {"user", "admin"}
    PROVE  /\ NewStatus(h) \in AccountStatus
           /\ NewStatus(h) = "absent" => ~Stored(job[h].user)
           /\ NewRole(h, role) \in {"user", "admin"}
           /\ account[job[h].user] \in Account
BY JobFields DEF NewStatus, Status, NewRole, AccountStatus, Account, Stored

\* The locks that are left, and the role changes found outdated.
LEMMA ReleaseTypes ==
    ASSUME TypeInv, NEW h \in Handlers
    PROVE  /\ Release(h) \in [Users -> Handlers \cup {None}]
           /\ job[h].op # "idle" /\ MarkUnsynced(h) => unsynced' \subseteq Users
BY JobFields DEF Release, MarkUnsynced, JobOK, GoodJob, TypeInv, AccountTypeOK

LEMMA StrippedTypes ==
    ASSUME TypeInv, NEW u \in Users, NEW roles
    PROVE  Stripped(u, roles) \in [Users -> [Roles -> Nat]]
BY DEF Stripped, TypeInv, AccountTypeOK

LEMMA AdminTypes ==
    ASSUME TypeInv, NEW h \in Handlers, AdminStep(h)
    PROVE  TypeInv'
<1>0. job[h] \in Job /\ JobOK(h) /\ job[h].seen \in Seen
  BY JobFields
<1>1. ASSUME NEW u \in Users, NEW op \in {"suspend", "activate"}, StatusLoad(h, u, op)
      PROVE  TypeInv'
  <2> DEFINE same == account[u].status = Status(op)
             j == [Free EXCEPT !.op = op, !.user = u, !.seen.same = same]
  <2>1. same \in BOOLEAN
    OBVIOUS
  <2>2. j \in Job /\ GoodJob(j)
    <3> HIDE DEF same
    <3>1. QED
      BY <2>1 DEF Free, Job, Ops, Unseen, Seen, GoodJob, RoleOps, StoredOps
  <2>3. SetJob(h, j)
    BY <1>1 DEF StatusLoad
  <2>4. QED
    BY <1>1, <2>2, <2>3, ReadTypes DEF StatusLoad
<1>2. CASE StatusCommit(h)
  <2>1. job[h].op # "idle" /\ UNCHANGED <<roleVars, loginVars, historyVars>>
        /\ SetJob(h, Free)
    BY <1>2 DEF StatusCommit
  <2>2. [account[job[h].user] EXCEPT !.status = NewStatus(h)] \in Account
    BY <2>1, NewFields DEF Account
  <2>3. account' = [account EXCEPT ![job[h].user] =
                       [account[job[h].user] EXCEPT !.status = NewStatus(h)]]
    BY <1>0, <1>2 DEF StatusCommit, JobOK, GoodJob, TypeInv, AccountTypeOK
  <2>4. account' \in [Users -> Account] /\ \A u \in Users : Stored(u) => Stored(u)'
    BY <2>1, <2>2, <2>3, AdminAccount, NewFields DEF Account
  <2>5. QED
    BY <2>1, <2>4, StepTypes, FreeType DEF TypeInv, AccountTypeOK, OwnerOK
<1>3. ASSUME NEW u \in Users, AnonymizeLoad(h, u) PROVE TypeInv'
  <2> DEFINE same == account[u].status = "deleted"
             j == [Free EXCEPT !.op = "anonymize", !.user = u,
                               !.seen.same = same, !.seen.role = account[u].role]
  <2>1. same \in BOOLEAN /\ account[u].role \in {"user", "admin"}
    BY DEF TypeInv, AccountTypeOK, Account
  <2>2. j \in Job /\ GoodJob(j)
    <3>1. Stored(u)
      BY <1>3 DEF AnonymizeLoad
    <3> HIDE DEF same
    <3>2. QED
      BY <2>1, <3>1 DEF Free, Job, Ops, Unseen, Seen, GoodJob, RoleOps, StoredOps
  <2>3. SetJob(h, j)
    BY <1>3 DEF AnonymizeLoad
  <2>4. QED
    BY <1>3, <2>2, <2>3, ReadTypes DEF AnonymizeLoad
<1>4. CASE AnonymizeSessions(h)
  <2>1. [job[h] EXCEPT !.op = "unlisted", !.sessions = OpenSessions(job[h].user)] \in Job
    BY <1>0 DEF Job, Ops, OpenSessions
  <2>2. QED
    BY <1>0, <1>4, <2>1, ReadTypes
       DEF AnonymizeSessions, ListOpenSessions, OpenSessions, Job, RoleOps, StoredOps, JobOK, GoodJob
<1>5. CASE AnonymizeRoles(h)
  <2>1. [job[h] EXCEPT !.op = "stripping", !.roles = Held(job[h].user)] \in Job
    BY <1>0 DEF Job, Ops, Held
  <2>2. QED
    BY <1>0, <1>5, <2>1, ReadTypes DEF AnonymizeRoles, Job, RoleOps, StoredOps, JobOK, GoodJob
<1>6. CASE AnonymizeCommit(h)
  <2> DEFINE a == [Renewed(account[job[h].user]) EXCEPT
                       !.status = NewStatus(h), !.role = NewRole(h, "user")]
  <2>1. job[h].op # "idle" /\ job[h].user \in Users
    BY <1>0, <1>6 DEF AnonymizeCommit, JobOK, GoodJob
  <2>2. a \in Account /\ a.status = NewStatus(h)
    <3>1. NewStatus(h) \in AccountStatus /\ NewRole(h, "user") \in {"user", "admin"}
          /\ account[job[h].user] \in Account
      BY <2>1, NewFields
    <3>2. Renewed(account[job[h].user]) \in Account
      BY <3>1, AccountFields
    <3>3. QED
      BY <3>1, <3>2 DEF Account
  <2>3. account' = [account EXCEPT ![job[h].user] = a]
    BY <1>6, <2>1 DEF AnonymizeCommit, TypeInv, AccountTypeOK
  <2>4. account' \in [Users -> Account] /\ \A u \in Users : Stored(u) => Stored(u)'
    <3> HIDE DEF a
    <3>1. QED
      BY <2>1, <2>2, <2>3, AdminAccount, NewFields
  <2>5. /\ session' \in [Sessions -> SessionRow] /\ \A s \in Sessions : OwnerOK(s)'
        /\ \A s \in Sessions : session'[s].user = session[s].user
    BY <1>0, <1>6, <2>1, RevokedTypes DEF AnonymizeCommit
  <2>6. assigned' \in [Users -> [Roles -> Nat]] /\ unsynced' \subseteq Users
    BY <1>6, <2>1, StrippedTypes, ReleaseTypes DEF AnonymizeCommit
  <2>7. QED
    BY <1>6, <2>4, <2>5, <2>6, StepTypes, FreeType DEF AnonymizeCommit, TypeInv, AccountTypeOK
<1>7. ASSUME NEW u \in Users, NEW r \in Roles, AssignLoad(h, u, r) \/ UnassignLoad(h, u, r)
      PROVE  TypeInv'
  <2>1. PICK op \in {"assign", "unassign"} : RoleLoad(h, u, r, op)
    BY <1>7 DEF AssignLoad, UnassignLoad
  <2> DEFINE role == account[u].role
             j == [Free EXCEPT !.op = op, !.user = u, !.role = r, !.seen.role = role]
  <2>2. role \in {"user", "admin"}
    BY DEF TypeInv, AccountTypeOK, Account
  <2>3. j \in Job /\ GoodJob(j)
    <3>1. Stored(u)
      BY <2>1 DEF RoleLoad
    <3> HIDE DEF role
    <3>2. QED
      BY <2>2, <3>1 DEF Free, Job, Ops, Unseen, Seen, GoodJob, RoleOps, StoredOps
  <2>4. SetJob(h, j)
    BY <2>1 DEF RoleLoad
  <2>5. QED
    BY <2>1, <2>3, <2>4, ReadTypes DEF RoleLoad
<1>8. CASE LockUser(h)
  <2>1. PICK op \in {"assigning", "unassigning"} :
            SetJob(h, [job[h] EXCEPT !.op = op, !.roles = Held(job[h].user)])
    BY <1>8 DEF LockUser
  <2>2. [job[h] EXCEPT !.op = op, !.roles = Held(job[h].user)] \in Job
    BY <1>0, <2>1 DEF Job, Ops, Held
  <2>3. GoodJob([job[h] EXCEPT !.op = op, !.roles = Held(job[h].user)])
    BY <1>0, <1>8, <2>1 DEF LockUser, GoodJob, JobOK, RoleOps, StoredOps, Job
  <2>4. lock' \in [Users -> Handlers \cup {None}]
    BY <1>8 DEF LockUser, TakeLock, TypeInv, AccountTypeOK
  <2>5. QED
    BY <1>8, <2>1, <2>2, <2>3, <2>4, StepTypes DEF LockUser, TypeInv, AccountTypeOK, Stored, OwnerOK
<1>9. CASE AssignCommit(h) \/ UnassignCommit(h)
  <2>1. /\ job[h].op # "idle" /\ job[h].op \in RoleOps /\ SetJob(h, Free)
        /\ lock' = Release(h)
        /\ UNCHANGED <<roleRow, loginVars, unrevoked>>
    BY <1>9 DEF AssignCommit, UnassignCommit, EndRoleChange, RoleOps, StoredOps
  <2>2. job[h].user \in Users /\ job[h].role \in Roles /\ Stored(job[h].user)
    BY <1>0, <2>1 DEF JobOK, GoodJob, StoredOps
  <2>3. unsynced' \subseteq Users
    BY <1>9, <2>1, ReleaseTypes DEF AssignCommit, UnassignCommit, TypeInv, AccountTypeOK
  <2>4. assigned' \in [Users -> [Roles -> Nat]]
    <3>1. CASE AssignCommit(h)
      <4>1. [assigned[job[h].user] EXCEPT ![job[h].role] = @ + 1] \in [Roles -> Nat]
        BY <2>2 DEF TypeInv, AccountTypeOK
      <4>2. \/ assigned' = assigned
            \/ assigned' = [assigned EXCEPT ![job[h].user] =
                                [assigned[job[h].user] EXCEPT ![job[h].role] = @ + 1]]
        BY <3>1 DEF AssignCommit
      <4>3. QED
        BY <2>2, <4>1, <4>2 DEF TypeInv, AccountTypeOK
    <3>2. CASE UnassignCommit(h)
      BY <2>2, <3>2, StrippedTypes DEF UnassignCommit, TypeInv, AccountTypeOK
    <3>3. QED
      BY <1>9, <3>1, <3>2
  <2>5. PICK role \in {"user", "admin"} :
            account' = account \/ account' = [account EXCEPT ![job[h].user].role = role]
    BY <1>9, <2>1, NewFields DEF AssignCommit, UnassignCommit
  <2>6. [account[job[h].user] EXCEPT !.role = role] \in Account
    BY <2>1, NewFields DEF Account
  <2>7. account' = account
        \/ account' = [account EXCEPT ![job[h].user] = [account[job[h].user] EXCEPT !.role = role]]
    BY <2>2, <2>5 DEF TypeInv, AccountTypeOK
  <2>8. account' \in [Users -> Account] /\ \A u \in Users : Stored(u) => Stored(u)'
    BY <2>1, <2>2, <2>6, <2>7, AdminAccount DEF TypeInv, AccountTypeOK, Stored, Account
  <2>9. QED
    BY <2>1, <2>3, <2>4, <2>8, StepTypes, ReleaseTypes, FreeType DEF TypeInv, AccountTypeOK, OwnerOK
<1>10. QED
  BY <1>1, <1>2, <1>3, <1>4, <1>5, <1>6, <1>7, <1>8, <1>9 DEF AdminStep

LEMMA NextTypes == TypeInv /\ [Next]_vars => TypeInv'
<1> SUFFICES ASSUME TypeInv, [Next]_vars PROVE TypeInv'
  OBVIOUS
<1>1. CASE UNCHANGED vars
  BY <1>1 DEF vars, TypeInv, AccountTypeOK, JobOK, GoodJob, OwnerOK, Stored
<1>2. ASSUME NEW h \in Handlers, Abort(h) PROVE TypeInv'
  <2>1. unrevoked' \subseteq Users /\ lock' \in [Users -> Handlers \cup {None}]
    BY <1>2, ReleaseTypes, JobFields DEF Abort, JobOK, GoodJob, TypeInv, AccountTypeOK
  <2>2. QED
    BY <1>2, <2>1, StepTypes, FreeType DEF Abort, TypeInv, AccountTypeOK, Stored, OwnerOK
<1>3. ASSUME NEW h \in Handlers, SignInStep(h) \/ AdminStep(h) PROVE TypeInv'
  BY <1>3, SignInTypes, AdminTypes
<1>4. QED
  BY <1>1, <1>2, <1>3, OthersTypes DEF Next

\* Accounts, sessions, assignments, locks and requests have the fields that
\* the rows of the tables and the handlers of the services have.
THEOREM TypeCorrect == Spec => []AccountTypeOK
<1>1. TypeInv => AccountTypeOK
  BY DEF TypeInv
<1>2. QED
  BY <1>1, InitTypes, NextTypes, PTL DEF Spec
-----------------------------------------------------------------------------
(* What a request does next.  Only its own job changes.                    *)

LEMMA SetJobEffect ==
    ASSUME TypeInv, NEW h \in Handlers, NEW j, SetJob(h, j)
    PROVE  job'[h] = j /\ \A k \in Handlers \ {h} : job'[k] = job[k]
BY DEF SetJob, TypeInv, AccountTypeOK

LEMMA OwnJob ==
    ASSUME TypeInv, NEW h \in Handlers, SignInStep(h) \/ AdminStep(h) \/ Abort(h)
    PROVE  \A k \in Handlers \ {h} : job'[k] = job[k]
BY SetJobEffect DEF SignInStep, AdminStep, Abort, LoginCheck, PasswordLoad, Begin, LoginVerify,
   LoginFail, LoginIssue, RefreshLoad, RefreshCommit, PasswordCommit, RevokeList, ListOpenSessions,
   RevokeCommit, StatusLoad, StatusCommit, AnonymizeLoad, AnonymizeSessions, AnonymizeRoles,
   AnonymizeCommit, AssignLoad, UnassignLoad, RoleLoad, LockUser, AssignCommit, UnassignCommit,
   EndRoleChange

\* The step that follows each of those that go on.
LEMMA NextOps ==
    ASSUME TypeInv, NEW h \in Handlers
    PROVE  /\ \A u \in Users : LoginCheck(h, u) => job'[h].op = "checked" /\ job'[h].user = u
           /\ \A u \in Users : PasswordLoad(h, u) => job'[h].op = "password"
           /\ \A s \in Sessions : RefreshLoad(h, s) => job'[h].op = "refresh"
           /\ PasswordCommit(h) => job'[h].op = "changed" /\ job'[h].user = job[h].user
           /\ RevokeList(h) => /\ job'[h].op = "revoking" /\ job'[h].user = job[h].user
                               /\ job'[h].sessions = OpenSessions(job[h].user)
           /\ AnonymizeSessions(h) => /\ job'[h].op = "unlisted" /\ job'[h].user = job[h].user
                                      /\ job'[h].sessions = OpenSessions(job[h].user)
           /\ AnonymizeRoles(h) => /\ job'[h].op = "stripping" /\ job'[h].user = job[h].user
                                   /\ job'[h].sessions = job[h].sessions
<1>0. job[h] \in Job
  BY JobFields
<1>1. \A u \in Users : LoginCheck(h, u) => job'[h].op = "checked" /\ job'[h].user = u
  BY <1>0 DEF LoginCheck, Begin, SetJob, Free, TypeInv, AccountTypeOK
<1>2. \A u \in Users : PasswordLoad(h, u) => job'[h].op = "password"
  BY <1>0 DEF PasswordLoad, Begin, SetJob, Free, TypeInv, AccountTypeOK
<1>3. \A s \in Sessions : RefreshLoad(h, s) => job'[h].op = "refresh"
  BY <1>0 DEF RefreshLoad, SetJob, Free, TypeInv, AccountTypeOK
<1>4. PasswordCommit(h) => job'[h].op = "changed" /\ job'[h].user = job[h].user
  BY <1>0 DEF PasswordCommit, Job, SetJob, TypeInv, AccountTypeOK
<1>5. ASSUME NEW from, NEW to, ListOpenSessions(h, from, to)
      PROVE  /\ job'[h].op = to /\ job'[h].user = job[h].user
             /\ job'[h].sessions = OpenSessions(job[h].user)
  BY <1>0, <1>5 DEF ListOpenSessions, Job, SetJob, TypeInv, AccountTypeOK
<1>6. AnonymizeRoles(h) => /\ job'[h].op = "stripping" /\ job'[h].user = job[h].user
                           /\ job'[h].sessions = job[h].sessions
  BY <1>0 DEF AnonymizeRoles, Job, SetJob, TypeInv, AccountTypeOK
<1>7. QED
  BY <1>1, <1>2, <1>3, <1>4, <1>5, <1>6 DEF RevokeList, AnonymizeSessions

LEMMA VerifyOps ==
    ASSUME TypeInv, NEW h \in Handlers, NEW correct \in BOOLEAN, LoginVerify(h, correct)
    PROVE  /\ job'[h].op \in {"failing", "idle", "verified"}
           /\ job'[h].op # "idle" => job'[h].user = job[h].user
<1>0. job[h] \in Job
  BY JobFields
<1>1. CASE SetJob(h, [job[h] EXCEPT !.op = "failing"])
  BY <1>0, <1>1, SetJobEffect DEF Job
<1>2. CASE SetJob(h, Free)
  BY <1>2, SetJobEffect, FreeType
<1>3. CASE SetJob(h, [job[h] EXCEPT !.op = "verified",
                                    !.seen.changes = account[job[h].user].changes])
  <2> DEFINE c == account[job[h].user].changes
             j == [job[h] EXCEPT !.op = "verified", !.seen.changes = c]
  <2>1. j.op = "verified" /\ j.user = job[h].user
    <3> HIDE DEF c
    <3>1. QED
      BY <1>0 DEF Job
  <2>2. job'[h] = j
    BY <1>3, SetJobEffect
  <2>3. QED
    BY <2>1, <2>2
<1>4. QED
  BY <1>1, <1>2, <1>3 DEF LoginVerify

\* A change of roles writes only the role of the account.
LEMMA CommitAccount ==
    ASSUME TypeInv, NEW h \in Handlers, AssignCommit(h) \/ UnassignCommit(h)
    PROVE  \A u \in Users : /\ account'[u].status = account[u].status
                            /\ account'[u].closing = account[u].closing
<1>1. PICK role : \/ account' = account
                  \/ account' = [account EXCEPT ![job[h].user].role = role]
  <2>1. CASE AssignCommit(h)
    BY <2>1 DEF AssignCommit
  <2>2. CASE UnassignCommit(h)
    BY <2>2 DEF UnassignCommit
  <2>3. QED
    BY <2>1, <2>2
<1>2. CASE account' = [account EXCEPT ![job[h].user].role = role]
  BY <1>2 DEF TypeInv, AccountTypeOK, Account
<1>3. QED
  BY <1>1, <1>2

\* Where the steps that load a user lead to.
LEMMA LoadOps ==
    ASSUME TypeInv, NEW h \in Handlers, NEW u \in Users
    PROVE  /\ \A op \in {"suspend", "activate"} : StatusLoad(h, u, op) => job'[h].op = op
           /\ AnonymizeLoad(h, u) => job'[h].op = "anonymize"
           /\ \A r \in Roles : AssignLoad(h, u, r) => job'[h].op = "assign"
           /\ \A r \in Roles : UnassignLoad(h, u, r) => job'[h].op = "unassign"
<1>1. ASSUME NEW op, NEW same
      PROVE  [Free EXCEPT !.op = op, !.user = u, !.seen.same = same].op = op
  BY DEF Free
<1>2. ASSUME NEW same, NEW role
      PROVE  [Free EXCEPT !.op = "anonymize", !.user = u,
                          !.seen.same = same, !.seen.role = role].op = "anonymize"
  BY DEF Free
<1>3. ASSUME NEW op, NEW role, NEW r
      PROVE  [Free EXCEPT !.op = op, !.user = u, !.role = r, !.seen.role = role].op = op
  BY DEF Free
<1>4. ASSUME NEW op \in {"suspend", "activate"}, StatusLoad(h, u, op) PROVE job'[h].op = op
  <2> DEFINE same == account[u].status = Status(op)
  <2>1. job'[h] = [Free EXCEPT !.op = op, !.user = u, !.seen.same = same]
    BY <1>4, SetJobEffect DEF StatusLoad
  <2> HIDE DEF same
  <2>2. QED
    BY <1>1, <2>1
<1>5. ASSUME AnonymizeLoad(h, u) PROVE job'[h].op = "anonymize"
  <2> DEFINE same == account[u].status = "deleted"
             role == account[u].role
  <2>1. job'[h] = [Free EXCEPT !.op = "anonymize", !.user = u,
                               !.seen.same = same, !.seen.role = role]
    BY <1>5, SetJobEffect DEF AnonymizeLoad
  <2> HIDE DEF same, role
  <2>2. QED
    BY <1>2, <2>1
<1>6. ASSUME NEW op, NEW r \in Roles, RoleLoad(h, u, r, op) PROVE job'[h].op = op
  <2> DEFINE role == account[u].role
  <2>1. job'[h] = [Free EXCEPT !.op = op, !.user = u, !.role = r, !.seen.role = role]
    BY <1>6, SetJobEffect DEF RoleLoad
  <2> HIDE DEF role
  <2>2. QED
    BY <1>3, <2>1
<1>7. QED
  BY <1>4, <1>5, <1>6 DEF AssignLoad, UnassignLoad

-----------------------------------------------------------------------------
(* Roles.  A request that changes them holds the lock of its user and      *)
(* knows every assignment there is.                                        *)

Locking(h) == job[h].op \in {"assigning", "unassigning"}

LockHeld(h) == lock[job[h].user] = h /\ Held(job[h].user) \subseteq job[h].roles

Unassigned(u) == \A r \in Roles : assigned[u][r] = 0

RoleInv ==
    /\ \A h \in Handlers : Locking(h) => LockHeld(h)
    /\ \A u \in Users : ~Stored(u) => Unassigned(u)
    /\ OneAssignment
    /\ AdminIffAdminRole

LEMMA InitRoles == Init => RoleInv
BY DEF Init, RoleInv, Locking, LockHeld, Free, Stored, Unassigned, OneAssignment, AdminIffAdminRole,
       InSync, Held, AdminIff, NoAccount

\* Steps that change no role, and take no lock.
LEMMA RoleFrame ==
    ASSUME TypeInv, RoleInv,
           assigned' = assigned, lock' = lock, unsynced' = unsynced,
           \A u \in Users : account'[u].role = account[u].role,
           \A u \in Users : Stored(u) => Stored(u)',
           \A h \in Handlers : job'[h] = job[h] \/ ~Locking(h)'
    PROVE  RoleInv'
<1>1. \A h \in Handlers : Locking(h)' => LockHeld(h)'
  BY DEF RoleInv, Locking, LockHeld, Held
<1>2. \A u \in Users : ~Stored(u)' => Unassigned(u)'
  BY DEF RoleInv, Unassigned
<1>3. OneAssignment' /\ AdminIffAdminRole'
  BY DEF RoleInv, OneAssignment, AdminIffAdminRole, InSync, Held
<1>4. QED
  BY <1>1, <1>2, <1>3 DEF RoleInv

\* A step of a request that is not a change of roles.
LEMMA RoleReads ==
    ASSUME TypeInv, RoleInv, NEW h \in Handlers,
           \A k \in Handlers \ {h} : job'[k] = job[k], ~Locking(h)',
           assigned' = assigned, lock' = lock, unsynced' = unsynced,
           \A u \in Users : account'[u].role = account[u].role,
           \A u \in Users : Stored(u) => Stored(u)'
    PROVE  RoleInv'
BY RoleFrame

LEMMA OthersRoles ==
    ASSUME TypeInv, RoleInv,
           \/ \E u \in Users : AccountStep(u)
           \/ \E s \in Sessions : RevokeSession(s)
           \/ \E r \in Roles : CreateRole(r) \/ DeleteRole(r)
    PROVE  RoleInv'
<1>1. ASSUME NEW u \in Users, Register(u) \/ Invite(u) PROVE RoleInv'
  <2>1. PICK a : /\ a.status # "absent" /\ a.role = "user"
                 /\ Create(u, a) /\ UNCHANGED <<assigned, lock, unsynced>>
    BY <1>1 DEF Register, Invite, Invited, NoAccount, Create
  <2>2. /\ account' = [account EXCEPT ![u] = a] /\ job' = job /\ ~Stored(u)
    BY <2>1 DEF Create, Stored
  <2>3. \A h \in Handlers : Locking(h)' => LockHeld(h)'
    BY <2>1, <2>2 DEF RoleInv, Locking, LockHeld, Held
  <2>4. \A v \in Users : ~Stored(v)' => Unassigned(v)'
    BY <2>1, <2>2 DEF RoleInv, Unassigned, Stored, TypeInv, AccountTypeOK
  <2>5. OneAssignment'
    BY <2>1 DEF RoleInv, OneAssignment
  <2>6. AdminIffAdminRole'
    BY <2>1, <2>2 DEF RoleInv, AdminIffAdminRole, InSync, Held, AdminRoles, AdminIff, Unassigned,
                      TypeInv, AccountTypeOK
  <2>7. QED
    BY <2>3, <2>4, <2>5, <2>6 DEF RoleInv
<1>2. ASSUME NEW u \in Users, NEW r \in Roles, InviteAdmin(u, r) PROVE RoleInv'
  <2>1. PICK a : /\ a.status # "absent" /\ a.role = AdminIff(r # PlainRole)
                 /\ Create(u, a) /\ UNCHANGED <<lock, unsynced>>
                 /\ assigned' = [assigned EXCEPT ![u][r] = 1]
    <3> DEFINE role == AdminIff(r # PlainRole)
               b == [Invited EXCEPT !.role = role]
    <3>1. /\ Create(u, b) /\ UNCHANGED <<lock, unsynced>>
          /\ assigned' = [assigned EXCEPT ![u][r] = 1]
      BY <1>2 DEF InviteAdmin, Create
    <3>2. b.status = "active" /\ b.role = role
      <4> HIDE DEF role
      <4>1. QED
        BY DEF Invited, NoAccount
    <3>3. QED
      BY <3>1, <3>2
  <2>2. /\ account' = [account EXCEPT ![u] = a] /\ job' = job /\ ~Stored(u)
    BY <2>1 DEF Create, Stored
  <2>3. /\ \A v \in Users \ {u} : assigned'[v] = assigned[v] /\ account'[v] = account[v]
        /\ account'[u] = a
        /\ \A q \in Roles : assigned'[u][q] = IF q = r THEN 1 ELSE 0
    BY <2>1, <2>2 DEF RoleInv, Unassigned, TypeInv, AccountTypeOK
  <2>4. \A h \in Handlers : Locking(h)' => LockHeld(h)'
    BY <2>1, <2>2, <2>3 DEF RoleInv, Locking, LockHeld, Held, TypeInv, JobOK, GoodJob, StoredOps, RoleOps
  <2>5. \A v \in Users : ~Stored(v)' => Unassigned(v)'
    BY <2>1, <2>3 DEF RoleInv, Unassigned, Stored
  <2>6. OneAssignment'
    BY <2>3 DEF RoleInv, OneAssignment
  <2>7. InSync(u)'
    BY <2>1, <2>3 DEF InSync, Held, AdminRoles, AdminIff
  <2>8. AdminIffAdminRole'
    BY <2>1, <2>3, <2>7 DEF RoleInv, AdminIffAdminRole, InSync, Held
  <2>9. QED
    BY <2>4, <2>5, <2>6, <2>8 DEF RoleInv
<1>3. ASSUME NEW u \in Users, VerifyEmail(u) \/ ConfirmInvite(u) PROVE RoleInv'
  <2>1. PICK a \in Account : /\ a.status = account[u].status /\ a.role = account[u].role
                              /\ UpdateAccount(u, a)
    BY <1>3, LinkUpdate
  <2>11. account' = [account EXCEPT ![u] = a] /\ UNCHANGED <<assigned, lock, unsynced, job>>
    BY <2>1 DEF UpdateAccount
  <2>2. \A v \in Users : account'[v].role = account[v].role /\ account'[v].status = account[v].status
    BY <2>1, <2>11 DEF TypeInv, AccountTypeOK, Account
  <2>3. QED
    BY <2>11, <2>2, RoleFrame DEF Stored
<1>4. ASSUME NEW u \in Users, FailureExpires(u) PROVE RoleInv'
  BY <1>4, RoleFrame DEF FailureExpires, Stored
<1>5. ASSUME NEW s \in Sessions, RevokeSession(s) PROVE RoleInv'
  BY <1>5, RoleFrame DEF RevokeSession, Stored
<1>6. ASSUME NEW r \in Roles, CreateRole(r) PROVE RoleInv'
  BY <1>6, RoleFrame DEF CreateRole, Stored
<1>7. ASSUME NEW r \in Roles, DeleteRole(r) PROVE RoleInv'
  <2>1. \A u \in Users, q \in Roles : assigned'[u][q] = IF q = r THEN 0 ELSE assigned[u][q]
    BY <1>7 DEF DeleteRole, TypeInv, AccountTypeOK
  <2>2. /\ UNCHANGED <<account, lock, job>>
        /\ unsynced' = unsynced \cup {u \in Users : r \in Held(u)}
    BY <1>7 DEF DeleteRole
  <2>3. \A u \in Users \ unsynced' : Held(u)' = Held(u)
    BY <2>1, <2>2 DEF Held
  <2>4. AdminIffAdminRole'
    BY <2>2, <2>3 DEF RoleInv, AdminIffAdminRole, InSync
  <2>5. \A h \in Handlers : Locking(h)' => LockHeld(h)'
    <3>1. \A u \in Users : Held(u)' \subseteq Held(u)
      BY <2>1 DEF Held, TypeInv, AccountTypeOK
    <3>2. QED
      BY <2>2, <3>1 DEF RoleInv, Locking, LockHeld, TypeInv, JobOK, GoodJob
  <2>6. OneAssignment' /\ \A u \in Users : ~Stored(u)' => Unassigned(u)'
    BY <2>1, <2>2 DEF RoleInv, OneAssignment, Unassigned, Stored
  <2>7. QED
    BY <2>4, <2>5, <2>6 DEF RoleInv
<1>8. QED
  BY <1>1, <1>2, <1>3, <1>4, <1>5, <1>6, <1>7 DEF AccountStep
\* A change of roles, or an anonymisation: what is deleted is listed, what is
\* known is so unless the user is marked.
LEMMA OutdatedRoles ==
    ASSUME TypeInv, NEW h \in Handlers, MarkUnsynced(h), job[h].user \notin unsynced'
    PROVE  /\ job[h].seen.role = account[job[h].user].role
           /\ job[h].roles = Held(job[h].user)
           /\ unsynced' = unsynced
BY DEF MarkUnsynced, Outdated

\* The invariant after a change of one user's roles.
LEMMA RoleChange ==
    ASSUME TypeInv, RoleInv, NEW h \in Handlers, NEW u \in Users, NEW j,
           SetJob(h, j), j.op \notin {"assigning", "unassigning"},
           Stored(u), Stored(u)',
           unsynced \subseteq unsynced',
           \A v \in Users \ {u} : account'[v] = account[v] /\ assigned'[v] = assigned[v],
           \A r \in Roles : assigned'[u][r] <= 1,
           \A k \in Handlers \ {h} :
               Locking(k) => /\ lock'[job[k].user] = lock[job[k].user]
                             /\ job[k].user = u => Held(u)' \subseteq Held(u),
           u \notin unsynced' => InSync(u)'
    PROVE  RoleInv'
<1>1. \A k \in Handlers : Locking(k)' => LockHeld(k)'
  <2>1. ASSUME NEW k \in Handlers, Locking(k)' PROVE LockHeld(k)'
    <3>1. k # h /\ job'[k] = job[k]
      BY <2>1, SetJobEffect DEF Locking
    <3>2. Locking(k) /\ LockHeld(k) /\ job[k].user \in Users
      BY <2>1, <3>1 DEF RoleInv, Locking, TypeInv, JobOK, GoodJob
    <3>3. Held(job[k].user)' \subseteq Held(job[k].user)
      BY <3>1, <3>2 DEF Held
    <3>4. QED
      BY <3>1, <3>2, <3>3 DEF LockHeld
  <2>2. QED
    BY <2>1
<1>2. \A v \in Users : ~Stored(v)' => Unassigned(v)'
  BY DEF RoleInv, Unassigned, Stored
<1>3. OneAssignment'
  BY DEF RoleInv, OneAssignment
<1>4. AdminIffAdminRole'
  BY DEF RoleInv, AdminIffAdminRole, InSync, Held
<1>5. QED
  BY <1>1, <1>2, <1>3, <1>4 DEF RoleInv

\* The anonymisation of an account.
LEMMA AnonymizeRoleInv ==
    ASSUME TypeInv, TypeInv', RoleInv, NEW h \in Handlers, AnonymizeCommit(h)
    PROVE  RoleInv'
<1>0. PICK u \in Users : u = job[h].user
  BY DEF AnonymizeCommit, TypeInv, JobOK, GoodJob
<1>1. u \in Users /\ Stored(u) /\ Stored(u)'
  <2>1. u \in Users /\ Stored(u)
    BY <1>0 DEF AnonymizeCommit, TypeInv, JobOK, GoodJob, StoredOps
  <2>2. account'[u].status = NewStatus(h) /\ NewStatus(h) # "absent"
    BY <1>0, <2>1 DEF AnonymizeCommit, NewStatus, Status, Stored, TypeInv, AccountTypeOK
  <2>3. QED
    BY <1>0, <2>1, <2>2 DEF Stored
<1>2. /\ \A v \in Users \ {u} : account'[v] = account[v] /\ assigned'[v] = assigned[v]
      /\ account'[u].role = NewRole(h, "user")
      /\ \A r \in Roles : assigned'[u][r] = IF r \in job[h].roles THEN 0 ELSE assigned[u][r]
      /\ SetJob(h, Free) /\ lock' = lock /\ MarkUnsynced(h)
  BY <1>0, <1>1 DEF AnonymizeCommit, Stripped, TypeInv, AccountTypeOK
<1>3. u \notin unsynced' => account'[u].role = "user" /\ Unassigned(u)'
  BY <1>0, <1>1, <1>2, OutdatedRoles DEF NewRole, Unassigned, Held, TypeInv, AccountTypeOK
<1>4. u \notin unsynced' => InSync(u)'
  BY <1>0, <1>3 DEF InSync, Held, Unassigned, AdminRoles, AdminIff
<1>5. unsynced \subseteq unsynced' /\ Held(u)' \subseteq Held(u)
  <2>1. unsynced \subseteq unsynced'
    BY <1>2 DEF MarkUnsynced
  <2>2. \A r \in Roles : assigned'[u][r] = assigned[u][r] \/ assigned'[u][r] = 0
    BY <1>2
  <2>3. QED
    BY <2>1, <2>2 DEF Held
<1>6. \A r \in Roles : assigned'[u][r] <= 1
  BY <1>0, <1>1, <1>2 DEF RoleInv, OneAssignment
<1>7. QED
  BY <1>0, <1>1, <1>2, <1>4, <1>5, <1>6, RoleChange, FreeType

\* The end of a change of roles frees only its own lock.
LEMMA ReleasedLocks ==
    ASSUME TypeInv, RoleInv, NEW h \in Handlers
    PROVE  \A k \in Handlers \ {h} :
               Locking(k) => Release(h)[job[k].user] = lock[job[k].user]
BY DEF RoleInv, LockHeld, Release, TypeInv, Locking, JobOK, GoodJob

\* A request that changes roles holds the lock alone.
LEMMA LockAlone ==
    ASSUME RoleInv, NEW h \in Handlers, Locking(h), NEW k \in Handlers, k # h, Locking(k)
    PROVE  job[k].user # job[h].user
BY DEF RoleInv, LockHeld

LEMMA AssignRoleInv ==
    ASSUME TypeInv, TypeInv', RoleInv, NEW h \in Handlers, AssignCommit(h)
    PROVE  RoleInv'
<1>0. /\ job[h].user \in Users /\ job[h].role \in Roles
      /\ Stored(job[h].user) /\ Locking(h)
  BY DEF AssignCommit, TypeInv, JobOK, GoodJob, StoredOps, RoleOps, Locking
<1>01. PICK u \in Users, r \in Roles : u = job[h].user /\ r = job[h].role
  BY <1>0
<1>1. u \in Users /\ r \in Roles /\ Stored(u) /\ Locking(h) /\ Held(u) \subseteq job[h].roles
  BY <1>0, <1>01 DEF RoleInv, LockHeld
<1>2. SetJob(h, Free) /\ lock' = Release(h)
  BY <1>0, <1>01 DEF AssignCommit, EndRoleChange
<1>3. CASE UNCHANGED <<account, assigned, unsynced>>
  <2>1. u \notin unsynced' => InSync(u)'
    BY <1>0, <1>01, <1>1, <1>3 DEF RoleInv, AdminIffAdminRole, InSync, Held
  <2>2. QED
    BY <1>0, <1>01, <1>1, <1>2, <1>3, <2>1, RoleChange, ReleasedLocks, FreeType
       DEF Stored, Held, RoleInv, OneAssignment
<1>4. CASE /\ r \notin job[h].roles
           /\ assigned' = [assigned EXCEPT ![u][r] = @ + 1]
           /\ account' = IF r = PlainRole THEN account
                         ELSE [account EXCEPT ![u].role = NewRole(h, "admin")]
           /\ MarkUnsynced(h)
  <2>1. /\ \A v \in Users \ {u} : account'[v] = account[v] /\ assigned'[v] = assigned[v]
        /\ \A q \in Roles : assigned'[u][q] = IF q = r THEN 1 ELSE assigned[u][q]
    <3>1. assigned[u][r] = 0
      BY <1>0, <1>01, <1>1, <1>4 DEF Held, TypeInv, AccountTypeOK
    <3>2. QED
      BY <1>0, <1>01, <1>1, <1>4, <3>1 DEF TypeInv, AccountTypeOK
  <2>2. Stored(u)'
    BY <1>0, <1>01, <1>1, <1>4 DEF Stored, TypeInv, AccountTypeOK, Account
  <2>3. account'[u].role = IF r = PlainRole THEN account[u].role ELSE NewRole(h, "admin")
    BY <1>0, <1>01, <1>1, <1>4 DEF TypeInv, AccountTypeOK, Account
  <2>4. Held(u)' = Held(u) \cup {r}
    BY <1>0, <1>01, <1>1, <2>1 DEF Held
  <2>5. ASSUME u \notin unsynced' PROVE InSync(u)'
    <3>1. job[h].seen.role = account[u].role /\ unsynced' = unsynced
      BY <1>0, <1>01, <1>1, <1>4, <2>5, OutdatedRoles
    <3>2. InSync(u)
      BY <1>0, <1>01, <1>1, <2>5, <3>1 DEF RoleInv, AdminIffAdminRole
    <3>3. CASE r = PlainRole
      BY <1>0, <1>01, <2>3, <2>4, <3>2, <3>3 DEF InSync, AdminRoles
    <3>4. CASE r # PlainRole
      BY <1>0, <1>01, <1>1, <2>3, <2>4, <3>1, <3>4 DEF InSync, AdminRoles, NewRole, AdminIff
    <3>5. QED
      BY <1>0, <1>01, <3>3, <3>4
  <2>6. unsynced \subseteq unsynced' /\ \A q \in Roles : assigned'[u][q] <= 1
    <3>1. unsynced \subseteq unsynced'
      BY <1>4 DEF MarkUnsynced
    <3>2. \A q \in Roles : assigned[u][q] <= 1
      BY <1>1 DEF RoleInv, OneAssignment
    <3>3. QED
      BY <2>1, <3>1, <3>2
  <2>7. QED
    BY <1>0, <1>01, <1>1, <1>2, <2>1, <2>2, <2>5, <2>6, RoleChange, ReleasedLocks, LockAlone, FreeType
<1>5. QED
  BY <1>0, <1>01, <1>3, <1>4 DEF AssignCommit

LEMMA UnassignRoleInv ==
    ASSUME TypeInv, TypeInv', RoleInv, NEW h \in Handlers, UnassignCommit(h)
    PROVE  RoleInv'
<1>0. /\ job[h].user \in Users /\ job[h].role \in Roles
      /\ Stored(job[h].user) /\ Locking(h)
  BY DEF UnassignCommit, TypeInv, JobOK, GoodJob, StoredOps, RoleOps, Locking
<1>01. PICK u \in Users, r \in Roles : u = job[h].user /\ r = job[h].role
  BY <1>0
<1>1. u \in Users /\ r \in Roles /\ Stored(u) /\ Locking(h)
  BY <1>0, <1>01
<1>2. SetJob(h, Free) /\ lock' = Release(h)
  BY <1>0, <1>01 DEF UnassignCommit, EndRoleChange
<1>3. CASE UNCHANGED <<account, assigned, unsynced>>
  <2>1. u \notin unsynced' => InSync(u)'
    BY <1>0, <1>01, <1>1, <1>3 DEF RoleInv, AdminIffAdminRole, InSync, Held
  <2>2. QED
    BY <1>0, <1>01, <1>1, <1>2, <1>3, <2>1, RoleChange, ReleasedLocks, FreeType
       DEF Stored, Held, RoleInv, OneAssignment
<1>4. CASE /\ assigned' = Stripped(u, {r})
           /\ account' = IF r = PlainRole \/ Remaining(h) # {} THEN account
                         ELSE [account EXCEPT ![u].role = NewRole(h, "user")]
           /\ MarkUnsynced(h)
  <2>1. /\ \A v \in Users \ {u} : account'[v] = account[v] /\ assigned'[v] = assigned[v]
        /\ \A q \in Roles : assigned'[u][q] = IF q = r THEN 0 ELSE assigned[u][q]
    BY <1>0, <1>01, <1>1, <1>4 DEF Stripped, TypeInv, AccountTypeOK
  <2>2. Stored(u)'
    BY <1>0, <1>01, <1>1, <1>4 DEF Stored, TypeInv, AccountTypeOK, Account
  <2>3. account'[u].role = IF r = PlainRole \/ Remaining(h) # {} THEN account[u].role
                          ELSE NewRole(h, "user")
    BY <1>0, <1>01, <1>1, <1>4 DEF TypeInv, AccountTypeOK, Account
  <2>4. Held(u)' = Held(u) \ {r}
    BY <1>0, <1>01, <1>1, <2>1 DEF Held
  <2>5. ASSUME u \notin unsynced' PROVE InSync(u)'
    <3>1. /\ job[h].seen.role = account[u].role /\ unsynced' = unsynced
          /\ Remaining(h) = (Held(u) \ {r}) \ {PlainRole}
      BY <1>0, <1>01, <1>1, <1>4, <2>5, OutdatedRoles DEF Remaining
    <3>2. InSync(u)
      BY <1>0, <1>01, <1>1, <2>5, <3>1 DEF RoleInv, AdminIffAdminRole
    <3>3. CASE r = PlainRole
      BY <1>0, <1>01, <2>3, <2>4, <3>2, <3>3 DEF InSync, AdminRoles
    <3>4. CASE r # PlainRole /\ Remaining(h) # {}
      <4>1. Held(u) \cap AdminRoles # {} /\ Held(u)' \cap AdminRoles # {}
        BY <1>0, <1>01, <2>4, <3>1, <3>4 DEF AdminRoles, Held
      <4>2. QED
        BY <1>0, <1>01, <2>3, <3>2, <3>4, <4>1 DEF InSync, AdminRoles
    <3>5. CASE r # PlainRole /\ Remaining(h) = {}
      <4>1. Held(u)' \cap AdminRoles = {}
        BY <1>0, <1>01, <2>4, <3>1, <3>5 DEF AdminRoles
      <4>2. account'[u].role = "user"
        BY <1>0, <1>01, <2>3, <3>1, <3>5 DEF NewRole
      <4>3. QED
        BY <1>0, <1>01, <4>1, <4>2 DEF InSync, AdminRoles, AdminIff
    <3>6. QED
      BY <1>0, <1>01, <3>3, <3>4, <3>5
  <2>6. unsynced \subseteq unsynced' /\ \A q \in Roles : assigned'[u][q] <= 1
    <3>1. unsynced \subseteq unsynced'
      BY <1>4 DEF MarkUnsynced
    <3>2. \A q \in Roles : assigned[u][q] <= 1
      BY <1>1 DEF RoleInv, OneAssignment
    <3>3. QED
      BY <2>1, <3>1, <3>2
  <2>7. QED
    BY <1>0, <1>01, <1>1, <1>2, <2>1, <2>2, <2>5, <2>6, RoleChange, ReleasedLocks, LockAlone, FreeType
<1>5. QED
  BY <1>0, <1>01, <1>3, <1>4 DEF UnassignCommit
LEMMA NextRoles ==
    ASSUME TypeInv, TypeInv', RoleInv, [Next]_vars
    PROVE  RoleInv'
<1>1. CASE UNCHANGED vars
  BY <1>1, RoleFrame DEF vars, Stored
<1>2. ASSUME NEW h \in Handlers, Abort(h) PROVE RoleInv'
  <2>1. /\ SetJob(h, Free) /\ lock' = Release(h)
        /\ UNCHANGED <<account, assigned, unsynced>>
    BY <1>2 DEF Abort
  <2>2. \A k \in Handlers : Locking(k)' => k # h /\ job'[k] = job[k] /\ Locking(k)
    BY <2>1, FreeType DEF SetJob, Locking, TypeInv, AccountTypeOK
  <2>3. \A k \in Handlers : Locking(k)' => LockHeld(k)'
    BY <2>1, <2>2, ReleasedLocks DEF RoleInv, LockHeld, Held
  <2>4. QED
    BY <2>1, <2>3 DEF RoleInv, Stored, Unassigned, OneAssignment, AdminIffAdminRole, InSync, Held
<1>3. ASSUME NEW h \in Handlers, SignInStep(h) PROVE RoleInv'
  <2>1. /\ UNCHANGED <<assigned, lock, unsynced>>
        /\ \A u \in Users : account'[u].role = account[u].role /\ (Stored(u) => Stored(u)')
    <3>1. CASE PasswordCommit(h)
      BY <3>1 DEF PasswordCommit, Renewed, TypeInv, AccountTypeOK, Account, Stored
    <3>2. CASE UNCHANGED account
      BY <1>3, <3>2 DEF SignInStep, LoginCheck, PasswordLoad, LoginVerify, LoginFail, LoginIssue,
         RefreshLoad, RefreshCommit, PasswordCommit, RevokeList, ListOpenSessions, RevokeCommit, Stored
    <3>3. QED
      BY <1>3, <3>1, <3>2 DEF SignInStep, LoginCheck, PasswordLoad, LoginVerify, LoginFail,
         LoginIssue, RefreshLoad, RefreshCommit, RevokeList, ListOpenSessions, RevokeCommit
  <2>2. ~Locking(h)'
    BY <1>3, NextOps, VerifyOps, SetJobEffect, FreeType
       DEF SignInStep, LoginFail, LoginIssue, RefreshCommit, RevokeCommit, Locking
  <2>3. QED
    BY <1>3, <2>1, <2>2, RoleReads, OwnJob
<1>4. ASSUME NEW h \in Handlers, AdminStep(h) PROVE RoleInv'
  <2>0. job[h] \in Job
    BY JobFields
  <2>1. ASSUME NEW u \in Users,
               \/ \E op \in {"suspend", "activate"} : StatusLoad(h, u, op)
               \/ AnonymizeLoad(h, u)
               \/ \E r \in Roles : AssignLoad(h, u, r) \/ UnassignLoad(h, u, r)
        PROVE  RoleInv'
    <3>1. ~Locking(h)'
      BY <2>1, LoadOps DEF Locking
    <3>2. UNCHANGED <<account, assigned, lock, unsynced>>
      BY <2>1 DEF StatusLoad, AnonymizeLoad, AssignLoad, UnassignLoad, RoleLoad
    <3>3. QED
      BY <1>4, <3>1, <3>2, RoleReads, OwnJob DEF Stored
  <2>2. CASE StatusCommit(h)
    <3>1. SetJob(h, Free) /\ UNCHANGED <<assigned, lock, unsynced>>
      BY <2>2 DEF StatusCommit
    <3>2. \A u \in Users : account'[u].role = account[u].role /\ (Stored(u) => Stored(u)')
      BY <2>2 DEF StatusCommit, NewStatus, Status, Stored, TypeInv, AccountTypeOK, Account
    <3>3. QED
      BY <1>4, <3>1, <3>2, RoleReads, OwnJob, SetJobEffect, FreeType DEF Locking
  <2>3. CASE AnonymizeSessions(h) \/ AnonymizeRoles(h)
    <3>1. ~Locking(h)'
      BY <2>3, NextOps DEF Locking
    <3>2. UNCHANGED <<account, assigned, lock, unsynced>>
      BY <2>3 DEF AnonymizeSessions, AnonymizeRoles, ListOpenSessions
    <3>3. QED
      BY <1>4, <3>1, <3>2, RoleReads, OwnJob DEF Stored
  <2>4. CASE LockUser(h)
    <3>0. PICK u \in Users : u = job[h].user
      BY <2>4 DEF LockUser, TypeInv, JobOK, GoodJob
    <3>1. /\ UNCHANGED <<account, assigned, unsynced>>
          /\ lock[u] = None /\ lock' = [lock EXCEPT ![u] = h]
      BY <2>4, <3>0 DEF LockUser, TakeLock, Unlocked
    <3>2. job'[h].user = u /\ job'[h].roles = Held(u)
      BY <2>0, <2>4, <3>0 DEF LockUser, SetJob, Job, TypeInv, AccountTypeOK
    <3>3. ASSUME NEW k \in Handlers \ {h}, Locking(k)' PROVE LockHeld(k)'
      <4>1. job'[k] = job[k]
        BY <2>4 DEF LockUser, SetJob, TypeInv, AccountTypeOK
      <4>2. lock[job[k].user] = k /\ Held(job[k].user) \subseteq job[k].roles /\ job[k].user \in Users
        BY <3>3, <4>1 DEF RoleInv, Locking, LockHeld, TypeInv, JobOK, GoodJob
      <4>3. job[k].user # u
        BY <3>1, <4>2, AccountsAssumption
      <4>4. QED
        BY <3>1, <4>1, <4>2, <4>3 DEF LockHeld, Held, TypeInv, AccountTypeOK
    <3>4. LockHeld(h)'
      BY <3>0, <3>1, <3>2 DEF LockHeld, Held, TypeInv, AccountTypeOK
    <3>5. QED
      BY <3>1, <3>3, <3>4 DEF RoleInv, Stored, Unassigned, OneAssignment, AdminIffAdminRole, InSync, Held
  <2>5. QED
    BY <1>4, <2>1, <2>2, <2>3, <2>4, AnonymizeRoleInv, AssignRoleInv, UnassignRoleInv DEF AdminStep
<1>5. QED
  BY <1>1, <1>2, <1>3, <1>4, OthersRoles DEF Next

LEMMA RoleInvariant == Spec => [](TypeInv /\ RoleInv)
BY InitTypes, InitRoles, NextTypes, NextRoles, PTL DEF Spec

\* The lock of the users row keeps two requests from assigning a role twice,
\* however many requests overlap and whichever of them are lost.
THEOREM AssignedOnce == Spec => []OneAssignment
<1>1. RoleInv => OneAssignment
  BY DEF RoleInv
<1>2. QED
  BY <1>1, RoleInvariant, PTL

\* users.role follows the assignments as long as no change of roles was made
\* from an outdated copy.
THEOREM RoleFollowsAssignments == Spec => []AdminIffAdminRole
<1>1. RoleInv => AdminIffAdminRole
  BY DEF RoleInv
<1>2. QED
  BY <1>1, RoleInvariant, PTL
-----------------------------------------------------------------------------
(* Sessions.  An open session with an older password is one that overlapped *)
(* the change, or one that a revocation under way has listed or will list.  *)

Outlived(s) ==
    /\ Active(s)
    /\ ~session[s].late
    /\ ~(session[s].changes >= account[session[s].user].closing)
    /\ session[s].user \notin unrevoked

\* h is going to revoke s.
Revoking(h, s) ==
    /\ job[h].user = session[s].user
    /\ \/ job[h].op = "changed"
       \/ job[h].op = "revoking" /\ s \in job[h].sessions

\* An anonymisation under way has listed every session but the late ones.
Listed(h) ==
    job[h].op \in {"unlisted", "stripping"} =>
        \A s \in Sessions :
            Active(s) /\ session[s].user = job[h].user /\ ~session[s].late => s \in job[h].sessions

SessionInv ==
    /\ \A s \in Sessions : Outlived(s) => \E h \in Handlers : Revoking(h, s)
    /\ \A h \in Handlers : Listed(h)
    /\ \A u \in Users : ~Stored(u) => account[u].closing = 0

LEMMA InitSessions == Init => SessionInv
BY DEF Init, SessionInv, Outlived, Active, NoSession, Listed, Free, NoAccount, Stored

\* Steps that close sessions, or forget a lost revocation, and change neither
\* a password nor a request that revokes.
LEMMA SessionFrame ==
    ASSUME TypeInv, SessionInv,
           \A s \in Sessions : Active(s)' => session'[s] = session[s],
           \A u \in Users : account'[u].closing = account[u].closing,
           \A u \in Users : Stored(u) => Stored(u)',
           unrevoked \subseteq unrevoked',
           \A h \in Handlers : \/ job'[h] = job[h]
                               \/ /\ job'[h].op \notin {"unlisted", "stripping"}
                                  /\ job[h].op \notin {"changed", "revoking"}
    PROVE  SessionInv'
<1>1. ASSUME NEW s \in Sessions, Outlived(s)' PROVE \E h \in Handlers : Revoking(h, s)'
  <2>1. session'[s] = session[s] /\ Active(s) /\ session[s].user \in Users
    BY <1>1 DEF Outlived, Active, TypeInv, OwnerOK
  <2>2. Outlived(s)
    BY <1>1, <2>1 DEF Outlived
  <2>3. PICK h \in Handlers : Revoking(h, s)
    BY <2>2 DEF SessionInv
  <2>4. job'[h] = job[h]
    BY <2>3 DEF Revoking
  <2>5. QED
    BY <2>1, <2>3, <2>4 DEF Revoking
<1>2. ASSUME NEW h \in Handlers PROVE Listed(h)'
  <2>1. CASE job'[h] = job[h]
    BY <2>1 DEF SessionInv, Listed, Active
  <2>2. CASE job'[h].op \notin {"unlisted", "stripping"}
    BY <2>2 DEF Listed
  <2>3. QED
    BY <2>1, <2>2
<1>3. QED
  BY <1>1, <1>2 DEF SessionInv

LEMMA OthersSessions ==
    ASSUME TypeInv, SessionInv,
           \/ \E u \in Users : AccountStep(u)
           \/ \E s \in Sessions : RevokeSession(s)
           \/ \E r \in Roles : CreateRole(r) \/ DeleteRole(r)
    PROVE  SessionInv'
<1>1. ASSUME NEW u \in Users, NEW a, a.closing = 0, a.status # "absent", Create(u, a)
      PROVE  SessionInv'
  <2>1. /\ account' = [account EXCEPT ![u] = a] /\ ~Stored(u)
        /\ UNCHANGED <<session, job, unrevoked>>
    BY <1>1 DEF Create, Stored
  <2>2. \A v \in Users : account'[v].closing = account[v].closing /\ (Stored(v) => Stored(v)')
    BY <1>1, <2>1 DEF SessionInv, Stored, TypeInv, AccountTypeOK
  <2>3. QED
    BY <2>1, <2>2, SessionFrame
<1>2. ASSUME NEW u \in Users, Register(u) \/ Invite(u) \/ \E r \in Roles : InviteAdmin(u, r)
      PROVE  SessionInv'
  <2>1. ASSUME NEW role PROVE [Invited EXCEPT !.role = role].closing = 0
                              /\ [Invited EXCEPT !.role = role].status # "absent"
    BY DEF Invited, NoAccount
  <2>2. CASE Register(u) \/ Invite(u)
    BY <1>1, <2>2 DEF Register, Invite, Invited, NoAccount
  <2>3. ASSUME NEW r \in Roles, InviteAdmin(u, r) PROVE SessionInv'
    <3> DEFINE role == AdminIff(r # PlainRole)
               a == [Invited EXCEPT !.role = role]
    <3>1. Create(u, a)
      BY <2>3 DEF InviteAdmin
    <3>2. a.closing = 0 /\ a.status # "absent"
      <4> HIDE DEF role
      <4>1. QED
        BY <2>1
    <3> HIDE DEF a
    <3>3. QED
      BY <1>1, <3>1, <3>2
  <2>4. QED
    BY <1>2, <2>2, <2>3
<1>3. ASSUME NEW u \in Users, VerifyEmail(u) \/ ConfirmInvite(u) PROVE SessionInv'
  <2>0. PICK a \in Account : /\ a.status = account[u].status /\ a.closing = account[u].closing
                              /\ UpdateAccount(u, a)
    BY <1>3, LinkUpdate
  <2>1. account' = [account EXCEPT ![u] = a] /\ UNCHANGED <<session, job, unrevoked>>
    BY <2>0 DEF UpdateAccount
  <2>2. \A v \in Users : /\ account'[v].closing = account[v].closing
                         /\ account'[v].status = account[v].status
    BY <2>0, <2>1 DEF TypeInv, AccountTypeOK, Account
  <2>3. QED
    BY <2>1, <2>2, SessionFrame DEF Stored
<1>4. ASSUME NEW u \in Users, FailureExpires(u) PROVE SessionInv'
  BY <1>4, SessionFrame DEF FailureExpires, Stored
<1>5. ASSUME NEW s \in Sessions, RevokeSession(s) PROVE SessionInv'
  <2>1. \A t \in Sessions : Active(t)' => session'[t] = session[t]
    BY <1>5 DEF RevokeSession, Revoked, NoSession, Active, TypeInv, AccountTypeOK, SessionRow
  <2>2. QED
    BY <1>5, <2>1, SessionFrame DEF RevokeSession, Stored
<1>6. ASSUME NEW r \in Roles, CreateRole(r) \/ DeleteRole(r) PROVE SessionInv'
  BY <1>6, SessionFrame DEF CreateRole, DeleteRole, Stored
<1>7. QED
  BY <1>2, <1>3, <1>4, <1>5, <1>6 DEF AccountStep

\* The invariant after a step of h that revokes what it has listed.
LEMMA RevokedSessions ==
    ASSUME TypeInv, NEW S, session' = Revoked(S)
    PROVE  \A s \in Sessions : Active(s)' => session'[s] = session[s] /\ s \notin S
BY DEF Revoked, NoSession, Active, TypeInv, AccountTypeOK, SessionRow

LEMMA PasswordSessions ==
    ASSUME TypeInv, SessionInv, NEW h \in Handlers, PasswordCommit(h)
    PROVE  SessionInv'
<1>0. PICK u \in Users : u = job[h].user
  BY DEF PasswordCommit, TypeInv, JobOK, GoodJob
<1>1. /\ \A v \in Users : account'[v].status = account[v].status
      /\ \A v \in Users \ {u} : account'[v] = account[v]
  BY <1>0 DEF PasswordCommit, Renewed, TypeInv, AccountTypeOK, Account
<1>2. /\ job'[h].op = "changed" /\ job'[h].user = u
      /\ \A k \in Handlers \ {h} : job'[k] = job[k]
      /\ UNCHANGED <<session, unrevoked>> /\ job[h].op = "password" /\ Stored(u)
  BY <1>0, NextOps, SetJobEffect
     DEF PasswordCommit, TypeInv, JobOK, GoodJob, StoredOps
<1>3. ASSUME NEW s \in Sessions, Outlived(s)' PROVE \E k \in Handlers : Revoking(k, s)'
  <2>1. CASE session[s].user = u
    <3>1. Revoking(h, s)'
      BY <1>2, <2>1 DEF Revoking
    <3>2. QED
      BY <3>1
  <2>2. CASE session[s].user # u
    <3>1. session[s].user \in Users
      BY <1>2, <1>3 DEF Outlived, Active, TypeInv, OwnerOK
    <3>2. Outlived(s)
      BY <1>1, <1>2, <1>3, <2>2, <3>1 DEF Outlived, Active
    <3>3. PICK k \in Handlers : Revoking(k, s)
      BY <3>2 DEF SessionInv
    <3>4. k # h
      BY <1>2, <3>3 DEF Revoking
    <3>5. QED
      BY <1>2, <3>3, <3>4 DEF Revoking
  <2>3. QED
    BY <2>1, <2>2
<1>4. \A k \in Handlers : Listed(k)'
  BY <1>2 DEF SessionInv, Listed, Active
<1>5. \A v \in Users : ~Stored(v)' => account'[v].closing = 0
  BY <1>1, <1>2 DEF SessionInv, Stored
<1>6. QED
  BY <1>3, <1>4, <1>5 DEF SessionInv

LEMMA IssueSessions ==
    ASSUME TypeInv, SessionInv, NEW h \in Handlers, NEW s \in Sessions, LoginIssue(h, s)
    PROVE  SessionInv'
<1>0. PICK u \in Users : u = job[h].user
  BY DEF LoginIssue, TypeInv, JobOK, GoodJob
<1>1. /\ \A t \in Sessions \ {s} : session'[t] = session[t]
      /\ session'[s].user = u
      /\ session'[s].late <=> session'[s].changes < account[u].closing \/ BeingAnonymized(u)
      /\ UNCHANGED <<account, unrevoked>>
  BY <1>0 DEF LoginIssue, TypeInv, AccountTypeOK
<1>2. /\ \A k \in Handlers \ {h} : job'[k] = job[k]
      /\ job'[h].op = "idle" /\ job[h].op = "verified"
  BY SetJobEffect, FreeType DEF LoginIssue
<1>3. ASSUME NEW t \in Sessions, Outlived(t)' PROVE \E k \in Handlers : Revoking(k, t)'
  <2>1. t # s
    <3>1. session'[s].changes \in Nat /\ account[u].closing \in Nat
      BY <1>0, JobFields DEF LoginIssue, Job, Seen, TypeInv, AccountTypeOK, Account
    <3>2. QED
      BY <1>1, <1>3, <3>1 DEF Outlived
  <2>2. Outlived(t)
    BY <1>1, <1>3, <2>1 DEF Outlived, Active
  <2>3. PICK k \in Handlers : Revoking(k, t)
    BY <2>2 DEF SessionInv
  <2>4. QED
    BY <1>1, <1>2, <2>1, <2>3 DEF Revoking
<1>4. ASSUME NEW k \in Handlers PROVE Listed(k)'
  <2>1. CASE k = h
    BY <1>2, <2>1 DEF Listed
  <2>2. ASSUME k # h, job[k].op \in {"unlisted", "stripping"}, NEW t \in Sessions,
               Active(t)', session'[t].user = job[k].user, ~session'[t].late
        PROVE  t \in job[k].sessions
    <3>1. t # s
      BY <1>1, <2>2 DEF BeingAnonymized
    <3>2. QED
      BY <1>1, <2>2, <3>1 DEF SessionInv, Listed, Active
  <2>3. QED
    BY <1>2, <2>1, <2>2 DEF Listed
<1>5. QED
  BY <1>1, <1>3, <1>4 DEF SessionInv, Stored
\* Listing the open sessions of a user, for a revocation or an anonymisation.
LEMMA ListSessions ==
    ASSUME TypeInv, SessionInv, NEW h \in Handlers, RevokeList(h) \/ AnonymizeSessions(h)
    PROVE  SessionInv'
<1>0. PICK u \in Users : u = job[h].user
  BY DEF RevokeList, AnonymizeSessions, ListOpenSessions, TypeInv, JobOK, GoodJob
<1>1. /\ \A k \in Handlers \ {h} : job'[k] = job[k]
      /\ job'[h].user = u /\ job'[h].sessions = OpenSessions(u)
      /\ job[h].op = "changed" => job'[h].op = "revoking"
      /\ UNCHANGED <<account, session, unrevoked>> /\ job[h].op # "revoking"
  BY <1>0, NextOps, SetJobEffect DEF RevokeList, AnonymizeSessions, ListOpenSessions
<1>2. ASSUME NEW s \in Sessions, Outlived(s)' PROVE \E k \in Handlers : Revoking(k, s)'
  <2>1. Outlived(s) /\ Active(s)
    BY <1>1, <1>2 DEF Outlived, Active
  <2>2. PICK k \in Handlers : Revoking(k, s)
    BY <2>1 DEF SessionInv
  <2>3. Revoking(k, s)'
    BY <1>0, <1>1, <2>1, <2>2 DEF Revoking, OpenSessions
  <2>4. QED
    BY <2>3
<1>3. \A k \in Handlers : Listed(k)'
  BY <1>1 DEF SessionInv, Listed, OpenSessions, Active
<1>4. QED
  BY <1>1, <1>2, <1>3 DEF SessionInv, Stored

LEMMA RevokeSessions ==
    ASSUME TypeInv, SessionInv, NEW h \in Handlers, RevokeCommit(h)
    PROVE  SessionInv'
<1>1. /\ \A k \in Handlers \ {h} : job'[k] = job[k]
      /\ job'[h].op = "idle" /\ job[h].op = "revoking"
      /\ UNCHANGED <<account, unrevoked>>
  BY SetJobEffect, FreeType DEF RevokeCommit
<1>2. \A s \in Sessions : Active(s)' => session'[s] = session[s] /\ s \notin job[h].sessions
  BY RevokedSessions DEF RevokeCommit
<1>3. ASSUME NEW s \in Sessions, Outlived(s)' PROVE \E k \in Handlers : Revoking(k, s)'
  <2>1. Outlived(s) /\ session'[s] = session[s] /\ s \notin job[h].sessions
    BY <1>1, <1>2, <1>3 DEF Outlived, Active
  <2>2. PICK k \in Handlers : Revoking(k, s)
    BY <2>1 DEF SessionInv
  <2>3. Revoking(k, s)'
    BY <1>1, <2>1, <2>2 DEF Revoking
  <2>4. QED
    BY <2>3
<1>4. \A k \in Handlers : Listed(k)'
  BY <1>1, <1>2 DEF SessionInv, Listed, Active
<1>5. QED
  BY <1>1, <1>3, <1>4 DEF SessionInv, Stored

LEMMA AnonymizeRolesSessions ==
    ASSUME TypeInv, SessionInv, NEW h \in Handlers, AnonymizeRoles(h)
    PROVE  SessionInv'
<1>1. /\ \A k \in Handlers \ {h} : job'[k] = job[k]
      /\ job'[h].op = "stripping" /\ job[h].op = "unlisted"
      /\ job'[h].user = job[h].user /\ job'[h].sessions = job[h].sessions
      /\ UNCHANGED <<account, session, unrevoked>>
  BY NextOps, SetJobEffect DEF AnonymizeRoles
<1>2. ASSUME NEW s \in Sessions, Outlived(s)' PROVE \E k \in Handlers : Revoking(k, s)'
  <2>1. Outlived(s)
    BY <1>1, <1>2 DEF Outlived, Active
  <2>2. PICK k \in Handlers : Revoking(k, s)
    BY <2>1 DEF SessionInv
  <2>3. Revoking(k, s)'
    BY <1>1, <2>2 DEF Revoking
  <2>4. QED
    BY <2>3
<1>3. \A k \in Handlers : Listed(k)'
  BY <1>1 DEF SessionInv, Listed, Active
<1>4. QED
  BY <1>1, <1>2, <1>3 DEF SessionInv, Stored

LEMMA AnonymizeSessionInv ==
    ASSUME TypeInv, SessionInv, NEW h \in Handlers, AnonymizeCommit(h)
    PROVE  SessionInv'
<1>0. PICK u \in Users : u = job[h].user
  BY DEF AnonymizeCommit, TypeInv, JobOK, GoodJob
<1>1. /\ \A k \in Handlers \ {h} : job'[k] = job[k]
      /\ job'[h].op = "idle" /\ job[h].op = "stripping"
      /\ \A v \in Users \ {u} : account'[v] = account[v]
      /\ unrevoked' = unrevoked /\ Stored(u)
  BY <1>0, SetJobEffect, FreeType
     DEF AnonymizeCommit, TypeInv, AccountTypeOK, JobOK, GoodJob, StoredOps
<1>2. \A s \in Sessions : Active(s)' => session'[s] = session[s] /\ s \notin job[h].sessions
  BY RevokedSessions DEF AnonymizeCommit
<1>3. ASSUME NEW s \in Sessions, Outlived(s)' PROVE \E k \in Handlers : Revoking(k, s)'
  <2>1. Active(s) /\ session'[s] = session[s] /\ s \notin job[h].sessions /\ ~session[s].late
    BY <1>2, <1>3 DEF Outlived, Active
  <2>2. session[s].user # u
    BY <1>0, <1>1, <2>1 DEF SessionInv, Listed
  <2>3. session[s].user \in Users
    BY <2>1 DEF Active, TypeInv, OwnerOK
  <2>4. Outlived(s)
    BY <1>1, <1>3, <2>1, <2>2, <2>3 DEF Outlived
  <2>5. PICK k \in Handlers : Revoking(k, s)
    BY <2>4 DEF SessionInv
  <2>6. Revoking(k, s)'
    BY <1>1, <2>1, <2>5 DEF Revoking
  <2>7. QED
    BY <2>6
<1>4. \A k \in Handlers : Listed(k)'
  BY <1>1, <1>2 DEF SessionInv, Listed, Active
<1>5. Stored(u)'
  BY <1>0, <1>1 DEF AnonymizeCommit, NewStatus, Status, Stored, TypeInv, AccountTypeOK
<1>6. \A v \in Users : ~Stored(v)' => account'[v].closing = 0
  BY <1>1, <1>5 DEF SessionInv, Stored
<1>7. QED
  BY <1>3, <1>4, <1>6 DEF SessionInv

LEMMA AbortSessions ==
    ASSUME TypeInv, SessionInv, NEW h \in Handlers, Abort(h)
    PROVE  SessionInv'
<1>1. /\ \A k \in Handlers \ {h} : job'[k] = job[k]
      /\ job'[h].op = "idle"
      /\ UNCHANGED <<account, session>>
      /\ unrevoked \subseteq unrevoked'
      /\ job[h].op \in {"changed", "revoking"} => job[h].user \in unrevoked'
  BY SetJobEffect, FreeType DEF Abort
<1>2. ASSUME NEW s \in Sessions, Outlived(s)' PROVE \E k \in Handlers : Revoking(k, s)'
  <2>1. Outlived(s) /\ session[s].user \notin unrevoked'
    BY <1>1, <1>2 DEF Outlived, Active
  <2>2. PICK k \in Handlers : Revoking(k, s)
    BY <2>1 DEF SessionInv
  <2>3. Revoking(k, s)'
    BY <1>1, <2>1, <2>2 DEF Revoking
  <2>4. QED
    BY <2>3
<1>3. \A k \in Handlers : Listed(k)'
  BY <1>1 DEF SessionInv, Listed, Active
<1>4. QED
  BY <1>1, <1>2, <1>3 DEF SessionInv, Stored

\* Steps of a request that neither write nor revoke.
LEMMA SessionReads ==
    ASSUME TypeInv, SessionInv, NEW h \in Handlers,
           \A k \in Handlers \ {h} : job'[k] = job[k],
           job'[h].op \notin {"unlisted", "stripping"}, job[h].op \notin {"changed", "revoking"},
           session' = session, unrevoked' = unrevoked,
           \A u \in Users : /\ account'[u].closing = account[u].closing
                            /\ Stored(u) => Stored(u)'
    PROVE  SessionInv'
BY SessionFrame

LEMMA NextSessions ==
    ASSUME TypeInv, SessionInv, [Next]_vars
    PROVE  SessionInv'
<1>1. CASE UNCHANGED vars
  BY <1>1, SessionFrame DEF vars, Stored
<1>2. ASSUME NEW h \in Handlers, SignInStep(h) PROVE SessionInv'
  <2>1. ASSUME NEW u \in Users, LoginCheck(h, u) \/ PasswordLoad(h, u) PROVE SessionInv'
    <3>1. job[h].op = "idle" /\ UNCHANGED <<account, session, unrevoked>>
      BY <2>1, FreeType DEF LoginCheck, PasswordLoad, Begin
    <3>2. job'[h].op \in {"checked", "password"}
      BY <2>1, NextOps
    <3>3. QED
      BY <1>2, <3>1, <3>2, SessionReads, OwnJob DEF Stored
  <2>2. ASSUME NEW correct \in BOOLEAN, LoginVerify(h, correct) PROVE SessionInv'
    <3>1. job[h].op = "checked" /\ UNCHANGED <<account, session, unrevoked>>
      BY <2>2 DEF LoginVerify
    <3>2. QED
      BY <1>2, <2>2, <3>1, SessionReads, OwnJob, VerifyOps DEF Stored
  <2>3. CASE LoginFail(h)
    BY <1>2, <2>3, SessionReads, OwnJob, SetJobEffect, FreeType DEF LoginFail, Stored
  <2>4. ASSUME NEW s \in Sessions, RefreshLoad(h, s) PROVE SessionInv'
    <3>1. job[h].op = "idle" /\ UNCHANGED <<account, session, unrevoked>>
      BY <2>4, FreeType DEF RefreshLoad
    <3>2. job'[h].op = "refresh"
      BY <2>4, NextOps
    <3>3. QED
      BY <1>2, <3>1, <3>2, SessionReads, OwnJob DEF Stored
  <2>5. CASE RefreshCommit(h)
    BY <1>2, <2>5, SessionReads, OwnJob, SetJobEffect, FreeType DEF RefreshCommit, Touch, Stored
  <2>6. QED
    BY <1>2, <2>1, <2>2, <2>3, <2>4, <2>5, IssueSessions, PasswordSessions, ListSessions,
       RevokeSessions DEF SignInStep
<1>3. ASSUME NEW h \in Handlers, AdminStep(h) PROVE SessionInv'
  <2>1. ASSUME NEW u \in Users,
               \/ \E op \in {"suspend", "activate"} : StatusLoad(h, u, op)
               \/ AnonymizeLoad(h, u)
               \/ \E r \in Roles : AssignLoad(h, u, r) \/ UnassignLoad(h, u, r)
        PROVE  SessionInv'
    <3>1. UNCHANGED <<account, session, unrevoked>> /\ job[h].op = "idle"
      BY <2>1, FreeType DEF StatusLoad, AnonymizeLoad, AssignLoad, UnassignLoad, RoleLoad
    <3>2. job'[h].op \notin {"unlisted", "stripping"}
      BY <2>1, LoadOps
    <3>3. QED
      BY <1>3, <3>1, <3>2, SessionReads, OwnJob DEF Stored
  <2>2. CASE StatusCommit(h)
    <3>1. job[h].op \notin {"changed", "revoking"} /\ SetJob(h, Free)
          /\ UNCHANGED <<session, unrevoked>>
      BY <2>2 DEF StatusCommit
    <3>2. \A u \in Users : account'[u].closing = account[u].closing /\ (Stored(u) => Stored(u)')
      BY <2>2 DEF StatusCommit, NewStatus, Status, Stored, TypeInv, AccountTypeOK, Account
    <3>3. QED
      BY <1>3, <3>1, <3>2, SessionReads, OwnJob, SetJobEffect, FreeType
  <2>3. CASE LockUser(h)
    <3>1. UNCHANGED <<account, session, unrevoked>> /\ job[h].op \in {"assign", "unassign"}
      BY <2>3 DEF LockUser
    <3>2. job'[h].op \in {"assigning", "unassigning"}
      <4>1. job[h] \in Job
        BY JobFields
      <4>2. QED
        BY <2>3, <4>1 DEF LockUser, SetJob, Job, TypeInv, AccountTypeOK
    <3>3. QED
      BY <1>3, <3>1, <3>2, SessionReads, OwnJob DEF Stored
  <2>4. CASE AssignCommit(h) \/ UnassignCommit(h)
    <3>1. job[h].op \notin {"changed", "revoking"} /\ SetJob(h, Free)
          /\ UNCHANGED <<session, unrevoked>>
      BY <2>4 DEF AssignCommit, UnassignCommit, EndRoleChange
    <3>2. \A u \in Users : account'[u].closing = account[u].closing /\ (Stored(u) => Stored(u)')
      BY <2>4, CommitAccount DEF Stored
    <3>3. QED
      BY <1>3, <3>1, <3>2, SessionReads, OwnJob, SetJobEffect, FreeType
  <2>5. QED
    BY <1>3, <2>1, <2>2, <2>3, <2>4, ListSessions, AnonymizeRolesSessions, AnonymizeSessionInv
       DEF AdminStep
<1>4. QED
  BY <1>1, <1>2, <1>3, AbortSessions, OthersSessions DEF Next

LEMMA SessionInvariant == Spec => [](TypeInv /\ SessionInv)
BY InitTypes, InitSessions, NextTypes, NextSessions, PTL DEF Spec

\* A password reset or change leaves no older session open but those that
\* overlapped it, unless its revocation is under way or was lost.
THEOREM OldSessionsClosed == Spec => []SessionsFollowPassword
<1>1. SessionInv => SessionsFollowPassword
  BY DEF SessionInv, SessionsFollowPassword, Outlived, Revoking
<1>2. QED
  BY <1>1, SessionInvariant, PTL

LEMMA BareStep ==
    ASSUME TypeInv, RoleInv, SessionInv, Next, NEW u \in Users,
           account[u].status # "deleted", account'[u].status = "deleted"
    PROVE  /\ \/ u \in unsynced'
              \/ account'[u].role = "user" /\ \A r \in Roles : assigned'[u][r] = 0
           /\ \A s \in Sessions :
                 session'[s].user = u /\ session'[s].status = "active" => session'[s].late
<1>1. PICK h \in Handlers : AnonymizeCommit(h) /\ job[h].user = u
  <2>1. ASSUME NEW v \in Users, AccountStep(v) PROVE FALSE
    <3>1. ASSUME NEW r PROVE [Invited EXCEPT !.role = r].status = "active"
      BY DEF Invited, NoAccount
    <3>2. ASSUME NEW r \in Roles, InviteAdmin(v, r) PROVE FALSE
      <4> DEFINE role == AdminIff(r # PlainRole)
      <4>1. account' = [account EXCEPT ![v] = [Invited EXCEPT !.role = role]]
        BY <3>2 DEF InviteAdmin, Create
      <4> HIDE DEF role
      <4>2. QED
        BY <3>1, <4>1 DEF TypeInv, AccountTypeOK
    <3>3. QED
      <4>1. CASE VerifyEmail(v) \/ ConfirmInvite(v)
        <5>0. PICK a \in Account : a.status = account[v].status /\ UpdateAccount(v, a)
          BY <4>1, LinkUpdate
        <5>1. account' = [account EXCEPT ![v] = a]
          BY <5>0 DEF UpdateAccount
        <5>2. account'[u].status = account[u].status
          BY <5>0, <5>1 DEF TypeInv, AccountTypeOK, Account
        <5>3. QED
          BY <5>2
      <4>2. CASE Register(v) \/ Invite(v)
        <5> DEFINE a == [NoAccount EXCEPT !.status = "active"]
        <5>0. Create(v, a) \/ Create(v, Invited)
          BY <4>2 DEF Register, Invite
        <5>1. account' = [account EXCEPT ![v] = a] \/ account' = [account EXCEPT ![v] = Invited]
          BY <5>0 DEF Create
        <5>2. a.status = "active" /\ Invited.status = "active"
          BY DEF Invited, NoAccount
        <5> HIDE DEF a
        <5>3. account'[u] = account[u] \/ account'[u] = a \/ account'[u] = Invited
          BY <5>1 DEF TypeInv, AccountTypeOK
        <5>4. QED
          BY <5>2, <5>3
      <4>3. CASE FailureExpires(v)
        BY <4>3 DEF FailureExpires
      <4>4. QED
        BY <2>1, <3>2, <4>1, <4>2, <4>3 DEF AccountStep
  <2>2. ASSUME NEW h \in Handlers, SignInStep(h) PROVE FALSE
    <3>1. account' = account \/ PasswordCommit(h)
      BY <2>2 DEF SignInStep, LoginCheck, PasswordLoad, LoginVerify, LoginFail, LoginIssue,
         RefreshLoad, RefreshCommit, RevokeList, ListOpenSessions, RevokeCommit
    <3>2. CASE PasswordCommit(h)
      <4>1. \A v \in Users : account'[v].status = account[v].status
        BY <3>2 DEF PasswordCommit, Renewed, TypeInv, AccountTypeOK, Account
      <4>2. QED
        BY <4>1
    <3>3. QED
      BY <3>1, <3>2
  <2>3. ASSUME NEW h \in Handlers, AdminStep(h), ~AnonymizeCommit(h) PROVE FALSE
    <3>1. CASE StatusCommit(h)
      BY <3>1 DEF StatusCommit, NewStatus, Status, TypeInv, AccountTypeOK, Account
    <3>2. CASE AssignCommit(h) \/ UnassignCommit(h)
      BY <3>2, CommitAccount
    <3>3. QED
      BY <2>3, <3>1, <3>2 DEF AdminStep, StatusLoad, AnonymizeLoad, AnonymizeSessions,
         AnonymizeRoles, ListOpenSessions, AssignLoad, UnassignLoad, RoleLoad, LockUser
  <2>4. PICK h \in Handlers : AnonymizeCommit(h)
    BY <2>1, <2>2, <2>3 DEF Next, Abort, RevokeSession, CreateRole, DeleteRole
  <2>5. job[h].user = u
    BY <2>4 DEF AnonymizeCommit, TypeInv, AccountTypeOK
  <2>6. QED
    BY <2>4, <2>5
<1>2. /\ account'[u].role = NewRole(h, "user") /\ MarkUnsynced(h)
      /\ \A r \in Roles : assigned'[u][r] = IF r \in job[h].roles THEN 0 ELSE assigned[u][r]
  BY <1>1 DEF AnonymizeCommit, Stripped, TypeInv, AccountTypeOK
<1>3. u \notin unsynced' => account'[u].role = "user" /\ \A r \in Roles : assigned'[u][r] = 0
  BY <1>1, <1>2, OutdatedRoles DEF NewRole, Held, TypeInv, AccountTypeOK
<1>4. ASSUME NEW s \in Sessions, session'[s].user = u, session'[s].status = "active"
      PROVE  session'[s].late
  <2>1. session'[s] = session[s] /\ s \notin job[h].sessions
    BY <1>1, <1>4, RevokedSessions DEF AnonymizeCommit, Active
  <2>2. QED
    BY <1>1, <1>4, <2>1 DEF AnonymizeCommit, SessionInv, Listed, Active
<1>5. QED
  BY <1>3, <1>4

\* Anonymising an account takes its roles and closes its sessions, whatever
\* logins, resets and role changes overlap with it, except for what the
\* property lists.
THEOREM AnonymizeStrips == Spec => AnonymizedIsBare
<1>1. TypeInv /\ RoleInv /\ SessionInv /\ [Next]_vars =>
        [\A u \in Users :
          account[u].status # "deleted" /\ account'[u].status = "deleted" =>
             /\ \/ u \in unsynced'
                \/ account'[u].role = "user" /\ \A r \in Roles : assigned'[u][r] = 0
             /\ \A s \in Sessions :
                   session'[s].user = u /\ session'[s].status = "active"
                      => session'[s].late]_vars
  BY BareStep
<1>2. QED
  BY <1>1, RoleInvariant, SessionInvariant, PTL DEF Spec, AnonymizedIsBare
-----------------------------------------------------------------------------
(* The lockout.  Every failure that may still be written began below the   *)
(* threshold, and each of the other requests can add one to it.            *)

Attempts(u) == {h \in Handlers : job[h].user = u /\ job[h].op \in {"checked", "failing"}}

Within(n) == n > 0 => n < Threshold + Cardinality(Handlers)

LockoutInv == \A u \in Users : Within(failures[u] + Cardinality(Attempts(u)))

LEMMA AttemptsFinite ==
    ASSUME NEW u
    PROVE  /\ IsFiniteSet(Attempts(u)) /\ Cardinality(Attempts(u)) \in Nat
           /\ Cardinality(Handlers) \in Nat
           /\ Cardinality(Attempts(u)) <= Cardinality(Handlers)
<1>1. Attempts(u) \subseteq Handlers
  BY DEF Attempts
<1>2. QED
  BY <1>1, FS_Subset, FS_CardinalityType, AccountsAssumption

LEMMA InitLockout == Init => LockoutInv
<1> SUFFICES ASSUME Init, NEW u \in Users
             PROVE  Within(failures[u] + Cardinality(Attempts(u)))
  BY DEF LockoutInv
<1>1. failures[u] = 0 /\ Attempts(u) = {}
  BY DEF Init, Attempts, Free
<1>2. QED
  BY <1>1, FS_EmptySet DEF Within

\* Steps that add neither a failure nor an attempt.
LEMMA LockoutFrame ==
    ASSUME TypeInv, LockoutInv,
           \A u \in Users : failures'[u] \in Nat /\ failures'[u] <= failures[u],
           \A h \in Handlers :
               job'[h].op \in {"checked", "failing"} =>
                   job[h].op \in {"checked", "failing"} /\ job'[h].user = job[h].user
    PROVE  LockoutInv'
<1> SUFFICES ASSUME NEW u \in Users
             PROVE  Within(failures[u] + Cardinality(Attempts(u)))'
  BY DEF LockoutInv
<1>1. Attempts(u)' \subseteq Attempts(u)
  BY DEF Attempts
<1>2. /\ Cardinality(Attempts(u)') \in Nat
      /\ Cardinality(Attempts(u)') <= Cardinality(Attempts(u))
  BY <1>1, FS_Subset, FS_CardinalityType, AttemptsFinite
<1>3. Within(failures[u] + Cardinality(Attempts(u))) /\ failures[u] \in Nat
  BY DEF LockoutInv, TypeInv, AccountTypeOK
<1>4. QED
  BY <1>2, <1>3, AttemptsFinite, AccountsAssumption DEF Within

LEMMA CheckLockout ==
    ASSUME TypeInv, LockoutInv, NEW h \in Handlers, NEW u \in Users, LoginCheck(h, u)
    PROVE  LockoutInv'
<1>1. /\ failures' = failures /\ failures[u] < Threshold
      /\ failures \in [Users -> Nat]
  BY AccountsAssumption DEF LoginCheck, LockedOut, TypeInv, AccountTypeOK
<1>2. /\ job'[h].op = "checked" /\ job'[h].user = u
      /\ \A k \in Handlers \ {h} : job'[k] = job[k]
  BY NextOps, SetJobEffect DEF LoginCheck, Begin
<1>3. ASSUME NEW v \in Users PROVE Within(failures[v] + Cardinality(Attempts(v)))'
  <2>1. CASE v = u
    <3>1. Attempts(u)' \subseteq Handlers
      BY DEF Attempts
    <3>2. /\ Cardinality(Attempts(u)') \in Nat
          /\ Cardinality(Attempts(u)') <= Cardinality(Handlers)
      BY <3>1, FS_Subset, FS_CardinalityType, AccountsAssumption
    <3>3. QED
      BY <1>1, <2>1, <3>2, AttemptsFinite, AccountsAssumption DEF Within
  <2>2. CASE v # u
    <3>1. Attempts(v)' \subseteq Attempts(v)
      BY <1>2, <2>2 DEF Attempts
    <3>2. /\ Cardinality(Attempts(v)') \in Nat
          /\ Cardinality(Attempts(v)') <= Cardinality(Attempts(v))
      BY <3>1, FS_Subset, FS_CardinalityType, AttemptsFinite
    <3>3. Within(failures[v] + Cardinality(Attempts(v)))
      BY DEF LockoutInv
    <3>4. QED
      BY <1>1, <3>2, <3>3, AttemptsFinite, AccountsAssumption DEF Within
  <2>3. QED
    BY <2>1, <2>2
<1>4. QED
  BY <1>3 DEF LockoutInv

LEMMA FailLockout ==
    ASSUME TypeInv, LockoutInv, NEW h \in Handlers, LoginFail(h)
    PROVE  LockoutInv'
<1>0. PICK u \in Users : u = job[h].user
  BY DEF LoginFail, TypeInv, JobOK, GoodJob
<1>1. /\ failures'[u] = failures[u] + 1 /\ \A v \in Users \ {u} : failures'[v] = failures[v]
      /\ failures \in [Users -> Nat]
  BY <1>0 DEF LoginFail, TypeInv, AccountTypeOK
<1>2. /\ job[h].op = "failing" /\ job'[h].op = "idle"
      /\ \A k \in Handlers \ {h} : job'[k] = job[k]
  BY SetJobEffect, FreeType DEF LoginFail
<1>3. ASSUME NEW v \in Users PROVE Within(failures[v] + Cardinality(Attempts(v)))'
  <2>0. Within(failures[v] + Cardinality(Attempts(v)))
    BY DEF LockoutInv
  <2>1. CASE v = u
    <3>1. Attempts(u)' = Attempts(u) \ {h} /\ h \in Attempts(u)
      BY <1>0, <1>2 DEF Attempts
    <3>2. Cardinality(Attempts(u)') = Cardinality(Attempts(u)) - 1
      BY <3>1, FS_RemoveElement, AttemptsFinite
    <3>3. QED
      BY <1>1, <2>0, <2>1, <3>2, AttemptsFinite, AccountsAssumption DEF Within
  <2>2. CASE v # u
    <3>1. Attempts(v)' = Attempts(v)
      BY <1>0, <1>2, <2>2 DEF Attempts
    <3>2. QED
      BY <1>1, <2>0, <2>2, <3>1 DEF Within
  <2>3. QED
    BY <2>1, <2>2
<1>4. QED
  BY <1>3 DEF LockoutInv

LEMMA NextLockout ==
    ASSUME TypeInv, TypeInv', LockoutInv, [Next]_vars
    PROVE  LockoutInv'
<1>0. failures \in [Users -> Nat] /\ failures' \in [Users -> Nat]
  BY DEF TypeInv, AccountTypeOK
<1>1. CASE UNCHANGED <<failures, job>>
  BY <1>0, <1>1, LockoutFrame
<1>2. ASSUME NEW h \in Handlers, SignInStep(h) PROVE LockoutInv'
  <2>1. ASSUME NEW correct \in BOOLEAN, LoginVerify(h, correct) PROVE LockoutInv'
    <3>1. failures' = failures /\ job[h].op = "checked"
      BY <2>1 DEF LoginVerify
    <3>2. QED
      BY <1>0, <1>2, <2>1, <3>1, LockoutFrame, OwnJob, VerifyOps
  <2>2. ASSUME failures' = failures, job'[h].op \notin {"checked", "failing"} PROVE LockoutInv'
    BY <1>0, <1>2, <2>2, LockoutFrame, OwnJob
  <2>3. ASSUME NEW s \in Sessions, LoginIssue(h, s) \/ RefreshLoad(h, s) PROVE LockoutInv'
    BY <2>2, <2>3, NextOps, SetJobEffect, FreeType DEF LoginIssue, RefreshLoad
  <2>4. ASSUME NEW u \in Users, PasswordLoad(h, u) PROVE LockoutInv'
    BY <2>2, <2>4, NextOps DEF PasswordLoad
  <2>5. CASE PasswordCommit(h) \/ RevokeList(h)
    BY <2>2, <2>5, NextOps DEF PasswordCommit, RevokeList, ListOpenSessions
  <2>6. CASE RefreshCommit(h) \/ RevokeCommit(h)
    BY <2>2, <2>6, SetJobEffect, FreeType DEF RefreshCommit, RevokeCommit
  <2>7. QED
    BY <1>2, <2>1, <2>3, <2>4, <2>5, <2>6, CheckLockout, FailLockout DEF SignInStep
<1>3. ASSUME NEW h \in Handlers, AdminStep(h) \/ Abort(h) PROVE LockoutInv'
  <2>1. failures' = failures
    BY <1>3 DEF AdminStep, Abort, StatusLoad, StatusCommit, AnonymizeLoad, AnonymizeSessions,
       AnonymizeRoles, ListOpenSessions, AnonymizeCommit, AssignLoad, UnassignLoad, RoleLoad,
       LockUser, AssignCommit, UnassignCommit, EndRoleChange
  <2>2. job'[h].op \notin {"checked", "failing"}
    <3>1. CASE LockUser(h)
      <4>1. job[h] \in Job
        BY JobFields
      <4>2. job'[h].op \in {"assigning", "unassigning"}
        BY <3>1, <4>1 DEF LockUser, SetJob, Job, TypeInv, AccountTypeOK
      <4>3. QED
        BY <4>2
    <3>2. QED
      BY <1>3, <3>1, NextOps, LoadOps, SetJobEffect, FreeType
         DEF AdminStep, Abort, StatusCommit, AnonymizeCommit, AssignCommit, UnassignCommit,
             EndRoleChange
  <2>3. QED
    BY <1>0, <1>3, <2>1, <2>2, LockoutFrame, OwnJob
<1>4. ASSUME NEW u \in Users, FailureExpires(u) PROVE LockoutInv'
  <2>1. job' = job /\ \A v \in Users : failures'[v] <= failures[v]
    BY <1>0, <1>4 DEF FailureExpires
  <2>2. QED
    BY <1>0, <2>1, LockoutFrame
<1>5. QED
  BY <1>1, <1>2, <1>3, <1>4 DEF Next, AccountStep, Register, Invite, InviteAdmin, Create,
     VerifyEmail, ConfirmInvite, UpdateAccount, RevokeSession, CreateRole, DeleteRole, vars

\* A burst of logins in flight overshoots the lockout's threshold by no more
\* than their number.
THEOREM LockoutHolds == Spec => []FailuresBounded
<1>1. TypeInv /\ LockoutInv => FailuresBounded
  <2> SUFFICES ASSUME TypeInv, LockoutInv, NEW u \in Users
               PROVE  Within(failures[u])
    BY DEF FailuresBounded, Within
  <2>1. failures[u] \in Nat /\ Within(failures[u] + Cardinality(Attempts(u)))
    BY DEF TypeInv, AccountTypeOK, LockoutInv
  <2>2. QED
    BY <2>1, AttemptsFinite, AccountsAssumption DEF Within
<1>2. QED
  BY <1>1, InitTypes, InitLockout, NextTypes, NextLockout, PTL DEF Spec

-----------------------------------------------------------------------------
(* The registry of sessions.  Logins open, revocations close, and nothing  *)
(* else touches a session.                                                 *)

owners == [s \in Sessions |-> session[s].user]
live == {s \in Sessions : Active(s)}

LEMMA RegistryInit == Init => Registry!Init
BY DEF Init, Registry!Init, NoSession, Active

\* Revoking sessions of one account closes them.
LEMMA RevokedClose ==
    ASSUME TypeInv, NEW u \in Users, NEW S \in SUBSET Sessions,
           \A s \in S : session[s].user = u, session' = Revoked(S)
    PROVE  Registry!Close(u, S)
<1>1. \A s \in Sessions : /\ session'[s].user = session[s].user
                          /\ Active(s)' <=> Active(s) /\ s \notin S
  BY DEF Revoked, NoSession, Active, TypeInv, AccountTypeOK, SessionRow
<1>2. QED
  BY <1>1 DEF Registry!Close

LEMMA IssueOpens ==
    ASSUME TypeInv, NEW h \in Handlers, NEW s \in Sessions, LoginIssue(h, s)
    PROVE  Registry!Next
<1>0. PICK u \in Users : u = job[h].user
  BY DEF LoginIssue, TypeInv, JobOK, GoodJob
<1>1. /\ session[s].user = None /\ session'[s].user = u /\ Active(s)'
      /\ \A t \in Sessions \ {s} : session'[t] = session[t]
  BY <1>0 DEF LoginIssue, TypeInv, AccountTypeOK, OwnerOK, Active
<1>2. Registry!Open(s, u)
  BY <1>1 DEF Registry!Open, Active
<1>3. QED
  BY <1>2 DEF Registry!Next

LEMMA RegistryNext ==
    ASSUME TypeInv, [Next]_vars
    PROVE  Registry!Next \/ UNCHANGED session
<1>1. ASSUME NEW s \in Sessions, RevokeSession(s) PROVE Registry!Next
  <2>1. session[s].user \in Users
    BY <1>1 DEF RevokeSession, Active, TypeInv, OwnerOK
  <2>2. Registry!Close(session[s].user, {s})
    BY <1>1, <2>1, RevokedClose DEF RevokeSession
  <2>3. QED
    BY <2>1, <2>2 DEF Registry!Next
<1>2. ASSUME NEW h \in Handlers, RevokeCommit(h) \/ AnonymizeCommit(h) PROVE Registry!Next
  <2>1. /\ job[h].user \in Users /\ job[h].sessions \in SUBSET Sessions
        /\ \A s \in job[h].sessions : session[s].user = job[h].user
        /\ session' = Revoked(job[h].sessions)
    BY <1>2, JobFields DEF RevokeCommit, AnonymizeCommit, JobOK, GoodJob, Job
  <2>2. Registry!Close(job[h].user, job[h].sessions)
    BY <2>1, RevokedClose
  <2>3. QED
    BY <2>1, <2>2 DEF Registry!Next
<1>3. CASE \/ \E u \in Users : AccountStep(u)
           \/ \E h \in Handlers : Abort(h)
           \/ \E r \in Roles : CreateRole(r) \/ DeleteRole(r)
           \/ UNCHANGED vars
  BY <1>3 DEF AccountStep, Register, Invite, InviteAdmin, Create, VerifyEmail, ConfirmInvite,
     UpdateAccount, FailureExpires, Abort, CreateRole, DeleteRole, vars
<1>4. ASSUME NEW h \in Handlers, SignInStep(h) PROVE Registry!Next \/ UNCHANGED session
  BY <1>2, <1>4, IssueOpens DEF SignInStep, LoginCheck, PasswordLoad, Begin, LoginVerify, LoginFail,
     RefreshLoad, RefreshCommit, Touch, PasswordCommit, RevokeList, ListOpenSessions
<1>5. ASSUME NEW h \in Handlers, AdminStep(h) PROVE Registry!Next \/ UNCHANGED session
  BY <1>2, <1>5 DEF AdminStep, StatusLoad, StatusCommit, AnonymizeLoad, AnonymizeSessions,
     AnonymizeRoles, ListOpenSessions, AssignLoad, UnassignLoad, RoleLoad, LockUser,
     AssignCommit, UnassignCommit, EndRoleChange
<1>6. QED
  BY <1>1, <1>3, <1>4, <1>5 DEF Next

\* The sign-in code implements the registry: a session is opened once, for one
\* account, and what was revoked stays so.
THEOREM SessionsRefine == Spec => RegistrySpec
<1>1. Init => Registry!Init
  BY RegistryInit
<1>2. TypeInv /\ [Next]_vars => [Registry!Next]_<<owners, live>>
  BY RegistryNext DEF owners, live, Active
<1>3. Spec => []TypeInv
  BY InitTypes, NextTypes, PTL DEF Spec
<1>4. QED
  BY <1>1, <1>2, <1>3, PTL DEF Spec, RegistrySpec, Registry!Spec, owners, live
=============================================================================
