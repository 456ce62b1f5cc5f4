------------------------------ MODULE Accounts ------------------------------
(***************************************************************************)
(* Sign-in sessions, passwords, the login lockout, account status and role *)
(* assignments (backend/app/services/auth_service.py, security_service.py, *)
(* admin_users_service.py, admin_team_service.py, admin_roles_service.py). *)
(*                                                                         *)
(* A handler is one API request with one database session.  It is cut at   *)
(* its reads, its row lock and its commits: PostgreSQL runs READ COMMITTED,*)
(* an UPDATE writes only the columns whose value differs from the loaded   *)
(* one, and a row held by SELECT ... FOR UPDATE delays every UPDATE of it  *)
(* and every INSERT that refers to it.                                     *)
(***************************************************************************)
EXTENDS Integers, FiniteSets

CONSTANTS
    Handlers,      \* API requests that may be in flight together
    Users,         \* primary keys of users
    Sessions,      \* primary keys of active_sessions
    Roles,         \* primary keys of roles
    PlainRole,     \* the seeded role "User", which grants no admin access
    SystemRoles,   \* the seeded roles, which cannot be deleted
    Threshold,     \* FAILED_LOGIN_LOCKOUT_THRESHOLD
    MaxChanges,    \* bound on the password changes of an account
    None

ASSUME AccountsAssumption ==
    /\ IsFiniteSet(Handlers)
    /\ SystemRoles \subseteq Roles
    /\ Threshold \in Nat /\ MaxChanges \in Nat
    /\ None \notin Users \cup Handlers \cup Sessions \cup Roles

VARIABLES
    account,    \* users rows
    assigned,   \* user_roles: how many rows assign a role to a user
    roleRow,    \* roles rows
    session,    \* active_sessions rows
    failures,   \* failed_logins rows of the user's address within the window
    lock,       \* the handler that holds a users row FOR UPDATE
    job,        \* what each handler is doing, and what it has read
    unrevoked,  \* history: a password change was lost before its revocation
    unsynced    \* history: a role change was made from an outdated copy

vars == <<account, assigned, roleRow, session, failures, lock, job, unrevoked, unsynced>>

-----------------------------------------------------------------------------
(* Types                                                                   *)

AccountStatus == {"absent", "active", "suspended", "deleted"}

\* role is users.role; invited: there is an invite link for the account.
\* changes: how many times the password was set since; closing: how many times
\* it had been when it was last reset, changed or scrambled, which all revoke
\* sessions.  Who knows a password is left open.
Account ==
    [status : AccountStatus, role : {"user", "admin"}, verified : BOOLEAN,
     invited : BOOLEAN, changes : Nat, closing : Nat]

NoAccount ==
    [status |-> "absent", role |-> "user", verified |-> FALSE,
     invited |-> FALSE, changes |-> 0, closing |-> 0]

\* changes: the password the login verified; late: the login overlapped a
\* change that revokes sessions, or the anonymisation of the account.
SessionRow ==
    [status : {"absent", "active", "revoked"}, user : Users \cup {None},
     changes : Nat, late : BOOLEAN]

NoSession == [status |-> "absent", user |-> None, changes |-> 0, late |-> FALSE]

Ops ==
    {"idle", "checked", "failing", "verified", "refresh",
     "password", "changed", "revoking", "suspend", "activate",
     "anonymize", "unlisted", "stripping",
     "assign", "assigning", "unassign", "unassigning"}

\* What a handler goes by of the users row it has read: whether the status is
\* the one it is going to write, the role, the password.
Seen == [same : BOOLEAN, role : {"user", "admin"}, changes : Nat]

Unseen == [same |-> FALSE, role |-> "user", changes |-> 0]

Job ==
    [op : Ops, user : Users \cup {None}, role : Roles \cup {None},
     session : Sessions \cup {None}, seen : Seen,
     sessions : SUBSET Sessions, roles : SUBSET Roles]

Free ==
    [op |-> "idle", user |-> None, role |-> None, session |-> None,
     seen |-> Unseen, sessions |-> {}, roles |-> {}]

AccountTypeOK ==
    /\ account \in [Users -> Account]
    /\ assigned \in [Users -> [Roles -> Nat]]
    /\ roleRow \in [Roles -> {"absent", "stored", "deleted"}]
    /\ session \in [Sessions -> SessionRow]
    /\ failures \in [Users -> Nat]
    /\ lock \in [Users -> Handlers \cup {None}]
    /\ job \in [Handlers -> Job]
    /\ unrevoked \subseteq Users
    /\ unsynced \subseteq Users

Init ==
    /\ account = [u \in Users |-> NoAccount]
    /\ assigned = [u \in Users |-> [r \in Roles |-> 0]]
    /\ roleRow = [r \in Roles |-> IF r \in SystemRoles THEN "stored" ELSE "absent"]
    /\ session = [s \in Sessions |-> NoSession]
    /\ failures = [u \in Users |-> 0]
    /\ lock = [u \in Users |-> None]
    /\ job = [h \in Handlers |-> Free]
    /\ unrevoked = {}
    /\ unsynced = {}

Stored(u) == account[u].status # "absent"
Unlocked(u) == lock[u] = None
Active(s) == session[s].status = "active"
AdminRoles == Roles \ {PlainRole}
Held(u) == {r \in Roles : assigned[u][r] > 0}
AdminIff(p) == IF p THEN "admin" ELSE "user"

SetJob(h, j) == job' = [job EXCEPT ![h] = j]
Begin(h, op, u) ==
    /\ job[h] = Free
    /\ SetJob(h, [Free EXCEPT !.op = op, !.user = u])

historyVars == <<unrevoked, unsynced>>
roleVars == <<assigned, roleRow, lock>>
loginVars == <<session, failures>>

-----------------------------------------------------------------------------
(* New accounts                                                            *)

Create(u, a) ==
    /\ account[u].status = "absent"
    /\ account' = [account EXCEPT ![u] = a]
    /\ UNCHANGED <<roleRow, loginVars, lock, job, historyVars>>

Register(u) ==
    /\ Create(u, [NoAccount EXCEPT !.status = "active"])
    /\ UNCHANGED assigned

\* The inviting administrator vouches for the address.
Invited == [NoAccount EXCEPT !.status = "active", !.verified = TRUE, !.invited = TRUE]

Invite(u) ==
    /\ Create(u, Invited)
    /\ UNCHANGED assigned

InviteAdmin(u, r) ==
    /\ roleRow[r] = "stored"
    /\ Create(u, [Invited EXCEPT !.role = AdminIff(r # PlainRole)])
    /\ assigned' = [assigned EXCEPT ![u][r] = 1]

UpdateAccount(u, a) ==
    /\ Stored(u)
    /\ Unlocked(u)
    /\ account' = [account EXCEPT ![u] = a]
    /\ UNCHANGED <<roleVars, loginVars, job, historyVars>>

VerifyEmail(u) == UpdateAccount(u, [account[u] EXCEPT !.verified = TRUE])

\* What an account is after its password was set, by a request that goes on to
\* revoke sessions.
Renewed(a) == [a EXCEPT !.changes = @ + 1, !.closing = a.changes + 1]

\* A password for an invited account, each time the link is used before it
\* expires: no session is revoked.
ConfirmInvite(u) ==
    /\ account[u].invited
    /\ account[u].changes < MaxChanges
    /\ UpdateAccount(u, [account[u] EXCEPT !.verified = TRUE, !.changes = @ + 1])

-----------------------------------------------------------------------------
(* authenticate and issue_tokens                                           *)

LockedOutBeyond(u) == failures[u] > Threshold
LockedOut(u) == failures[u] >= Threshold

LoginCheck(h, u) ==
    /\ ~LockedOut(u)
    /\ Begin(h, "checked", u)
    /\ UNCHANGED <<account, roleVars, loginVars, historyVars>>

\* The password is compared, then the status and the address are looked at.
\* A refusal for the address only is not counted as a failure.
LoginVerify(h, correct) ==
    LET a == account[job[h].user]
        match == correct /\ a.status # "absent"
    IN
    /\ job[h].op = "checked"
    /\ SetJob(h,
         IF ~match \/ a.status = "suspended" THEN [job[h] EXCEPT !.op = "failing"]
         ELSE IF ~a.verified THEN Free
         ELSE [job[h] EXCEPT !.op = "verified", !.seen.changes = a.changes])
    /\ UNCHANGED <<account, roleVars, loginVars, historyVars>>

LoginFail(h) ==
    /\ job[h].op = "failing"
    /\ failures' = [failures EXCEPT ![job[h].user] = @ + 1]
    /\ SetJob(h, Free)
    /\ UNCHANGED <<account, roleVars, session, historyVars>>

\* An anonymisation of u has looked up the sessions it will revoke.
BeingAnonymized(u) ==
    \E k \in Handlers : job[k].user = u /\ job[k].op \in {"unlisted", "stripping"}

\* The foreign key of the session waits for the lock on the account.
LoginIssue(h, s) ==
    LET u == job[h].user
        c == job[h].seen.changes
    IN
    /\ job[h].op = "verified"
    /\ Unlocked(u)
    /\ session[s].status = "absent"
    /\ session' = [session EXCEPT ![s] =
           [status |-> "active", user |-> u, changes |-> c,
            late |-> c < account[u].closing \/ BeingAnonymized(u)]]
    /\ SetJob(h, Free)
    /\ UNCHANGED <<account, roleVars, failures, historyVars>>

\* The oldest failure leaves FAILED_LOGIN_LOCKOUT_WINDOW_MINUTES.
FailureForgotten(u) ==
    /\ failures' = [failures EXCEPT ![u] = @ - 1]
    /\ UNCHANGED <<account, roleVars, session, job, historyVars>>
FailureExpires(u) ==
    /\ failures[u] > 0
    /\ failures' = [failures EXCEPT ![u] = @ - 1]
    /\ UNCHANGED <<account, roleVars, session, job, historyVars>>

-----------------------------------------------------------------------------
(* refresh_access_token, logout and revoke_session                         *)

RefreshLoad(h, s) ==
    /\ job[h] = Free
    /\ Active(s)
    /\ account[session[s].user].status # "suspended"
    /\ SetJob(h, [Free EXCEPT !.op = "refresh", !.user = session[s].user, !.session = s])
    /\ UNCHANGED <<account, roleVars, loginVars, historyVars>>

\* Of the session's row only last_active_at is written.
TouchWhole(s) == [session EXCEPT ![s].status = "active"]
Touch(s) == session
RefreshCommit(h) ==
    /\ job[h].op = "refresh"
    /\ session' = Touch(job[h].session)
    /\ SetJob(h, Free)
    /\ UNCHANGED <<account, roleVars, failures, historyVars>>

\* revoked_at is set; how the session was opened no longer matters.
Revoked(S) ==
    [s \in Sessions |->
        IF s \in S THEN [NoSession EXCEPT !.status = "revoked", !.user = session[s].user]
        ELSE session[s]]

RevokeSession(s) ==
    /\ Active(s)
    /\ session' = Revoked({s})
    /\ UNCHANGED <<account, roleVars, failures, job, historyVars>>

-----------------------------------------------------------------------------
(* confirm_password_reset and change_password                              *)

\* The account has been loaded, and the reset link or the current password
\* checked.
PasswordLoad(h, u) ==
    /\ Stored(u)
    /\ Begin(h, "password", u)
    /\ UNCHANGED <<account, roleVars, loginVars, historyVars>>

PasswordCommitAlone(h) ==
    LET u == job[h].user IN
    /\ job[h].op = "password"
    /\ Unlocked(u)
    /\ account[u].changes < MaxChanges
    /\ account' = [account EXCEPT ![u] = Renewed(@)]
    /\ SetJob(h, Free)
    /\ UNCHANGED <<roleVars, loginVars, historyVars>>
PasswordCommit(h) ==
    LET u == job[h].user IN
    /\ job[h].op = "password"
    /\ Unlocked(u)
    /\ account[u].changes < MaxChanges
    /\ account' = [account EXCEPT ![u] = Renewed(@)]
    /\ SetJob(h, [job[h] EXCEPT !.op = "changed"])
    /\ UNCHANGED <<roleVars, loginVars, historyVars>>

OpenSessions(u) == {s \in Sessions : Active(s) /\ session[s].user = u}

ListOpenSessions(h, from, to) ==
    /\ job[h].op = from
    /\ SetJob(h, [job[h] EXCEPT !.op = to, !.sessions = OpenSessions(job[h].user)])
    /\ UNCHANGED <<account, roleVars, loginVars, historyVars>>

\* _revoke_all_sessions, in a transaction after that of the password.
RevokeList(h) == ListOpenSessions(h, "changed", "revoking")

RevokeCommit(h) ==
    /\ job[h].op = "revoking"
    /\ session' = Revoked(job[h].sessions)
    /\ SetJob(h, Free)
    /\ UNCHANGED <<account, roleVars, failures, historyVars>>

-----------------------------------------------------------------------------
(* set_user_status, suspend_admin and reactivate_admin; anonymize_user     *)

\* The status that a request is going to write.
Status(op) ==
    CASE op = "suspend" -> "suspended"
      [] op = "activate" -> "active"
      [] OTHER -> "deleted"

StatusLoad(h, u, op) ==
    /\ job[h] = Free
    /\ Stored(u)
    /\ SetJob(h, [Free EXCEPT !.op = op, !.user = u, !.seen.same = account[u].status = Status(op)])
    /\ UNCHANGED <<account, roleVars, loginVars, historyVars>>

\* Written only if it differs from the loaded one.
NewStatus(h) ==
    IF job[h].seen.same THEN account[job[h].user].status ELSE Status(job[h].op)

StatusCommit(h) ==
    LET u == job[h].user IN
    /\ job[h].op \in {"suspend", "activate"}
    /\ Unlocked(u)
    /\ account' = [account EXCEPT ![u].status = NewStatus(h)]
    /\ SetJob(h, Free)
    /\ UNCHANGED <<roleVars, loginVars, historyVars>>

AnonymizeLoad(h, u) ==
    /\ job[h] = Free
    /\ Stored(u)
    /\ SetJob(h, [Free EXCEPT !.op = "anonymize", !.user = u,
           !.seen.same = account[u].status = "deleted", !.seen.role = account[u].role])
    /\ UNCHANGED <<account, roleVars, loginVars, historyVars>>

AnonymizeNoSessions(h) ==
    /\ job[h].op = "anonymize"
    /\ SetJob(h, [job[h] EXCEPT !.op = "unlisted"])
    /\ UNCHANGED <<account, roleVars, loginVars, historyVars>>
AnonymizeSessions(h) == ListOpenSessions(h, "anonymize", "unlisted")

AnonymizeRoles(h) ==
    /\ job[h].op = "unlisted"
    /\ SetJob(h, [job[h] EXCEPT !.op = "stripping", !.roles = Held(job[h].user)])
    /\ UNCHANGED <<account, roleVars, loginVars, historyVars>>

\* The roles of u that a transaction which has listed roles deletes.
Stripped(u, roles) ==
    [assigned EXCEPT ![u] = [r \in Roles |-> IF r \in roles THEN 0 ELSE @[r]]]

\* users.role is written only if it differs from the loaded one.
NewRole(h, role) ==
    IF job[h].seen.role = role THEN account[job[h].user].role ELSE role

\* What h has read of u's role, and the assignments it has listed, are no
\* longer so.
Outdated(h) ==
    LET u == job[h].user IN
    job[h].seen.role # account[u].role \/ job[h].roles # Held(u)

MarkUnsynced(h) ==
    unsynced' = IF Outdated(h) THEN unsynced \cup {job[h].user} ELSE unsynced

AnonymizeCommit(h) ==
    LET u == job[h].user IN
    /\ job[h].op = "stripping"
    /\ Unlocked(u)
    /\ account[u].changes < MaxChanges
    /\ account' = [account EXCEPT ![u] =
           [Renewed(@) EXCEPT !.status = NewStatus(h), !.role = NewRole(h, "user")]]
    /\ session' = Revoked(job[h].sessions)
    /\ assigned' = Stripped(u, job[h].roles)
    /\ MarkUnsynced(h)
    /\ SetJob(h, Free)
    /\ UNCHANGED <<roleRow, lock, failures, unrevoked>>

-----------------------------------------------------------------------------
(* assign_role and unassign_role                                           *)

RoleLoad(h, u, r, op) ==
    /\ job[h] = Free
    /\ Stored(u)
    /\ roleRow[r] = "stored"
    /\ SetJob(h, [Free EXCEPT !.op = op, !.user = u, !.role = r,
                              !.seen.role = account[u].role])
    /\ UNCHANGED <<account, roleVars, loginVars, historyVars>>

AssignLoad(h, u, r) == RoleLoad(h, u, r, "assign")
UnassignLoad(h, u, r) == RoleLoad(h, u, r, "unassign")

\* _lock_user, and the assignments read under the lock.  The copy of the
\* users row loaded before the lock stays what it was.
TakeLock(h, u) == Unlocked(u) /\ lock' = [lock EXCEPT ![u] = h]
LockUser(h) ==
    LET u == job[h].user IN
    /\ job[h].op \in {"assign", "unassign"}
    /\ TakeLock(h, u)
    /\ SetJob(h, [job[h] EXCEPT
           !.op = IF @ = "assign" THEN "assigning" ELSE "unassigning",
           !.roles = Held(u)])
    /\ UNCHANGED <<account, assigned, roleRow, loginVars, historyVars>>

Release(h) == [u \in Users |-> IF lock[u] = h THEN None ELSE lock[u]]

EndRoleChange(h) ==
    /\ lock' = Release(h)
    /\ SetJob(h, Free)
    /\ UNCHANGED <<roleRow, loginVars, unrevoked>>

\* Every role but "User" makes its holder an administrator.  A user who has
\* the role already is left alone.
AssignCommit(h) ==
    LET u == job[h].user
        r == job[h].role
    IN
    /\ job[h].op = "assigning"
    /\ \/ /\ r \in job[h].roles
          /\ UNCHANGED <<account, assigned, unsynced>>
       \/ /\ r \notin job[h].roles
          /\ roleRow[r] = "stored"
          /\ assigned' = [assigned EXCEPT ![u][r] = @ + 1]
          /\ account' = IF r = PlainRole THEN account
                        ELSE [account EXCEPT ![u].role = NewRole(h, "admin")]
          /\ MarkUnsynced(h)
    /\ EndRoleChange(h)

\* Losing the last administrative role makes a plain user again.
RemainingUnread(h) == {}
Remaining(h) == job[h].roles \ {job[h].role, PlainRole}

UnassignCommit(h) ==
    LET u == job[h].user
        r == job[h].role
    IN
    /\ job[h].op = "unassigning"
    /\ \/ /\ r \notin job[h].roles
          /\ UNCHANGED <<account, assigned, unsynced>>
       \/ /\ r \in job[h].roles
          /\ r = PlainRole \/ Cardinality(Remaining(h)) < 2
          /\ assigned' = Stripped(u, {r})
          /\ account' = IF r = PlainRole \/ Remaining(h) # {} THEN account
                        ELSE [account EXCEPT ![u].role = NewRole(h, "user")]
          /\ MarkUnsynced(h)
    /\ EndRoleChange(h)

-----------------------------------------------------------------------------
(* create_role and delete_role                                             *)

CreateRole(r) ==
    /\ roleRow[r] = "absent"
    /\ roleRow' = [roleRow EXCEPT ![r] = "stored"]
    /\ UNCHANGED <<account, assigned, loginVars, lock, job, historyVars>>

\* The foreign key deletes the assignments with the role; users.role of their
\* holders is not looked at.
DeleteRole(r) ==
    /\ r \notin SystemRoles
    /\ roleRow[r] = "stored"
    /\ roleRow' = [roleRow EXCEPT ![r] = "deleted"]
    /\ assigned' = [u \in Users |-> [assigned[u] EXCEPT ![r] = 0]]
    /\ unsynced' = unsynced \cup {u \in Users : r \in Held(u)}
    /\ UNCHANGED <<account, loginVars, lock, job, unrevoked>>

-----------------------------------------------------------------------------

\* The request ends where it is: an error, a refused insert, two rows where
\* scalar_one_or_none expects one (a third administrative role), a lost
\* process.  Its transaction is rolled back and its lock released.
Abort(h) ==
    /\ job[h] # Free
    /\ lock' = Release(h)
    /\ unrevoked' = IF job[h].op \in {"changed", "revoking"}
                    THEN unrevoked \cup {job[h].user} ELSE unrevoked
    /\ SetJob(h, Free)
    /\ UNCHANGED <<account, assigned, roleRow, loginVars, unsynced>>

AccountStep(u) ==
    \/ Register(u) \/ Invite(u) \/ VerifyEmail(u) \/ ConfirmInvite(u)
    \/ \E r \in Roles : InviteAdmin(u, r)
    \/ FailureExpires(u)

SignInStep(h) ==
    \/ \E u \in Users : LoginCheck(h, u) \/ PasswordLoad(h, u)
    \/ \E correct \in BOOLEAN : LoginVerify(h, correct)
    \/ LoginFail(h)
    \/ \E s \in Sessions : LoginIssue(h, s) \/ RefreshLoad(h, s)
    \/ RefreshCommit(h)
    \/ PasswordCommit(h) \/ RevokeList(h) \/ RevokeCommit(h)

AdminStep(h) ==
    \/ \E u \in Users, op \in {"suspend", "activate"} : StatusLoad(h, u, op)
    \/ StatusCommit(h)
    \/ \E u \in Users : AnonymizeLoad(h, u)
    \/ AnonymizeSessions(h) \/ AnonymizeRoles(h) \/ AnonymizeCommit(h)
    \/ \E u \in Users, r \in Roles : AssignLoad(h, u, r) \/ UnassignLoad(h, u, r)
    \/ LockUser(h) \/ AssignCommit(h) \/ UnassignCommit(h)

Next ==
    \/ \E u \in Users : AccountStep(u)
    \/ \E h \in Handlers : SignInStep(h) \/ AdminStep(h) \/ Abort(h)
    \/ \E s \in Sessions : RevokeSession(s)
    \/ \E r \in Roles : CreateRole(r) \/ DeleteRole(r)

Spec == Init /\ [][Next]_vars

-----------------------------------------------------------------------------
(* Properties                                                              *)

\* Two requests that assign the same role to a user do not store it twice
\* (user_roles has no unique constraint: only _lock_user prevents it).
OneAssignment == \A u \in Users, r \in Roles : assigned[u][r] <= 1

InSync(u) == account[u].role = AdminIff(Held(u) \cap AdminRoles # {})

\* users.role says "admin" exactly for the holders of a role other than
\* "User", unless a role change was made from a copy read before another
\* one, or the role itself was deleted.
AdminIffAdminRole ==
    \A u \in Users \ unsynced : InSync(u)

\* After a password reset or change no session opened with an older password
\* stays active, except those whose login overlapped the change, while the
\* revocation is under way, or if it was lost.  (A password set by an invite
\* link leaves the sessions opened with the ones before it.)
SessionsFollowPassword ==
    \A s \in Sessions :
        LET u == session[s].user IN
        Active(s) /\ ~session[s].late =>
            \/ session[s].changes >= account[u].closing
            \/ u \in unrevoked
            \/ \E h \in Handlers :
                   job[h].user = u /\ job[h].op \in {"changed", "revoking"}

\* An anonymised account is left without roles, unless one was assigned while
\* it was being anonymised, and without sessions, but for a login that
\* overlapped.
AnonymizedIsBare ==
    [][\A u \in Users :
          account[u].status # "deleted" /\ account'[u].status = "deleted" =>
             /\ \/ u \in unsynced'
                \/ account'[u].role = "user" /\ \A r \in Roles : assigned'[u][r] = 0
             /\ \A s \in Sessions :
                   session'[s].user = u /\ session'[s].status = "active"
                      => session'[s].late]_vars

\* Logins in flight can overshoot the lockout's threshold only by their
\* number.
FailuresBounded ==
    \A u \in Users :
        failures[u] > 0 => failures[u] < Threshold + Cardinality(Handlers)

-----------------------------------------------------------------------------
(* What the code's comments and documents say                              *)

\* A role change under the lock "always recomputes membership against the
\* other request's already-committed result instead of racing it"
\* (admin_users_service.py, _lock_user).
LockedChangeInSync ==
    [][\A h \in Handlers, u \in Users :
          /\ lock[u] = h /\ lock'[u] = None
          /\ InSync(u)
          /\ assigned'[u] # assigned[u]
          => InSync(u)']_vars

-----------------------------------------------------------------------------
(* Refinement                                                              *)

\* Sessions as the rest of the system may think of them.
Registry ==
    INSTANCE SessionRegistry WITH
        owner <- [s \in Sessions |-> session[s].user],
        live <- {s \in Sessions : Active(s)}

\* A session belongs to one account for good and is never active again once
\* it was revoked, whatever refreshes, logouts and resets overlap.
RegistrySpec == Registry!Spec
=============================================================================
