--------------------------- MODULE Administration ---------------------------
(***************************************************************************)
(* Users, roles, permissions and departments: login and the guard of every *)
(* request (auth_service, api/v1/deps), user_service, role_service and     *)
(* department_service with their routers.                                  *)
(*                                                                         *)
(* Transactions are those of Procurement: the request of an access token   *)
(* opens a session with a snapshot, from which get_current_user,           *)
(* require_perm and the handler read; the handler takes effect in one      *)
(* step.  No read is locking, and the flush of an ORM object updates, by   *)
(* id alone, the columns that differ from what was loaded.  Only the       *)
(* permissions that guard a change of this state are modelled, and pr:view *)
(* for the demo story of Startup; a password is the seeded one or another. *)
(*                                                                         *)
(* On a seeded database create_role and delete_role always refuse: the     *)
(* five role codes exist and are system roles.  The status that            *)
(* update_role sets is never read.                                         *)
(***************************************************************************)
EXTENDS Naturals, FiniteSets

CONSTANTS
    Sessions,
    NoSnapshot,    \* the "snapshot" of a closed session
    Users,
    Roles,
    Departments,
    Null,          \* no department, no actor, no audit row
    Absent,        \* a field that a request leaves out
    NewUsers,      \* the roles and departments create_user is tried with
    UserChanges,   \* the bodies update_user is tried with
    DeptChanges,   \* the bodies update_department is tried with
    Grants,        \* the permission sets assign_permissions is tried with
    MaxRequests    \* bound: requests that change something

Permissions == {"user:create", "user:update", "user:delete",
                "department:create", "department:update", "department:delete",
                "role:assign", "pr:view"}

UserStatus == {"ACTIVE", "DISABLED"}
DeptStatus == {"ACTIVE", "INACTIVE"}
Password == {"seeded", "changed"}

\* UserUpdate and DepartmentUpdate: every field is optional; an explicit null
\* takes a user out of the department, and is ignored elsewhere.
UserChange == [status : UserStatus \cup {Absent}, role : Roles \cup {Absent},
               dept : Departments \cup {Null, Absent}, password : Password \cup {Absent}]
DeptChange == [status : DeptStatus \cup {Absent}, parent : Departments \cup {Absent}]

ASSUME AdministrationAssumption ==
    /\ NewUsers \subseteq [role : Roles, dept : Departments \cup {Null}]
    /\ UserChanges \subseteq UserChange
    /\ DeptChanges \subseteq DeptChange
    /\ Grants \subseteq SUBSET Permissions
    /\ MaxRequests \in Nat
    /\ Null \notin Departments \cup Users \cup Nat
    /\ Absent \notin Departments \cup Roles \cup UserStatus \cup DeptStatus \cup Password \cup {Null}

VARIABLES
    users,      \* users by username, status "NONE" before the INSERT
    depts,      \* departments by code, status "NONE" before the INSERT
    perms,      \* role_permissions
    tokens,     \* users who hold an unexpired access token
    logins,     \* the LOGIN and LOGIN_FAILED rows, by username
    grantLog,   \* size of the set named by a role's newest PERMISSION_CHANGE row
    requests,   \* number of requests that changed something
    snap        \* the snapshot of every session, with the actor

tables == <<users, depts, perms>>
adminVars == <<tables, tokens, logins, grantLog, requests, snap>>

User == [status : UserStatus \cup {"NONE"}, role : Roles \cup {Null},
         dept : Departments \cup {Null}, password : Password]
Department == [status : DeptStatus \cup {"NONE"}, parent : Departments \cup {Null}]

NoUser == [status |-> "NONE", role |-> Null, dept |-> Null, password |-> "seeded"]
NoDepartment == [status |-> "NONE", parent |-> Null]

Snapshot == [users : [Users -> User], depts : [Departments -> Department],
             perms : [Roles -> SUBSET Permissions], actor : Users \cup {Null}]

AdminTypeOK ==
    /\ users \in [Users -> User]
    /\ depts \in [Departments -> Department]
    /\ perms \in [Roles -> SUBSET Permissions]
    /\ tokens \subseteq Users
    /\ logins \subseteq {"LOGIN", "LOGIN_FAILED"} \X Users
    /\ grantLog \in [Roles -> Nat \cup {Null}]
    /\ requests \in 0..MaxRequests
    /\ snap \in [Sessions -> Snapshot \cup {NoSnapshot}]

AdminInit ==
    /\ users = [u \in Users |-> NoUser]
    /\ depts = [d \in Departments |-> NoDepartment]
    /\ perms = [r \in Roles |-> {}]
    /\ tokens = {}
    /\ logins = {}
    /\ grantLog = [r \in Roles |-> Null]
    /\ requests = 0
    /\ snap = [s \in Sessions |-> NoSnapshot]

-----------------------------------------------------------------------------
(* Sessions *)

IsOpen(s) == snap[s] # NoSnapshot

Open(s, actor) ==
    /\ ~IsOpen(s)
    /\ snap' = [snap EXCEPT ![s] = [users |-> users, depts |-> depts, perms |-> perms,
                                    actor |-> actor]]
    /\ UNCHANGED <<tables, tokens, logins, grantLog, requests>>

\* get_current_user: the account behind the token must be active.
Begin(s, u) == u \in tokens /\ users[u].status = "ACTIVE" /\ Open(s, u)

BeginLogin(s) == Open(s, Null)

Close(s) == snap' = [snap EXCEPT ![s] = NoSnapshot]

\* The end of a handler that committed a change.
Commit(s) == requests < MaxRequests /\ requests' = requests + 1 /\ Close(s)

\* An error, a read-only request, or a closed connection.
Rollback(s) ==
    IsOpen(s) /\ Close(s) /\ UNCHANGED <<tables, tokens, logins, grantLog, requests>>

\* require_perm, in the transaction of the request.
Guarded(s, perm) ==
    /\ IsOpen(s)
    /\ snap[s].actor # Null
    /\ perm \in snap[s].perms[snap[s].users[snap[s].actor].role]

-----------------------------------------------------------------------------
(* Login *)

LoggingIn(s) == IsOpen(s) /\ snap[s].actor = Null

\* A JWT is stateless: it outlives the process and a change of the account.
Login(s, u) ==
    /\ LoggingIn(s)
    /\ snap[s].users[u].status = "ACTIVE"
    /\ tokens' = tokens \cup {u}
    /\ logins' = logins \cup {<<"LOGIN", u>>}
    /\ Commit(s)
    /\ UNCHANGED <<tables, grantLog>>

\* A wrong name or password: the row is committed by a session of its own.
LoginFailed(s, u) ==
    /\ LoggingIn(s)
    /\ logins' = logins \cup {<<"LOGIN_FAILED", u>>}
    /\ Commit(s)
    /\ UNCHANGED <<tables, tokens, grantLog>>

Expire(u) == /\ u \in tokens
             /\ tokens' = tokens \ {u}
             /\ UNCHANGED <<tables, logins, grantLog, requests, snap>>

-----------------------------------------------------------------------------
(* Users *)

\* The whole row is written.
Bug_FlushRow(requested, loaded, current) == IF requested = Absent THEN loaded ELSE requested

\* The flush of one column: it is written when the request names a value
\* other than the one that was loaded.
Flush(requested, loaded, current) ==
    IF requested \in {Absent, loaded} THEN current ELSE requested

WriteUser(s, u, row) ==
    /\ users' = [users EXCEPT ![u] = row]
    /\ Commit(s)
    /\ UNCHANGED <<depts, perms, tokens, logins, grantLog>>

\* _validate_refs: the department exists, whatever its status.
ValidRef(s, d) == d \in Departments => snap[s].depts[d].status # "NONE"

\* The unique username is also checked by the INSERT.
CreateUser(s, u, r, d) ==
    /\ Guarded(s, "user:create")
    /\ snap[s].users[u].status = "NONE" /\ users[u].status = "NONE"
    /\ ValidRef(s, d)
    /\ WriteUser(s, u, [status |-> "ACTIVE", role |-> r, dept |-> d, password |-> "changed"])

\* A new password is hashed with a new salt, so it is always written.
MergedUser(s, u, c) ==
    LET loaded == snap[s].users[u] IN
    [status   |-> Flush(c.status, loaded.status, users[u].status),
     role     |-> Flush(c.role, loaded.role, users[u].role),
     dept     |-> Flush(c.dept, loaded.dept, users[u].dept),
     password |-> IF c.password = Absent THEN users[u].password ELSE c.password]

UpdateUser(s, u, c) ==
    /\ Guarded(s, "user:update")
    /\ snap[s].users[u].status # "NONE"
    /\ ValidRef(s, c.dept)
    /\ WriteUser(s, u, MergedUser(s, u, c))

DisableUser(s, u) ==
    /\ Guarded(s, "user:delete")
    /\ snap[s].users[u].status # "NONE"
    /\ WriteUser(s, u, [users[u] EXCEPT !.status = Flush("DISABLED", snap[s].users[u].status, @)])

-----------------------------------------------------------------------------
(* Departments *)

WriteDept(s, d, row) ==
    /\ depts' = [depts EXCEPT ![d] = row]
    /\ Commit(s)
    /\ UNCHANGED <<users, perms, tokens, logins, grantLog>>

CreateDepartment(s, d, p) ==
    /\ Guarded(s, "department:create")
    /\ snap[s].depts[d].status = "NONE" /\ depts[d].status = "NONE"
    /\ ValidRef(s, p)
    /\ WriteDept(s, d, [status |-> "ACTIVE", parent |-> p])

\* Only the department itself is refused as its parent; the users of the
\* department do not matter here.
UpdateDepartment(s, d, c) ==
    LET loaded == snap[s].depts[d] IN
    /\ Guarded(s, "department:update")
    /\ loaded.status # "NONE"
    /\ c.parent # d
    /\ ValidRef(s, c.parent)
    /\ WriteDept(s, d, [status |-> Flush(c.status, loaded.status, depts[d].status),
                        parent |-> Flush(c.parent, loaded.parent, depts[d].parent)])

InUse(s, d) == \E u \in Users : snap[s].users[u].dept = d

DisableDepartment(s, d) ==
    /\ Guarded(s, "department:delete")
    /\ snap[s].depts[d].status # "NONE"
    /\ ~InUse(s, d)
    /\ WriteDept(s, d, [depts[d] EXCEPT !.status = Flush("INACTIVE", snap[s].depts[d].status, @)])

-----------------------------------------------------------------------------
(* Roles *)

\* The new links are added to the old ones.
Bug_ReplacePermissions(r, granted) == [perms EXCEPT ![r] = @ \cup granted]

\* _replace_permissions: the DELETE is a current read, so of two assignments
\* the second to commit stays.
ReplacePermissions(r, granted) == [perms EXCEPT ![r] = granted]

AssignPermissions(s, r, granted) ==
    /\ Guarded(s, "role:assign")
    /\ perms' = ReplacePermissions(r, granted)
    /\ grantLog' = [grantLog EXCEPT ![r] = Cardinality(granted)]
    /\ Commit(s)
    /\ UNCHANGED <<users, depts, tokens, logins>>

-----------------------------------------------------------------------------
AdminNext ==
    \/ \E s \in Sessions :
        \/ BeginLogin(s)
        \/ Rollback(s)
        \/ \E u \in Users :
            \/ Begin(s, u)
            \/ Login(s, u)
            \/ LoginFailed(s, u)
            \/ DisableUser(s, u)
            \/ \E new \in NewUsers : CreateUser(s, u, new.role, new.dept)
            \/ \E c \in UserChanges : UpdateUser(s, u, c)
        \/ \E d \in Departments :
            \/ DisableDepartment(s, d)
            \/ \E p \in Departments \cup {Null} : CreateDepartment(s, d, p)
            \/ \E c \in DeptChanges : UpdateDepartment(s, d, c)
        \/ \E r \in Roles, granted \in Grants : AssignPermissions(s, r, granted)
    \/ \E u \in Users : Expire(u)

-----------------------------------------------------------------------------
(* Properties *)

\* A disabled account is active again only by a request that says so: neither
\* a racing edit of the same row (column-wise flush, user_service.update_user)
\* nor a restart (init_data leaves existing rows alone) revives it.
DisableSticks ==
    [][\A u \in Users :
        users[u].status = "DISABLED" /\ users'[u].status = "ACTIVE"
            => \E s \in Sessions, c \in UserChanges : c.status = "ACTIVE" /\ UpdateUser(s, u, c)]_adminVars

\* What disable_department's docstring says: users still referencing the
\* department block it (department_service.py:70).
UsersBlockDisabling ==
    [][\A s \in Sessions, d \in Departments :
        DisableDepartment(s, d) => \A u \in Users : users[u].dept # d]_adminVars

\* The newest PERMISSION_CHANGE row of a role tells how many permissions the
\* role has (role_service.assign_permissions).
PermissionsAsAudited ==
    \A r \in Roles : grantLog[r] # Null => Cardinality(perms[r]) = grantLog[r]
=============================================================================
