------------------------------ MODULE Startup -------------------------------
(***************************************************************************)
(* The life of the backend container (docker-entrypoint.sh): wait for      *)
(* MySQL, alembic upgrade head (Migrations), init_data, the demo story     *)
(* unless DEMO_SEED=0 (seed_demo), then uvicorn, which serves the requests *)
(* of Administration.  The process may die at any point and loses its      *)
(* sessions; the database keeps what was committed.  Docker starts the     *)
(* container again (restart: unless-stopped), and a step of the entrypoint *)
(* that fails ends it (set -e).                                            *)
(*                                                                         *)
(* The business data of the story is modelled as one bit, whether the      *)
(* ledger has rows: it decides whether the reset lifts the triggers.       *)
(***************************************************************************)
EXTENDS Administration, Migrations

CONSTANTS
    SeededUsers,     \* DEMO_USERS
    SeededDepts,     \* DEPARTMENTS
    HomeOf,          \* department of every seeded user
    RoleOf,          \* role of every seeded user
    Applicant,       \* the seeded user who raises the story's requisitions (zhangsan)
    Manager,         \* the manager of the applicant's seeded department (lisi)
    MaxFaults        \* bound: deaths of the process and timeouts of the wait

ASSUME StartupAssumption ==
    /\ SeededUsers \subseteq Users
    /\ SeededDepts \subseteq Departments
    /\ HomeOf \in [SeededUsers -> SeededDepts]
    /\ RoleOf \in [SeededUsers -> Roles]
    /\ {"ADMIN", "WAREHOUSE"} \subseteq Roles
    /\ {Applicant, Manager} \subseteq SeededUsers
    /\ MaxFaults \in Nat

VARIABLES
    phase,      \* the step of the entrypoint
    pc,         \* next statement of the revision or of the reset
    version,    \* alembic_version
    schema,     \* what the DDL statements have built
    ledger,     \* inventory_transactions has committed rows
    demoSeed,   \* DEMO_SEED=1
    faults      \* deaths and timeouts so far

bootVars == <<phase, pc, version, schema, ledger, demoSeed, faults>>
vars == <<adminVars, bootVars>>

Phases == {"down", "wait", "migrate", "init", "wipe", "story", "serve"}

TypeOK == /\ AdminTypeOK
          /\ phase \in Phases
          /\ pc \in Nat
          /\ version \in 0..Latest
          /\ schema \in [Objects -> 0..Latest]
          /\ ledger \in BOOLEAN
          /\ demoSeed \in BOOLEAN
          /\ faults \in 0..MaxFaults

Init == /\ AdminInit
        /\ phase = "down"
        /\ pc = 1
        /\ version = 0
        /\ schema = NoSchema
        /\ ledger = FALSE
        /\ demoSeed \in BOOLEAN
        /\ faults = 0

-----------------------------------------------------------------------------
(* Starting, dying *)

Goto(p) == phase' = p /\ pc' = 1

Start == /\ phase = "down"
         /\ Goto("wait")
         /\ UNCHANGED <<adminVars, version, schema, ledger, demoSeed, faults>>

WaitForDb == /\ phase = "wait"
             /\ Goto("migrate")
             /\ UNCHANGED <<adminVars, version, schema, ledger, demoSeed, faults>>

\* DB_WAIT_SECONDS pass without a connection.
WaitTimeout == /\ phase = "wait"
               /\ faults < MaxFaults
               /\ faults' = faults + 1
               /\ Goto("down")
               /\ UNCHANGED <<adminVars, version, schema, ledger, demoSeed>>

Die == /\ phase # "down"
       /\ faults < MaxFaults
       /\ faults' = faults + 1
       /\ Goto("down")
       /\ snap' = [s \in Sessions |-> NoSnapshot]
       /\ UNCHANGED <<tables, tokens, logins, grantLog, requests, version, schema, ledger, demoSeed>>

-----------------------------------------------------------------------------
(* alembic upgrade head *)

Revision == Revisions[version + 1]

Migrating == phase = "migrate" /\ version < Latest

Migrate == /\ Migrating
           /\ pc <= Len(Revision)
           /\ Applicable(schema, Revision[pc])
           /\ schema' = Applied(schema, version + 1, Revision[pc])
           /\ pc' = pc + 1
           /\ UNCHANGED <<adminVars, phase, version, ledger, demoSeed, faults>>

MigrateFails == /\ Migrating
                /\ pc <= Len(Revision)
                /\ ~Applicable(schema, Revision[pc])
                /\ Goto("down")
                /\ UNCHANGED <<adminVars, version, schema, ledger, demoSeed, faults>>

\* The revision is stamped before its last statement has run.
Bug_Stampable == pc >= Len(Revision)

Stampable == pc > Len(Revision)

Stamp == /\ Migrating
         /\ Stampable
         /\ version' = version + 1
         /\ pc' = 1
         /\ UNCHANGED <<adminVars, phase, schema, ledger, demoSeed, faults>>

Migrated == /\ phase = "migrate"
            /\ version = Latest
            /\ Goto("init")
            /\ UNCHANGED <<adminVars, version, schema, ledger, demoSeed, faults>>

-----------------------------------------------------------------------------
(* init_data: one transaction that adds what is missing *)

\* ROLE_PERMISSIONS, as far as the permissions of Administration go.
RolePermissions(r) ==
    CASE r = "ADMIN" -> Permissions
      [] r \in {"APPLICANT", "DEPT_MANAGER", "BUYER"} -> {"pr:view"}
      [] OTHER -> {}

SeededUser(u) == [status |-> "ACTIVE", role |-> RoleOf[u], dept |-> HomeOf[u],
                  password |-> "seeded"]

\* Every seeded account is put back as it was.
Bug_SeedUsers == [u \in Users |-> IF u \in SeededUsers THEN SeededUser(u) ELSE users[u]]

SeedUsers ==
    [u \in Users |->
        IF u \in SeededUsers /\ users[u].status = "NONE" THEN SeededUser(u) ELSE users[u]]

SeedDepartments ==
    [d \in Departments |->
        IF d \in SeededDepts /\ depts[d].status = "NONE"
        THEN [status |-> "ACTIVE", parent |-> Null] ELSE depts[d]]

\* Rows are inserted without a look at what is there: on a seeded database
\* the unique keys refuse them.
Bug_AfterInit ==
    CASE \E u \in SeededUsers : users[u].status # "NONE" -> "down"
      [] demoSeed -> "wipe"
      [] OTHER -> "serve"

AfterInit == IF demoSeed THEN "wipe" ELSE "serve"

InitData == /\ phase = "init"
            /\ users' = SeedUsers
            /\ depts' = SeedDepartments
            /\ perms' = [r \in Roles |-> perms[r] \cup RolePermissions(r)]
            /\ Goto(AfterInit)
            /\ UNCHANGED <<tokens, logins, grantLog, requests, snap,
                           version, schema, ledger, demoSeed, faults>>

-----------------------------------------------------------------------------
(* seed_demo: reset the business data, replay the story, check it *)

Wiping(n) == phase = "wipe" /\ pc = n /\ UNCHANGED <<adminVars, version, demoSeed, faults>>

SetTrigger(t, r) == schema' = [schema EXCEPT ![t] = r]

\* wipe_chain looks at the ledger.
WipeCount == /\ Wiping(1)
             /\ pc' = IF ledger THEN 2 ELSE 6
             /\ UNCHANGED <<phase, schema, ledger>>

DropUpdateTrigger == /\ Wiping(2)
                     /\ SetTrigger("trg_it_no_update", 0)
                     /\ pc' = 3
                     /\ UNCHANGED <<phase, ledger>>

DropDeleteTrigger == /\ Wiping(3)
                     /\ SetTrigger("trg_it_no_delete", 0)
                     /\ pc' = 4
                     /\ UNCHANGED <<phase, ledger>>

\* The DELETE of the ledger is committed by the first CREATE TRIGGER.
CreateUpdateTrigger == /\ Wiping(4)
                       /\ ledger' = FALSE
                       /\ SetTrigger("trg_it_no_update", 1)
                       /\ pc' = 5
                       /\ UNCHANGED phase

CreateDeleteTrigger == /\ Wiping(5)
                       /\ SetTrigger("trg_it_no_delete", 1)
                       /\ pc' = 6
                       /\ UNCHANGED <<phase, ledger>>

\* The other tables, and the commit.
WipeRest == Wiping(6) /\ Goto("story") /\ UNCHANGED <<schema, ledger>>

\* The roles whose seeded permissions let a user do what the story has the
\* users of role r do.
ActsAs(r) == IF r = "APPLICANT" THEN {"APPLICANT", "DEPT_MANAGER", "ADMIN"} ELSE {r, "ADMIN"}

\* _assert_user_department_active: who raises a requisition needs one.
InActiveDepartment(u) ==
    users[u].dept \in Departments /\ depts[users[u].dept].status = "ACTIVE"

\* The story gets to its first receipt: every seeded user logs in with the
\* seeded password and may act, and the manager may approve what the applicant
\* raised (_assert_approver; department_managers names the seeded department).
CanReceive ==
    /\ \A u \in SeededUsers : /\ users[u].status = "ACTIVE"
                              /\ users[u].password = "seeded"
                              /\ users[u].role \in ActsAs(RoleOf[u])
    /\ InActiveDepartment(Applicant)
    /\ users[Manager].role = "ADMIN" \/ users[Applicant].dept = HomeOf[Manager]

\* verify: the applicant sees one requisition and has nothing to approve, the
\* warehouse user sees none (dashboard_summary, dashboard_todos).
DashboardsAgree ==
    /\ users[Applicant].role = "APPLICANT"
    /\ \A u \in SeededUsers : RoleOf[u] = "WAREHOUSE" => users[u].role = "WAREHOUSE"
    /\ "pr:view" \notin perms["WAREHOUSE"]

\* The story and its check go through: after the first receipts the manager
\* raises a requisition too.
StoryRuns == CanReceive /\ InActiveDepartment(Manager) /\ DashboardsAgree

\* The rows that the story's logins leave, when the users in done could log in
\* and the login of the users in refused (at most one) failed.
StoryLogins(done, refused) ==
    logins \cup ({"LOGIN"} \X done) \cup ({"LOGIN_FAILED"} \X refused)

\* The logins come first; then the receipts of the story commit one by one.
StoryReceipt == /\ phase = "story"
                /\ CanReceive
                /\ ledger' = TRUE
                /\ logins' = StoryLogins(SeededUsers, {})
                /\ UNCHANGED <<tables, tokens, grantLog, requests, snap,
                               phase, pc, version, schema, demoSeed, faults>>

StoryDone == /\ phase = "story"
             /\ StoryRuns
             /\ ledger
             /\ Goto("serve")
             /\ UNCHANGED <<adminVars, version, schema, ledger, demoSeed, faults>>

\* A disabled account is refused without a row, a wrong password with one, and
\* whoever comes later does not log in.  Whatever else is wrong fails the story
\* after all logins; what is wrong after the first receipt leaves them behind.
StoryFails ==
    LET wrongPassword == {u \in SeededUsers : users[u].password # "seeded"}
        disabled == {u \in SeededUsers : users[u].status # "ACTIVE"}
        refused == wrongPassword \cup disabled
    IN  /\ phase = "story"
        /\ ~StoryRuns
        /\ CanReceive => ledger
        /\ \/ refused = {} /\ logins' = StoryLogins(SeededUsers, {})
           \/ \E u \in refused, done \in SUBSET (SeededUsers \ refused) :
                 logins' = StoryLogins(done, {u} \cap wrongPassword)
        /\ Goto("down")
        /\ UNCHANGED <<tables, tokens, grantLog, requests, snap,
                       version, schema, ledger, demoSeed, faults>>

-----------------------------------------------------------------------------
(* uvicorn *)

Serve == phase = "serve" /\ AdminNext /\ UNCHANGED bootVars

\* A receipt, reversal or count posts to the ledger.
Post == /\ phase = "serve"
        /\ ~ledger
        /\ ledger' = TRUE
        /\ UNCHANGED <<adminVars, phase, pc, version, schema, demoSeed, faults>>

Wipe == \/ WipeCount \/ DropUpdateTrigger \/ DropDeleteTrigger
        \/ CreateUpdateTrigger \/ CreateDeleteTrigger \/ WipeRest

Boot == \/ Start \/ WaitForDb
        \/ Migrate \/ MigrateFails \/ Stamp \/ Migrated
        \/ InitData \/ Wipe \/ StoryReceipt \/ StoryDone \/ StoryFails

Next == Boot \/ WaitTimeout \/ Die \/ Serve \/ Post

\* Docker restarts the container and the entrypoint runs on; nothing makes a
\* client send a request.
Spec == Init /\ [][Next]_vars /\ WF_vars(Boot)

-----------------------------------------------------------------------------
(* Properties *)

\* The revision that comes next, run from its first statement on the schema
\* that an earlier boot left, fails.
RevisionFails ==
    /\ version < Latest
    /\ LET after[i \in 0..Len(Revision)] ==
              IF i = 0 THEN schema ELSE Applied(after[i - 1], version + 1, Revision[i])
       IN \E i \in 1..Len(Revision) : ~Applicable(after[i - 1], Revision[i])

\* The container is down over a database on which the next boot fails, in the
\* middle of the migrations or in the demo story.
Stuck ==
    /\ phase = "down"
    /\ \/ RevisionFails
       \/ /\ demoSeed
          /\ \A u \in SeededUsers : users[u].status # "NONE"
          /\ ~StoryRuns

\* Whatever step the process died in, the restarts bring the service back,
\* unless a boot leaves a database on which the next one fails
\* (docker-entrypoint.sh, docker-compose.yml).
Recovers == phase # "serve" ~> (phase = "serve" \/ Stuck)

\* Such a database is never repaired: where one boot fails, every later one
\* does too, and the service does not come back (init_data leaves existing rows
\* alone, alembic never resumes a revision).
StuckIsFinal == [](Stuck => [](phase # "serve"))

\* A process that serves has the whole schema of the head revision and the
\* bootstrap data, whichever boots were cut short before.  The demo reset may
\* have lost the trigger that forbids deletes (see LedgerGuarded).
ServesComplete ==
    phase = "serve" =>
        /\ version = Latest
        /\ \A o \in Objects :
            (demoSeed /\ o = "trg_it_no_delete") \/ schema[o] = SchemaAt[Latest][o]
        /\ \A u \in SeededUsers : users[u].status # "NONE"
        /\ \A d \in SeededDepts : depts[d].status # "NONE"

\* Restarts aside, a role has as many permissions as its newest
\* PERMISSION_CHANGE row says; a restart grants the role's part of the matrix
\* again, and nothing else (role_service.assign_permissions, init_data._seed).
GrantsFollowAudit ==
    \A r \in Roles : grantLog[r] # Null =>
        \E granted \in Grants : /\ Cardinality(granted) = grantLog[r]
                                /\ perms[r] \in {granted, granted \cup RolePermissions(r)}

\* The append-only guards of the ledger are in force while the service runs
\* (create_all_22_base_tables.py:458, docs/database-design.md section 5.4).
LedgerGuarded == phase = "serve" => \A t \in Triggers : schema[t] # 0

\* docker-entrypoint.sh:5 and :6 call the boot steps idempotent: a boot that
\* was cut short is simply run again, so the service always comes back.
BootIsIdempotent == []<>(phase = "serve")
=============================================================================
