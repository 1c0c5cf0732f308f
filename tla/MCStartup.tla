----------------------------- MODULE MCStartup ------------------------------
(* Startup for TLC: the administrator, the applicant and the manager of    *)
(* the demo data, one more account and one more department.                *)
EXTENDS Startup

Seeded == {"admin", "zhangsan", "lisi"}
SeededHomes == [u \in Seeded |-> IF u = "admin" THEN "ADM" ELSE "RD"]
SeededRoles == [u \in Seeded |-> CASE u = "admin" -> "ADMIN"
                                   [] u = "zhangsan" -> "APPLICANT"
                                   [] u = "lisi" -> "DEPT_MANAGER"]

NoChange == [status |-> Absent, role |-> Absent, dept |-> Absent, password |-> Absent]

TriedNewUsers == {[role |-> "ADMIN", dept |-> Null], [role |-> "APPLICANT", dept |-> "QA"]}

TriedUserChanges ==
    {[NoChange EXCEPT !.status = "DISABLED", !.password = "changed"],
     [NoChange EXCEPT !.status = "ACTIVE", !.role = "ADMIN", !.dept = Null],
     [NoChange EXCEPT !.dept = "QA"]}

TriedDeptChanges ==
    {[status |-> "INACTIVE", parent |-> Absent],
     [status |-> "ACTIVE", parent |-> "RD"]}

TriedGrants == {Permissions, {"user:update", "department:delete"}}
=============================================================================
