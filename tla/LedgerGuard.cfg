SPECIFICATION Spec
CONSTANTS
    Sessions = {s1, s2}
    NoSnapshot = NoSnapshot
    Users = {"admin", "zhangsan", "lisi", "new"}
    Roles = {"ADMIN", "APPLICANT", "DEPT_MANAGER", "WAREHOUSE"}
    Departments = {"RD", "ADM", "QA", "NEW"}
    Null = Null
    Absent = Absent
    NewUsers <- TriedNewUsers
    UserChanges <- TriedUserChanges
    DeptChanges <- TriedDeptChanges
    Grants <- TriedGrants
    MaxRequests = 3
    SeededUsers = {"admin", "zhangsan", "lisi"}
    SeededDepts = {"RD", "ADM", "QA"}
    HomeOf <- SeededHomes
    RoleOf <- SeededRoles
    Applicant = "zhangsan"
    Manager = "lisi"
    MaxFaults = 2
\* In place of this invariant: PermissionsAsAudited; as a PROPERTY,
\* UsersBlockDisabling or BootIsIdempotent.
INVARIANT LedgerGuarded
