SPECIFICATION Spec
CONSTANTS
    Scale = 4
    Sessions = {s1}
    NoSnapshot = NoSnapshot
    NoPage = NoPage
    Users = {u1, u2}
    Admins = {u2}
    Managers = {}
    Department = dept
    Materials = {m1}
    Retirable = {m1, dept}
    Prices = {5}
    MaxQuantity = 2
    MaxLines = 2
    MaxRequisitions = 1
    MaxVersion = 5
INVARIANTS
    TotalIsSum
PROPERTIES
    ApprovedAsRead
