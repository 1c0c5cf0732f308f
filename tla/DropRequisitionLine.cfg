SPECIFICATION Spec
CONSTANTS
    Scale = 1
    Sessions = {s1}
    NoSnapshot = NoSnapshot
    NoPage = NoPage
    Users = {u1}
    Admins = {}
    Managers = {u1}
    Department = dept
    Materials = {m1}
    Retirable = {}
    Prices = {1}
    MaxQuantity = 2
    MaxLines = 2
    MaxRequisitions = 1
    MaxVersion = 3
INVARIANTS
    LinesCanBeDropped
