SPECIFICATION Spec
SYMMETRY SessionSymmetry
CONSTANTS
    Scale = 1
    Sessions = {s1, s2}
    NoSnapshot = NoSnapshot
    NoPage = NoPage
    Users = {u1}
    Admins = {}
    Managers = {u1}
    Department = dept
    Materials = {m1}
    Retirable = {}
    Prices = {1}
    MaxQuantity = 2
    MaxLines = 1
    MaxRequisitions = 1
    MaxVersion = 4
\* In its place, as a PROPERTY and without SYMMETRY: VersionGrows.
INVARIANTS
    TotalIsSum
