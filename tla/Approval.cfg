SPECIFICATION Spec
SYMMETRY SessionSymmetry
CONSTANTS
    Scale = 1
    Sessions = {s1, s2}
    NoSnapshot = NoSnapshot
    NoPage = NoPage
    Users = {u1, u2}
    Admins = {}
    Managers = {u2}
    Department = dept
    Materials = {m1}
    Retirable = {m1}
    Prices = {1}
    MaxQuantity = 2
    MaxLines = 1
    MaxRequisitions = 1
    MaxVersion = 5
INVARIANTS
    ApprovalIsFinal
PROPERTIES
    LegalTransitions
