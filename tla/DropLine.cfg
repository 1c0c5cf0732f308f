SPECIFICATION Spec
CONSTANTS
    Scale = 1
    Warehouses = {w1}
    Materials = {m1, m2}
    Sessions = {s1}
    NoSnapshot = NoSnapshot
    Users = {u1}
    Overriders = {u1}
    Retirable = {}
    Rates = {1}
    MaxQuantity = 1
    MaxRows = 1
    MaxCounts = 1
    MaxVersion = 3
INVARIANTS
    LinesCanBeDropped
