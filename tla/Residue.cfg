SPECIFICATION Spec
CONSTANTS
    Scale = 1
    Warehouses = {w1}
    Materials = {m1}
    Sessions = {s1}
    NoSnapshot = NoSnapshot
    Users = {u1}
    Overriders = {u1}
    Retirable = {}
    Rates = {1, 2}
    MaxQuantity = 3
    MaxRows = 3
    MaxCounts = 1
    MaxVersion = 4
INVARIANTS
    EmptyStockHasNoValue
