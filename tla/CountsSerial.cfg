SPECIFICATION Spec
CONSTANTS
    Scale = 1
    Warehouses = {w1}
    Materials = {m1, m2}
    Sessions = {s1}
    NoSnapshot = NoSnapshot
    Users = {u1, u2}
    Overriders = {u2}
    Retirable = {m2}
    Rates = {1}
    MaxQuantity = 1
    MaxRows = 3
    MaxCounts = 1
    MaxVersion = 5
INVARIANTS
    PostedAsRecorded
    CountReached
    NoMovementInWindow
