SPECIFICATION Spec
SYMMETRY SessionSymmetry
CONSTANTS
    Scale = 1
    Warehouses = {w1}
    Materials = {m1}
    Sessions = {s1, s2}
    NoSnapshot = NoSnapshot
    Users = {u1}
    Overriders = {u1}
    Retirable = {}
    Rates = {1, 2}
    MaxQuantity = 2
    MaxRows = 3
    MaxCounts = 1
    MaxVersion = 4
\* In its place, as a PROPERTY and without SYMMETRY: DecidedAsSeen.
INVARIANTS
    NoMovementInWindow
