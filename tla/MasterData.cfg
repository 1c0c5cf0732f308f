\* One row of each kind, two thresholds, two sessions.
CONSTANTS
    Sessions = {s1, s2}
    NoSnapshot = NoSnapshot
    Materials = {m1}
    Suppliers = {v1}
    Warehouses = {w1}
    Thresholds = {1, 2}
    Null = Null
    NoPolicy = NoPolicy
    MaxRows = 7
SPECIFICATION Spec
SYMMETRY SessionSymmetry
PROPERTIES
    PolicyRulesBreakOnlyInRaces
    DisabledUntilEnabled
