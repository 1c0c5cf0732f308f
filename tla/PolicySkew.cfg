\* Two updates of one policy that overlap.
CONSTANTS
    Sessions = {s1, s2}
    NoSnapshot = NoSnapshot
    Materials = {m1}
    Suppliers = {v1}
    Warehouses = {w1}
    Thresholds = {1, 2}
    Null = Null
    NoPolicy = NoPolicy
    MaxRows = 5
SPECIFICATION Spec
SYMMETRY SessionSymmetry
INVARIANT PoliciesInRange
