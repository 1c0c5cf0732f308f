SPECIFICATION Spec
SYMMETRY SessionSymmetry
CONSTANTS
    Sessions = {s1, s2}
    Receipts <- SplitReceipts
    Counts = {}
    Cancellable = {}
    MaterialOf <- LineMaterials
    Dates = {1}
INVARIANTS
    NoCrossWait
