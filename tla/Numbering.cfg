\* Two sessions that create materials, requisitions and receipts of two days.
CONSTANTS
    Sessions = {s1, s2}
    DailyKeys = {"PR", "RCV", "TXN"}
    GlobalKeys = {"MAT"}
    Dates = {1, 2}
    GlobalDate = 0
    Programs <- Handlers
    MaxDocuments = 4
SPECIFICATION Spec
SYMMETRY SessionSymmetry
INVARIANTS
    NeverCollides
    AuditFollowsDocuments
PROPERTY NumbersAreABook
