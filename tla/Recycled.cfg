\* A request that rolls back returns its numbers: the documented discard
\* (DrawnIsSpent) fails.
CONSTANTS
    Sessions = {s1}
    DailyKeys = {"PR", "RCV", "TXN"}
    GlobalKeys = {"MAT"}
    Dates = {1}
    GlobalDate = 0
    Programs <- Handlers
    MaxDocuments = 2
SPECIFICATION Spec
PROPERTY DrawnIsSpent
