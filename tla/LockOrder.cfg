SPECIFICATION Spec
CONSTANTS
    Sessions = {s1, s2, s3}
    Receipts <- WholeReceipts
    Counts <- StockCounts
    Cancellable = {3}
    MaterialOf <- LineMaterials
    Dates = {1}
INVARIANTS
    NoCrossWait
PROPERTIES
    RequestsFinish
