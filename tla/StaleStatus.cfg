SPECIFICATION Spec
SYMMETRY SessionSymmetry
CONSTANTS
    s1 = s1
    s2 = s2
    r1 = r1
    o1 = o1
    o2 = o2
    w1 = w1
    m1 = m1
    v1 = v1
    Scale = 4
    Warehouses = {w1}
    Materials = {m1}
    Sessions = {s1, s2}
    NoSnapshot = NoSnapshot
    Requisitions = {r1}
    ItemCount = 1
    RequisitionOf <- OneItem
    Requested <- RequestedTwo
    Orders = {o1}
    LineCount = 2
    OrderOf <- TwoLines
    MaterialOf <- SameMaterial
    PriceOf <- Prices
    Suppliers = {v1}
    SupplierOf <- Supplied
    Retirable = {}
    CountRates = {3}
    MaxCounts = 0
    MaxReceipts = 3
    MaxQuantity = 2
INVARIANTS
    PoStatusDerived
