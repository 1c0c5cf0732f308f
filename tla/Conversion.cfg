SPECIFICATION Spec
SYMMETRY SessionSymmetry
CONSTANTS
    s1 = s1
    s2 = s2
    r1 = r1
    o1 = o1
    o2 = o2
    w1 = w1
    m1 = m1
    v1 = v1
    Scale = 4
    Warehouses = {w1}
    Materials = {m1}
    Sessions = {s1, s2}
    NoSnapshot = NoSnapshot
    Requisitions = {r1}
    ItemCount = 2
    RequisitionOf <- TwoItems
    Requested <- RequestedTwo
    Orders = {o1, o2}
    LineCount = 2
    OrderOf <- OneLineEach
    MaterialOf <- SameMaterial
    PriceOf <- Prices
    Suppliers = {v1}
    SupplierOf <- Supplied
    Retirable = {v1}
    CountRates = {3}
    MaxCounts = 0
    MaxReceipts = 0
    MaxQuantity = 2
INVARIANTS
    ConvertedMatchesSources
    NoOverConversion
    PrStatusDerived
