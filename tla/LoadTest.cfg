SPECIFICATION LoadSpec
CONSTANTS
    Order = {o1, o2}
    Product = {p1}
    Seeded = {p1}
    InitStock = 1
    Quantity = {1}
    MaxQuantity = 1
    StockValue = {1}
    Budget <- OneCrash
    Jobs = {o1, o2}
    Target = p1
SYMMETRY JobSymmetry
INVARIANTS DrainedIsDecided VerdictIsRight
