SPECIFICATION Spec
CONSTANTS
    Order = {o1, o2}
    Product = {p1}
    Seeded = {p1}
    InitStock = 3
    Quantity = {2}
    MaxQuantity = 2
    StockValue = {1}
    Budget <- BudgetFaults
SYMMETRY OrderSymmetry
INVARIANTS NoOrphanRewards CompletedIsWhole CompletionNotMissed
           UnrecordedDeductionsAreInterrupted StockIsConserved
PROPERTY ImplementsLifecycle
