SPECIFICATION FairSpec
CONSTANTS
    Order = {o1}
    Product = {p1}
    Seeded = {}
    InitStock = 1
    Quantity = {1, 2}
    MaxQuantity = 1
    StockValue = {0, 1}
    Budget <- BudgetLive
PROPERTIES PublishedIsDecided DeletedProductCancels StopCompletes
