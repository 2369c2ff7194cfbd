SPECIFICATION Spec
CONSTANTS
    Owners = {a, b}
    Orders = {o1}
    None = None
    Programs <- BothPrograms
    Hosts = {"shopify", "wix"}
    SaleAmounts = {0, 120}
    TopUps = {t1}
    TopUpAmount = 40
    Handlers = {h1, h2}
    MaxSales = 2
SYMMETRY Interchangeable
CONSTRAINT Apart
CHECK_DEADLOCK FALSE
INVARIANT TypeOK
INVARIANT EachOrderCountsOnce
INVARIANT OwnersPaidOnce
PROPERTY DecidedSalesStayDecided
PROPERTY MoneyLeavesInSettlement
