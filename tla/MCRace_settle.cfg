SPECIFICATION RaceSpec
CONSTANTS
    PIs = {p1}
    DPs = {}
    None = None
    Charge <- HybridCharge
    PartialRefunds = {40}
    MaxRefunds = 0
    Terms <- HybridTerms
    Quantities <- RaceQuantities
    Workers = {w1, w2}
    Requests <- PoolMoney
    Start = "approved"
    MaxCalls = 7
CHECK_DEADLOCK FALSE
INVARIANT SettledOnce
