SPECIFICATION RaceSpec
CONSTANTS
    PIs = {p1, p2}
    DPs = {d1}
    None = None
    Charge <- HybridCharge
    PartialRefunds = {40}
    MaxRefunds = 1
    Terms <- HybridTerms
    Quantities <- RaceQuantities
    Workers = {w1}
    Requests <- Everything
    Start = "awaiting_approval"
    MaxCalls = 11
CHECK_DEADLOCK FALSE
INVARIANT ChargedOnce
INVARIANT OwnRefundSurvivesCrash
