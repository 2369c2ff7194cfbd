SPECIFICATION RaceSpec
SYMMETRY Interchangeable
CONSTANTS
    PIs = {p1, p2}
    DPs = {}
    None = None
    Charge <- FixedCharge
    PartialRefunds = {40}
    MaxRefunds = 1
    Terms <- FixedTerms
    Quantities = {}
    Workers = {w1, w2}
    Requests <- FixedMoney
    Start = "approved"
    MaxCalls = 9
CHECK_DEADLOCK FALSE
INVARIANT RaceTypeOK
INVARIANT PayoutIsEarnedOnce
INVARIANT RefundedMeansReturned
INVARIANT LedgerIsBacked
