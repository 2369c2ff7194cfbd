SPECIFICATION FairSpec
CONSTANTS
    PIs = {p1}
    DPs = {d1}
    None = None
    Charge <- FixedCharge
    PartialRefunds = {40}
    MaxRefunds = 2
    Terms <- FixedTerms
    Quantities = {}
CHECK_DEADLOCK FALSE
INVARIANT TypeOK
INVARIANT PaidOnceForVerifiedWork
INVARIANT LedgerMirrorsStripe
PROPERTY FreezeHolds
PROPERTY MovesAreLegal
PROPERTY KeepsEscrow
PROPERTY PaymentFundsDeal
PROPERTY FreezeEndsInTime
