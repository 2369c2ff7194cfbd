SPECIFICATION Spec
CONSTANTS
    PIs = {p1}
    DPs = {d1, d2}
    None = None
    Charge <- HybridCharge
    PartialRefunds = {40}
    MaxRefunds = 1
    Terms <- HybridTerms
    Quantities <- HybridQuantities
SYMMETRY DisputesAreAlike
CONSTRAINT NothingIsMarked
CHECK_DEADLOCK FALSE
INVARIANT NeverSpendsMoreThanCollected
INVARIANT AbsorbedLossIsCounted
PROPERTY GraceWindowIsHonoured
