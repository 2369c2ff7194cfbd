SPECIFICATION Spec
CONSTANTS
    MaxReqs = 3
    Listings = {l1, l2}
    Files = {f1}
    Handlers = {h1, h2}
    None = None
    MaxCalls = 7
    MaxDeaths = 1
CHECK_DEADLOCK FALSE
INVARIANT BadgeMatchesGates
INVARIANT EvidenceOnlyWhilePending
