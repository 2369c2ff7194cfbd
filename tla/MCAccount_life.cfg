SPECIFICATION FairSpec
CONSTANTS
    MaxUsers = 3
    Items = {i1}
    Requests = {r1, r2}
    None = None
    MaxRequests = 3
    MaxDeaths = 1
CHECK_DEADLOCK FALSE
INVARIANT PairMovesTogether
INVARIANT RevokedEverywhere
INVARIANT OnePersonPerMailbox
PROPERTY HoldsAreKeptApart
PROPERTY SuspensionEnds
