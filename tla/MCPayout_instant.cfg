SPECIFICATION Spec
CONSTANTS
    d1 = d1
    d2 = d2
    Deals = {d1, d2}
    Net <- NetOf
    Accounts = {a1, a2}
    Handlers = {h1, h2}
    None = None
    MaxCalls = 3
    MaxPayouts = 2
    MaxDeaths = 1
SYMMETRY Alike
CHECK_DEADLOCK FALSE
INVARIANT InstantIsBacked
INVARIANT TroubleIsTold
INVARIANT ReleaseIsAudited
