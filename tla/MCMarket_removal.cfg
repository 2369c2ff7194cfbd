SPECIFICATION Spec
CONSTANTS
    MaxDeals = 2
    Owners = {o1}
    Listings = {l1}
    Campaigns = {c1}
    Files = {f1, f2, f3}
    Handlers = {h1, h2}
    None = None
    MaxCalls = 8
    MaxDeaths = 1
CHECK_DEADLOCK FALSE
INVARIANT StoreMatchesRows
INVARIANT WithdrawnStaysUnfunded
PROPERTY DealsKeepTheirSource
SYMMETRY Interchangeable
