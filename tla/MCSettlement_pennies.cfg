SPECIFICATION WalkSpec
CONSTANTS
    PoolTerms <- MCPoolTerms
    AffiliatePrograms <- MCAffiliatePrograms
    Commissions = {1, 4}
    MaxViews = 40
    MaxEarned = 14
CHECK_DEADLOCK FALSE
INVARIANT SplitsLoseNoPenny
