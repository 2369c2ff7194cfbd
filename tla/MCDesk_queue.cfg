SPECIFICATION FairSpec
CONSTANTS
    Tickets = {t1, t2}
    Disputes = {d1}
    Members = {t1}
    Reviewers = {r1, r2}
    Mails = {m1}
    Handlers = {h1, h2}
    None = None
    MaxCalls = 4
    MaxFailures = 2
CHECK_DEADLOCK FALSE
INVARIANT RecordedMeansSent
INVARIANT LastWordDecides
PROPERTY ClaimsAreExclusive
PROPERTY MailArrives
