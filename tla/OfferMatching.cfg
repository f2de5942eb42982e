SPECIFICATION FairSpec
CONSTANTS
    o1 = o1
    o2 = o2
    o3 = o3
    m1 = m1
    m2 = m2
    Offers = {o1, o2, o3}
    Matchers = {m1, m2}
    precedenceFor <- Reserved
    Configurations <- Limits
    offerMatchingTimeout = 1
    launchTokensPerInterval = 2
    MaxAnswer = 2
    MaxOps = 2
    MaxChanges = 3
CHECK_DEADLOCK FALSE
INVARIANTS
    TypeOK
    OpsAccountedFor
    RoundsGoOn
    WantedIsPublished
PROPERTIES
    EveryOfferCompleted
