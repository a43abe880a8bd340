CONSTANTS
    gov = gov
    f1 = f1
    f2 = f2
    g1 = g1
    t1 = t1
    NULL = NULL
    GovulnersFeed = gov
    GovulnersGroup = g1
    GovulnersTier = t1
    Feeds <- MCFeeds
    Groups <- MCGroups
    Tiers <- MCTiers
    ConfigChoices <- MCConfigChoices
INIT Init
NEXT Next
INVARIANT FeedErrorsIsolated
