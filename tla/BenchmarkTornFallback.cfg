\* A cycle whose step cannot succeed has failed: nothing more happens.
CHECK_DEADLOCK FALSE
SPECIFICATION PublicationSpec
CONSTANTS
    c1 = c1
    c2 = c2
    p1 = p1
    p2 = p2
    d1 = d1
    d2 = d2
    models = models
    metrics = metrics
    profiles = profiles
    k1 = k1
    w1 = w1
    Cycle <- MCCycle
    Republisher = {p1}
    MaxCatalog = 2
    Content <- MCContent
    Fact = {models, metrics}
    Models = {models}
    Profile = {profiles}
    Key = {k1}
    Ranks <- MCRanks
    Week = {w1}
    None = None
INVARIANT FallbackIsWhole
