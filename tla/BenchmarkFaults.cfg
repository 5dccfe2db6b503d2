\* A cycle that has ended, and a week nobody starts one in, are at rest.
CHECK_DEADLOCK FALSE
SPECIFICATION FairSpec
CONSTANTS
    Cycle = {c1}
    Republisher = {p1}
    Starter = {s1}
    MaxCatalog = 1
    d1 = d1
    d2 = d2
    Content <- OneContent
    Ranks <- MCRanks
    Fact = {models, metrics}
    Models = {models}
    Profile = {profiles}
    Key = {k1}
    MaxWeek = 2
    Week = {1, 2}
    None = None
    Artifacts <- MCArtifacts
    Subsets = 1
    MaxPages = 2
    FlakyPhase = {"retrieve-benchlm", "retrieve-litellm", "retrieve-lmarena-revision", "retrieve-lmarena-pages", "normalize-sources"}
    FaultKinds = {"crash", "torn_put", "io_error", "duplicate_alarm"}
    MaxFaults = 2
INVARIANTS
    TypeOK
    PublishedWasServed
    EverythingOnce
PROPERTIES
    CycleEnds
