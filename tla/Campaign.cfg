\* Every run of a script ends.
CHECK_DEADLOCK FALSE
SPECIFICATION MCSpec
CONSTANTS
    r1 = r1
    r2 = r2
    r3 = r3
    a = a
    b = b
    i1 = i1
    i2 = i2
    i3 = i3
    g1 = g1
    g2 = g2
    Run <- MCRun
    Campaign <- MCCampaigns
    Inode <- MCInode
    MaxDraftFaults = 1
    Generator <- MCGenerator
    MaxVersion = 2
    ArtifactCount = 2
    MaxBundleFaults = 2
    Model = {"m1", "m2"}
    Route = {"x", "y"}
    Snapshot <- MCSnapshots
    Response <- MCResponses
    MaxRevision = 3
    MaxBundles = 2
    MaxPrepared = 1
    None = None
SYMMETRY ScriptSymmetry
INVARIANTS
    RecordsAreTrue
    BundleIsOneVersion
    NewsIsTrue
PROPERTIES
    ImplementsOnce
