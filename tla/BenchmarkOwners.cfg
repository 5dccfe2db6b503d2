\* A cycle that has ended, and a week nobody starts one in, are at rest.
CHECK_DEADLOCK FALSE
SPECIFICATION Spec
CONSTANTS
    Cycle = {c1, c2}
    Republisher = {}
    Starter = {s1}
    MaxCatalog = 1
    d1 = d1
    d2 = d2
    Content <- OneContent
    Ranks <- MCRanks
    Fact = {models}
    Models = {models}
    Profile = {profiles}
    Key = {k1}
    MaxWeek = 2
    Week = {1, 2}
    None = None
    Artifacts <- OneArtifact
    Subsets = 1
    MaxPages = 1
    FlakyPhase = {}
    FaultKinds = {"crash"}
    MaxFaults = 1
SYMMETRY CycleSymmetry
INVARIANTS
    CheckpointIsOwn
PROPERTIES
    KeepsProtocol
