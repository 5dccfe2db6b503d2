\* A cycle whose step cannot succeed has failed; the cycles of the instance run out.
CHECK_DEADLOCK FALSE
SPECIFICATION TablesSpec
CONSTANTS
    c1 = c1
    c2 = c2
    p1 = p1
    p2 = p2
    d1 = d1
    d2 = d2
    models = models
    metrics = metrics
    profiles = profiles
    k1 = k1
    w1 = w1
    Cycle <- MCCycle
    Republisher <- MCRepublisher
    MaxCatalog = 2
    Content <- MCContent
    Fact = {models, metrics}
    Models = {models}
    Profile = {profiles}
    Key = {k1}
    Ranks <- MCRanks
    Week = {w1}
    None = None
    BenchLm <- MCBenchLm
    Public = "public"
    Subsets <- MCSubsets
    PageCount <- MCPageCount
    MaxGeneration = 2
    MaxCycle = 2
    MaxAttempts = 2
    MaxFaults = 1
SYMMETRY AttemptSymmetry
INVARIANTS
    OneViewIsServed
    PublishedIsComplete
    NeverTorn
    CandidateIsWhole
PROPERTIES
    CandidateCacheSurvives
    WeekOnlyGrows
    ImplementsView
