\* Every invocation ends, and a candidate is derived once.
CHECK_DEADLOCK FALSE
SPECIFICATION RefreshSpec
CONSTANTS
    i0 = i0
    i1 = i1
    i2 = i2
    Refreshes <- MCRefreshes
    LPages = 2
    MaxChanges = 1
    Lease = 1
    Window = 1
    Day = 3
    MaxClock = 5
    MaxPolls = 1
    MaxLegacyFaults = 1
    None = None
    Publications <- MCPublications
    Followed <- MCFollowed
    Spelling <- MCSpelling
    External = "external"
    Documents <- MCDocuments
    Catalogs <- MCCatalogs
    Subsets <- MCSubsets
    SubsetOrder <- MCSubsetOrder
    PageRows <- MCPageRows
    PageLength = 2
    Allowlist <- MCAllowlist
    MaxRows = 2
    MaxPartitions = 16
    PopularLimit = 3
    Absent = Absent
SYMMETRY LegacySymmetry
INVARIANTS
    RefreshIsSafe
    FactsAreWhole
PROPERTIES
    OneCheckPerDay
    LegacyKeepsView
