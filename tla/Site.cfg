\* A page whose visitor has left and whose site is up to date is at rest.
CHECK_DEADLOCK FALSE
SPECIFICATION SiteSpec
CONSTANTS
    None = None
    All = "all"
    Offered <- MCOffered
    Pages <- MCPages
    MaxClicks = 3
    MaxTroubles = 1
    Sources = {"openrouter"}
    Window <- MCWindow
    RevisionWindow = 0
    Provider = {"p"}
    Provides <- MCProvides
    Tabs = {"t1"}
    MaxLoads = 3
    MaxNow = 1
    MaxFaults = 1
    Address = {"a", "b", "bad"}
    Valid = {"a", "b"}
    MaxSubmissions = 2
    MaxFailures = 2
    Cycle = {"c1", "c2", "c3"}
    BasisPoints = 10
    Million = 10
    MaxSafe = 12000
    Catalogs <- MCCatalogs
    ApiOnly = {2, 4}
    Workloads <- MCWorkloads
    DefaultWorkload <- MCFew
    TokensPerMessage = 2
    OldLinks <- MCOldLinks
    Positions = {0, 3, 10}
    MaxVisits = 2
    MaxEdits = 1
    MaxAnswers = 2
INVARIANTS
    ShowsWhatIsAsked
    LoadsAreTrue
    SignupIsTrue
    CalculatorIsTrue
    OneViewIsServed
PROPERTIES
    NobodyWaitsForever
    ImplementsView
