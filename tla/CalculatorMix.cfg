\* The bounds of the instance are used up.
CHECK_DEADLOCK FALSE
SPECIFICATION CalculatorSpec
CONSTANTS
    BasisPoints = 10000
    Million = 100
    MaxSafe = 1000000
    Catalogs <- SixCatalogs
    ApiOnly = {}
    Workloads = {}
    DefaultWorkload <- SixWorkload
    TokensPerMessage = 10
    OldLinks <- SixLinks
    Positions = {9700, 9900}
    MaxVisits = 1
    MaxEdits = 2
    MaxAnswers = 1
    None = None
INVARIANT SharesInRange
