\* The instance ends when its requests and its time are used up.
CHECK_DEADLOCK FALSE
SPECIFICATION RequestsSpec
CONSTANTS
    Endpoints = {"summary", "archived", "leaderboard", "profile", "popular", "everything", "sitemap", "comparison"}
    LastRevision = 3
    Republishers = {again}
    Members <- MCMembers
    SlugIn <- MCSlugIn
    Unreadable <- MCUnreadable
    Asked = 20
    AskedPair = {1, 2}
    Window = 1
    WeekLength = 1
    LastTime = 2
    PageSize = 1
    HistoryLimit = 2
    MaxRequests <- MCMaxRequests
    MaxFailures = 1
    None = None
    Facts <- MCRowFacts
    Top = 1000
    Limit = 2
INVARIANTS
    AnswersAreTrue
    WalksAreWhole
    BoardsAreUnderstood
PROPERTIES
    AddressesAreKept
