SPECIFICATION AllSpec
CHECK_DEADLOCK FALSE
CONSTANTS
    Nobody = Nobody
    Browsers = {"b1", "b2"}
    Emails = {"e1", "e2"}
    MaxMissed = 1
    PerDay = 2
    Zone = 0
    RunAt <- Noon
    FirstDay = 6
    LastDay = 8
    Ids = {"s1"}
    Values = {1, 2}
    Keep = 1
    MaxSaves = 3
    Owner = "c1"
    Count = 2
    Types = {"p"}
    Roles = {"web"}
    Runs = {"r1"}
    Paths = {1, 2}
    Raw <- Written
    Low = 1
    High = 2
    Keys = {"entry", "exit"}
    Exits = {"exit"}
    MaxGone = 1
    Tracks = {"branch", "release"}
    Pinned = {"release"}
    MaxCommit = 3
    Orders = {"order"}
    Lookups = {"read"}
    MaxTries = 3
    MaxCloses = 1
    MaxSessions = 2
    Params <- Presets
    Enabled = {"london", "asia", "ny"}
    Frame = 4
    Et = 5
    First = 92
    Last = 168
    Prices = {1, 2, 3}
    Margin = 10
    MaxTrades = 2
    Strays = TRUE
    Retention = TRUE
    MaxLog = 6
    MaxOpened = 2
    MaxLulls = 1
    MaxFulls = 0
    Callers = {"c1", "c2"}
    MaxCalls <- Calls0
    MaxFaults <- Faults0
    MaxCrashes = 1
    Editors = {"b"}
    Ticker = "ticker"
    Layout <- TwoSections
    Files = {"prefs"}
    Setups <- Rooms
    Contributors = {"m1", "m2"}
    Lists <- Chosen
    Groups = {"g1"}
    Order <- Asked
    Answers <- Articles
    Feeds <- OneFeed
    FeedLimit = 2
    NewsLimit = 2
    Grok = {"m2"}
    Queries = 2
    Retries = 1
    SearchLimit = 1
    AnalysisLimit = 2
INVARIANT AccountKept
 
 
 
INVARIANT SavedKept
INVARIANT RolesFollow
INVARIANT NewsAccounted
INVARIANT OneJob
INVARIANT BookTrue
INVARIANT HeldOpen
INVARIANT UpdateTrue
 
