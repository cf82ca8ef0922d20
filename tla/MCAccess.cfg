\* Admission, the catalog and its upkeep, the walk's ledger, keys, the authenticator's cache, sign-in and tokens, one at a time.
SPECIFICATION AccessSpec
CONSTANTS
    r1 = r1
    r2 = r2
    k1 = k1
    k2 = k2
    p1 = p1
    p2 = p2
    Browsers = {"b1"}
    Callbacks = {p1, p2}
    Subjects = {"i1", "i2"}
    Emails = {"e1", "e2"}
    NoOne = None
    StateTtl = 2
    RestartTtl = 1
    SessionTtl = 2
    LastTick = 2
    MaxLogins = 2
    Users = {u1}
    Grants = {g1}
    Minters = {p1, p2}
    Nobody = None
    MaxActive = 1
    MaxCreated = 2
    Window = 2
    GrantTtl = 2
    LastMintTick = 2
    MaxKeys = 3
    CachedKeys = {k1}
    Routers = {u1}
    Lookups = {p1, p2}
    NoEntry = None
    CacheTtl = 2
    LastCacheTick = 5
    Askers = {p1, p2}
    Empty = None
    Skew = 3
    Timeout = 2
    Lifetimes = {0, 4, 6}
    LastTokenTick = 6
    u1 = u1
    g1 = g1
    None = None
    Unlimited = Unlimited
    Unsized = Unsized
    Nothing = Nothing
    Requests = {r1, r2}
    Keys = {k1, k2}
    Shapes <- MixedShapes
    SpendCap <- Caps
    VelocityCap <- Speeds
    Limits <- SomeLimits
    Deposit = 120
    Allowance = 60
    LearnedLimit = 1
    RequireCredits = TRUE
    Disturbances = 2
    MaxRate = 9
    Absent = Absent
    Unstated = Unstated
    Files <- TierFiles
    Reserved = {"zero/burst", "zero/home"}
    SettlesFree = {"L"}
    CarriesMarks = {"A"}
    Bounds <- Asked
    Reports <- UpstreamReports
    Providers = {"A", "B"}
    Unreconcilable = {"B"}
    FiledUnder <- TheirKey
    FoundUnder <- ScannedOnly
    Spellings <- TheirNames
    Undated <- NamesUndated
    Unpublished <- NamesUnpublished
    Canonical <- NamesCanonical
    Family <- OneFamily
    Hosted = {"A"}
    Sources <- Catalogs
    Seconds <- SecondCatalogs
    Pages <- CitedPages
    Dossiers <- Brought
    Started <- FirstLanes
    Prompts = {0, 1, 2, 3, 4}
    MaxLanes = 2
    Changes = 2
    Route <- Walked
    Sells <- SoldAt
    Drawn <- Consumptions
    MaxCalls = 2
    Components = {"admission", "catalog", "upkeep", "attempts", "signin", "keys", "cache", "tokens"}
SYMMETRY Interchangeable
INVARIANTS
    SpendBounded
    AllowanceOnce
    CachedIsFresh
    SignedInAsThemselves
    ReservationCovers
    NeverBelowCost
    NeverUndercutsPin
    PublishedHonestly
    ReportsTrue
    CostsBooked
PROPERTIES
    AdmittedAsAllowed
    MintsWithinLimits
CHECK_DEADLOCK FALSE
