\* One streaming rung, for what a vanished client is billed.
SPECIFICATION WiresSpec
CONSTANTS
    Absent = Absent
    Blank = Blank
    Definitions <- OneProvider
    Keys = {"a"}
    Attachable = {}
    OptedIn = {}
    HouseKeys = {"A"}
    Unable = {}
    Routed = FALSE
    LiveKeys = {"a"}
    MaxOthers = 0
    Shipped <- ShippedEntries
    Files <- OperatorFiles
    Environments <- Deployments
    TierTables <- CandidateTables
    Wallets <- CustomerWallets
    Lanes <- CatalogLanes
    Routes <- BuiltRoutes
    Shapes <- RequestShapes
    Medians = {1, 9}
    ChatCalls = 3
    ChatPieces = 2
    Reports <- ChatReports
    MaxReports = 2
    BlockCalls = 2
    BlockPieces = 1
    Counters <- Snapshots
    MaxInFlight = 2
    MaxReplays = 1
    Unstated = Unstated
    Believable = 10
    MaxOpen = 2
    Components = {"walk"}
INVARIANT
    LostOutputUnbilled
CHECK_DEADLOCK FALSE
