\* Two models of a provider the customer may have attached, each with its fallback
\* twin; the wires of one upstream.
SPECIFICATION WiresSpec
CONSTANTS
    Absent = Absent
    Blank = Blank
    Definitions <- TwoModels
    Keys = {"a", "b"}
    Attachable = {"A"}
    OptedIn = {"A"}
    HouseKeys = {"A"}
    Unable = {}
    Routed = FALSE
    LiveKeys = {"a"}
    MaxOthers = 2
    Shipped <- ShippedEntries
    Files <- OperatorFiles
    Environments <- Deployments
    TierTables <- CandidateTables
    Wallets <- CustomerWallets
    Lanes <- CatalogLanes
    Routes <- BuiltRoutes
    Shapes <- RequestShapes
    Medians = {1, 9}
    ChatCalls = 3
    ChatPieces = 2
    Reports <- ChatReports
    MaxReports = 2
    BlockCalls = 2
    BlockPieces = 2
    Counters <- Snapshots
    MaxInFlight = 2
    MaxReplays = 1
    Unstated = Unstated
    Believable = 10
    MaxOpen = 2
    Components = {"walk", "inventory", "selection", "chat", "messages", "responses",
                  "conversation", "outbox"}
INVARIANTS
    AlwaysSettles
    DeliveryAccounted
    UsageKept
    AnswerWhole
    ArrivesWhole
    RoutedAsDeclared
PROPERTIES
    NeverTwoAnswers
    KeepsPromise
    WalkTerminates
    DebtResolved
CHECK_DEADLOCK FALSE
