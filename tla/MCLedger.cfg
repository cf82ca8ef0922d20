\* Checkout, reversals, automatic recharge, redemption tax and the output-size
\* estimator, one at a time.
SPECIFICATION LedgerSpec
CONSTANTS
    Users = {"u"}
    Intents = {"pi1", "pi2"}
    Payer <- OnePayer
    Credit <- TwoPurchases
    Objects = {"dp1", "ch1", "dp2"}
    Reverses <- TheirReversals
    Disputes = {"dp1", "dp2"}
    Events = {"refundedHalf", "refundedAll", "disputed", "disputedHalf"}
    About <- TheirObjects
    Cents <- TheirCents
    Buyers = {u1}
    Credits = {10000, 10047}
    Taxes = {625}
    Instances = {s1}
    Handlers = {p1, p2}
    Elsewhere = elsewhere
    NotYet = notYet
    SessionLife = 1
    AsyncLife = 1
    RetryWindow = 0
    ReuseLife = 1
    Retention = 3
    Batch = 1
    MaxSessions = 2
    LastTick = 4
    Keys = {p1, p2}
    Cards = {visa, amex}
    NoCard = None
    Sweeps = {s1}
    MaxStrikes = 2
    CardsMove = TRUE
    NoFigure = None
    Spenders = {u1}
    TaxSweeps = {p1, p2}
    Opening = 70
    Amounts = {60}
    Topup = 60
    Cent = 10
    TaxFigures = {5, 12}
    MaxUsage = 2
    MaxDeposits = 2
    MaxCrashes = 1
    Segments = {p1, p2}
    Cells <- TheirCells
    Owner <- TheirOwner
    Window = 1
    UserWindow = 1
    RowLimit = 2
    SegmentLimit = 2
    UserLimit = 3
    HitClamped = 1
    HitOf = 1
    MaxCells = 1
    MaxPending = 1
    Measures <- OneMeasure
    Losses = {2, 3}
    LastEstimatorTick = 2
    MaxRows = 2
    MaxRestarts = 1
    u1 = u1
    p1 = p1
    p2 = p2
    visa = visa
    amex = amex
    s1 = s1
    None = None
SYMMETRY Interchangeable
INVARIANTS
    ReversedOnce
    AcknowledgedReversalHolds
    CollectedIsKept
    TaxAccounted
    LossesConsulted
    CreditedAsSold
    SoldIsHonoured
CHECK_DEADLOCK FALSE
