\* Requests finish within their TTL and no credit is clawed back.
SPECIFICATION PromptSpec
CONSTANTS
    r1 = r1
    r2 = r2
    u1 = u1
    Requests = {r1, r2}
    Users = {u1}
    Owner <- OneOwner
    MaxCost = 1
    MaxBalance = 1
    SettlementAttempts = 1
    MaxSettleAttempts = 1
    RequireCredits = TRUE
    LateRequests = FALSE
    ForeignBuilds = {}
SYMMETRY Interchangeable
INVARIANTS
    EncumbranceFunded
    LostOnlyWithItsMarker
    ChargedOnce
PROPERTIES
    ImplementsCharge
CHECK_DEADLOCK FALSE
