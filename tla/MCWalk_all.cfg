\* A routed model on two providers, either of which the customer may have attached,
\* the first with a fallback; every failure class.
SPECIFICATION Spec
CONSTANTS
    Definitions <- TwoProviders
    Keys = {"a", "b"}
    Attachable = {"A", "B"}
    OptedIn = {"A"}
    HouseKeys = {"A", "B"}
    Unable = {"b"}
    Routed = TRUE
    Answers = {"limited", "retryable", "accountRefused", "refused", "tooLong", "tooLongLimited", "unattested"}
    MaxOthers = 1
INVARIANTS
    RetentionFailureReported
    DispatchesAllowed
PROPERTIES
    NearerToItsEnd
    KeepsPromise
CHECK_DEADLOCK FALSE
