\* The customer's key and its twin alone, nobody else about.
SPECIFICATION Spec
CONSTANTS
    Definitions <- OneProvider
    Keys = {"a"}
    Attachable = {"A"}
    OptedIn = {"A"}
    HouseKeys = {"A"}
    Unable = {}
    Routed = FALSE
    Answers = {"limited", "retryable", "refused"}
    MaxOthers = 0
INVARIANT
    OptInHonoured
CHECK_DEADLOCK FALSE
