\* Autopay and reversals, one at a time, with the fairness of the sweep and of
\* Stripe's deliveries.
SPECIFICATION LiveSpec
CONSTANTS
    Keys = {k1}
    Cards = {visa}
    NoCard = NoCard
    Sweeps = {s1}
    MaxStrikes = 2
    CardsMove = FALSE
INVARIANT
    CreditedOnce
PROPERTIES
    ClaimsEnd
    ReversalHappens
CHECK_DEADLOCK FALSE
