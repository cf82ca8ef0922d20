\* A lost answer, then a replaced card.
SPECIFICATION AutopaySpec
CONSTANTS
    Keys = {k1, k2}
    Cards = {visa, amex}
    NoCard = NoCard
    Sweeps = {s1}
    MaxStrikes = 2
    CardsMove = TRUE
INVARIANT OneOpenCharge
