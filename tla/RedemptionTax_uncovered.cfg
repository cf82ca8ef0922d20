\* A settle that the collection of a tax leaves short.
SPECIFICATION TaxSpec
CONSTANTS
    NoFigure = NoFigure
    Spenders = {u1}
    TaxSweeps = {w1, w2}
    Opening = 70
    Amounts = {60}
    Topup = 60
    Cent = 10
    TaxFigures = {5, 12}
    MaxUsage = 2
    MaxDeposits = 2
    MaxCrashes = 1
INVARIANTS
    SettleCovered
CHECK_DEADLOCK FALSE
