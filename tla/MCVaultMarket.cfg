\* Two traders and the backstop, marks that move by one or two units.
SPECIFICATION MarketSpec
CONSTANTS
    Trader = {a, b}
    Venue = {v}
    FUND = fund
    BACKSTOP = backstop
    Amount = {1, 2}
    DebtCap = {1}
    Requirement = {0}
    Engine = {pme}
    PinnedEngine = {pme}
    NoEngine = none
    UnwindParam = {0}
    MaxCollateral = 2
    MaxSupply = 3
    MaxBadDebt = 2
    MaxCapital = 1
    MaxOpen = 2
SYMMETRY Symmetry
INVARIANTS BooksExplainFund TimingDebtIsBacked
