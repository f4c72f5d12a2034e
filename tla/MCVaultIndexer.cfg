\* Two vault calls share a block, so a deposit and a borrow, or a borrow and
\* its repayment, share one.
SPECIFICATION IndexSpec
CONSTANTS
    Trader = {}
    Venue = {v}
    FUND = fund
    BACKSTOP = backstop
    ZERO = zero
    Amount = {1, 2}
    DebtCap = {1}
    Requirement = {0}
    Engine = {pme}
    PinnedEngine = {pme}
    NoEngine = none
    UnwindParam = {0}
    MaxCollateral = 2
    MaxSupply = 2
    MaxBadDebt = 1
    MaxCapital = 1
    MaxTxs = 2
    UpgradeAlone = TRUE
INVARIANTS IndexedStateMatches FlowsExplainBalances
