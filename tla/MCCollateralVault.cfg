\* One trader whose margin requirement moves, two engines of which one is not
\* this vault's, parameters in and out of bounds: the controls.
SPECIFICATION Spec
CONSTANTS
    Trader = {a}
    Venue = {v}
    FUND = fund
    BACKSTOP = backstop
    Amount = {0, 1, 2}
    DebtCap = {0, 1}
    Requirement = {0, 1, 9}
    Engine = {pme, stray}
    PinnedEngine = {pme}
    NoEngine = none
    UnwindParam = {2500, 2501}
    MaxCollateral = 2
    MaxSupply = 3
    MaxBadDebt = 1
    MaxCapital = 1
INVARIANTS NoUnguardedDebt Backing FundEmptyWhileInDebt SupplyIsSumOfBalances
PROPERTIES ImplementsPool
