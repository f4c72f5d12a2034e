\* Books of one perpetual and two expiries around a price of 2 or 3, in units where
\* one contract is two quarters of the perpetual's scale: still markets and markets
\* that move up to four times.  A plan that ended goes nowhere.
SPECIFICATION Spec
CONSTANTS
    WAD = 4
    LIFT = 2
    Market = {"perps", "futures"}
    Expiry = {1, 2}
    Price = {1, 2, 3, 4, 5, 6, 7}
    Params <- MCParams
    Start <- MCStart
    Orders <- MCOrders
    MAX_POSITION_ITERATIONS = 4
    maxLotsPerLiquidationTx = 2
INVARIANTS RequirementsAgree ThresholdsBracket DeepestCloseIsFound QuietPlanFinishes BadDebtIsReal
PROPERTIES PartialCloseRestores EveryPlanEnds
CHECK_DEADLOCK FALSE
