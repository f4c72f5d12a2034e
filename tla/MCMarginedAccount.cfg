\* Two markets, three lots held or resting, three prices so that the orders of one
\* side can lose and gain, options sold or none, shocks in order or not.
SPECIFICATION Spec
CONSTANTS
    WAD = 10
    LIFT = 2
    Market = {perps, futures}
    Price = {2, 3, 4}
    Shocks <- MCShocks
    OptionsBook <- MCBooks
    MaxLots = 3
    MaxBalance = 3
SYMMETRY MCSymmetry
INVARIANT ImAtLeastMm
PROPERTIES FillIsReserved OnlyTheMarketLiquidates
CHECK_DEADLOCK FALSE
