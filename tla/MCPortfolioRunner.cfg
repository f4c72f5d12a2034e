\* One market of either kind or two together, moves, faults and late logs; one level
\* a side.  The loop never stops, so it must never be stuck.
SPECIFICATION LoopSpec
CONSTANTS
    tick = 2
    levelSpacingTicks = 1
    staleBandAllowance = 2
    staleSizeAllowance = 20
    quantityScale = 1
    urgentRequoteThresholdTicks = 2
    quarantineThreshold = 2
    sizes <- MCSizes
    Scenarios <- MCScenarios
    VenueOf <- MCVenueOf
    Cached <- MCCached
    Quotes <- MCQuotes
PROPERTIES
    PlanNeverCrosses
    QuotesSettle
    BreachEmptiesBook
