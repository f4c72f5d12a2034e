\* No fault and one sweep at a time: does the index find every position?
SPECIFICATION Spec
CONSTANTS
    Trader = {alice}
    Backstop = backstop
    Expiry = {e1}
    Seed = {}
    MaxVersion <- MCOnce
    MaxFeed = 1
    MaxFaults = 0
    Sweep = {s1}
    BatchSizes = {2}
INVARIANT EveryAggregateIsIndexed
CHECK_DEADLOCK FALSE
