\* A trader and the backstop at one expiry, two overlapping sweeps of batches
\* of one and of two, one fault of any kind, a crash included.
SPECIFICATION Spec
CONSTANTS
    Trader = {alice}
    Backstop = backstop
    Expiry = {e1}
    Seed = {}
    MaxVersion <- MCOnce
    MaxFeed = 1
    MaxFaults = 1
    Sweep = {s1, s2}
    BatchSizes = {1, 2}
INVARIANTS OneBatchPerPosition IndexIsExact OnlyARevertLoses
PROPERTIES MaturedIsSettled GhostsLeave
CHECK_DEADLOCK FALSE
