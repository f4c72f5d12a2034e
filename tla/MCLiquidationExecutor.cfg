\* Two accounts, one worker or two, and reads that arrive in any order.
SPECIFICATION Spec
CONSTANTS
    u1 = u1
    u2 = u2
    User = {u1, u2}
    Worker = {w1, w2}
    Pools = {{w1}, {w1, w2}}
    Level <- MCLevel
    Predicted = {u2}
    None = none
INVARIANTS OnePlanPerUser NoIdleWorkerWithWork
PROPERTIES WorstFirst WorstIsPlanned StopDrains
CHECK_DEADLOCK FALSE
