\* The wallet is the market maker's own, the pool keeps what it takes and no answer of the
\* node is lost: only time runs out.
SPECIFICATION Spec
CONSTANTS
    Tx = {t1, t2}
    CANCEL = cancel
    FOREIGN = foreign
    Unknown = unknown
    maxReplacements = 1
    maxNonceResyncs = 1
    MaxNonce = 5
    MaxForeign = 0
    MaxEvictions = 0
    LosesAnswers = FALSE
INVARIANT LandsAtMostOnce
CHECK_DEADLOCK FALSE
