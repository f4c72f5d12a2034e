\* Three submissions, one replacement and one resync each, on a wallet somebody
\* else uses once and a pool that drops one transaction.
SPECIFICATION Spec
CONSTANTS
    Tx = {t1, t2, t3}
    CANCEL = cancel
    FOREIGN = foreign
    Unknown = unknown
    maxReplacements = 1
    maxNonceResyncs = 1
    MaxNonce = 6
    MaxForeign = 1
    MaxEvictions = 1
    LosesAnswers = TRUE
INVARIANTS NoNonceGap ResolvedIsOnChain LandsOncePerResync
PROPERTIES NoCollision EverySubmissionEnds
CHECK_DEADLOCK FALSE
