CONSTANTS
    t1 = t1
    t2 = t2
    t3 = t3
    sendRaw = sendRaw
    sendRawSync = sendRawSync
    sendRawConditional = sendRawConditional
    other = other
    Threads <- MCThreads
    Methods <- MCMethods
    Env <- MCEnv
    DefaultLimit <- MCDefaultLimit
    BatchLimitEnv <- MCBatchLimitEnv
    DefaultBatchMb = 2
    MiB = 2
    Batches <- MCNoBatches
    Unguarded = other
    UsizeMax = 3
    MaxRequests = 2
SPECIFICATION Spec
\* The tasks serve MaxRequests calls each and then stay idle.
CHECK_DEADLOCK FALSE
INVARIANTS
    ExactAccounting
    CounterBounded
PROPERTIES
    CountersDrain
