CONSTANTS
    t1 = t1
    t2 = t2
    t3 = t3
    sendRaw = sendRaw
    sendRawSync = sendRawSync
    sendRawConditional = sendRawConditional
    other = other
    Threads <- MCTwoThreads
    Methods <- MCMethods
    Env <- MCEnv
    DefaultLimit <- MCDefaultLimit
    BatchLimitEnv <- MCBatchLimitEnv
    DefaultBatchMb = 2
    MiB = 2
    Batches <- MCBatches
    Unguarded = other
    UsizeMax = 3
    MaxRequests = 1
SPECIFICATION Spec
\* The tasks serve one request (a call or a batch) each and then stay idle.
CHECK_DEADLOCK FALSE
INVARIANTS
    GuardedWorkBounded
PROPERTIES
    GateContract
