CONSTANTS
    none = none
    homestead = homestead
    london = london
    randaoOne = randaoOne
    None = none
    LoadPrevRandao = randaoOne
    PreCancunForks <- MCPreCancunForks
    CancunParams <- MCCancunParams
    OsakaParams <- MCOsakaParams
    Activations = {0, 1}
    OsakaTimes = {1, 2}
    LoadMaxBlobCount = 4
    LoadTargetBlobCount = 3
    LoadMaxBlobsPerTx = 2
    LoadBlobUpdateFraction = 4
    EpochSlots = 2
    CacheOverrides = {5}
    DefaultBlobTxs = {1, 5}
    DefaultBlobBytes = {2}
    MaxTime = 2
SPECIFICATION Spec
\* A node whose genesis is refused exits; a running node at the last second
\* can only be restarted, which it need not be.
CHECK_DEADLOCK FALSE
INVARIANT
    LoadBudgetAtEveryTimestamp
