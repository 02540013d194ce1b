CONSTANTS
    s1 = s1
    s2 = s2
    randaoOne = randaoOne
    randaoZero = randaoZero
    noBest = noBest
    Senders <- MCSenders
    PrevRandaos <- MCPrevRandaos
    LoadPrevRandao = randaoOne
    NoBest = noBest
    Timestamps <- MCTimestamps
    TxGas <- MCTxGas
    Tips <- MCTips
    SealExtra <- MCSealExtra
    Depth = 2
    GasLimit = 3
    LoadMaxBlobCount = 3
    MaxBlobsPerTx = 2
    OsakaMaxBlobCount = 2
    TxSizes = {1}
    SizeOverhead = 1
    MaxRlpBlockSize = 3
    PragueTime = 0
    OsakaTime = 2
    BestFees = {2}
SPECIFICATION Spec
CHECK_DEADLOCK FALSE
INVARIANT
    BuiltPayloadDeliverable
