CONSTANTS
    randaoOne = randaoOne
    randaoZero = randaoZero
    LoadPrevRandao = randaoOne
    PrevRandaos <- MCPrevRandaos
    LoadMaxBlobCount = 2
    Timestamps = {0, 1}
    PragueTime = 0
    OsakaTime = 1
    MaxTime = 1
    MaxHashes = 3
    MaxCalls = 3
SPECIFICATION Spec
\* The consensus client's calls are bounded by MaxCalls; after the last one
\* only the clock and the sync status move, and they stop too.
CHECK_DEADLOCK FALSE
INVARIANTS
    LoadRulesOnAccepted

