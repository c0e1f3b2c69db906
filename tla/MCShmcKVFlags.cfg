CONSTANTS
    k1 = k1
    k2 = k2
    k3 = k3
    NoKey = NoKey
    Keys <- MCKeys
    KeyLen <- MCKeyLen
    Hash <- MCHash
    Vals <- MCVals2
    HdrSize = 2
    ItemSizeMin = 1
    ItemSizeMax = 7
    FactorNum = 2
    FactorDen = 1
    AlignBytes = 1
    NBuckets = 1
    MemLimit = 19
    EvictToFree = FALSE
    DefaultCounter = TRUE
    Flags = {0, 1}
    Deltas = {1}
    BufSizes = {0}
    CounterLen = 3
    CounterMod = 3
SPECIFICATION Spec
PROPERTY KVRefinement
VIEW RegionView
