CONSTANTS
    HdrSize = 64
    ItemSizeMin = 64
    ItemSizeMax = 1048576
    FactorNum = 2
    FactorDen = 1
    AlignBytes = 8
    Requests <- MCRequests
SPECIFICATION Spec
INVARIANT AcceptedHasClass
