\* One creator whose ftruncate or mmap may fail.
CONSTANTS
    c1 = c1
    c2 = c2
    a1 = a1
    a2 = a2
    NoProc = NoProc
    Creators = {c1}
    Attachers = {}
    Precreated = FALSE
    UseFlock = {FALSE}
    CanFail = TRUE
    CanCrash = FALSE
SPECIFICATION Spec
INVARIANT NoPartialRegion
