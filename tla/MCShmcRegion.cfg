\* Two processes creating the same token and two attaching to it, under
\* either lock mode; ftruncate and mmap may fail and any process may die.
CONSTANTS
    c1 = c1
    c2 = c2
    a1 = a1
    a2 = a2
    NoProc = NoProc
    Creators = {c1, c2}
    Attachers = {a1, a2}
    Precreated = FALSE
    UseFlock = {FALSE, TRUE}
    CanFail = TRUE
    CanCrash = TRUE
SPECIFICATION Spec
INVARIANT ItemsRaceFree
INVARIANT LocksStayHeld
INVARIANT DeadlockOnlyByDeath
\* A process that dies holding the rwlock stops the others for good.
CHECK_DEADLOCK FALSE
SYMMETRY RoleSymmetry
