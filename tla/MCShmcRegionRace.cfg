\* A creator and an attacher starting together; nothing fails.
CONSTANTS
    c1 = c1
    c2 = c2
    a1 = a1
    a2 = a2
    NoProc = NoProc
    Creators = {c1}
    Attachers = {a1}
    Precreated = FALSE
    UseFlock = {FALSE}
    CanFail = FALSE
    CanCrash = FALSE
SPECIFICATION Spec
INVARIANT ReadyOnFormatted
