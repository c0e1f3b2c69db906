\* A client that pipelines two gets and reads nothing meanwhile; epoll_ctl
\* never fails, so every close is the client's doing or onWrite's.
CONSTANTS
    ReqHeaderSize = 5
    Requests <- MCRequests
    StoreCmds = {"set"}
    MaxRequests = 2
    SndBuf = 3
    HdrLen = 1
    TailLen = 1
    ValueLens = {1}
    StatsLen = 2
    Junk = JunkByte
    EpollCanFail = FALSE
    JunkByte = JunkByte

SPECIFICATION Spec

\* A closed connection takes no more steps.
CHECK_DEADLOCK FALSE

INVARIANT ClosesOnlyOnPeer
