\* The connection of MCMcConn.cfg inside the daemon; startup may fail and
\* one SIGTERM may come at any point.
CONSTANTS
    ReqHeaderSize = 5
    Requests <- MCRequests
    StoreCmds = {"set"}
    MaxRequests = 2
    SndBuf = 3
    HdrLen = 1
    TailLen = 1
    ValueLens = {1}
    StatsLen = 2
    Junk = JunkByte
    EpollCanFail = TRUE
    StartCanFail = TRUE
    MaxSignals = 1
    JunkByte = JunkByte

SPECIFICATION DFairSpec

INVARIANT DaemonTypeOK
INVARIANT BodyInBounds
INVARIANT BodyAssembled
PROPERTY ConnPeerGoneCloses
PROPERTY StopHonoured
