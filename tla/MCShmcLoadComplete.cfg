CONSTANTS
    BufferSize = 4
    Files <- MCFiles
    SetResults = {"OK", "NOMEMORY"}
SPECIFICATION Spec
INVARIANT LoadComplete
