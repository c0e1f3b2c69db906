CONSTANTS
    BufferSize = 4
    Files <- MCFiles
    SetResults = {"OK", "NOMEMORY"}
SPECIFICATION Spec
INVARIANT TypeOK
INVARIANT LoadInOrder
