SPECIFICATION Spec
CONSTANTS
    Columns <- MCColumns
    BufferSize = 34
    RowSize = 8
    ChunkSize = 4
    MaxChunks = 3
INVARIANTS
    TypeOK
    RightDriverPasses
    GreenMeansWritten
PROPERTIES
    TestsEnd
CHECK_DEADLOCK FALSE
