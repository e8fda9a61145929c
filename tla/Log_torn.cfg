CONSTANTS
    kBlockSize = 6
    kHeaderSize = 2
    RecordSizes = {0, 1, 3, 6}
    MaxRecords = 4
    MaxAppendFails = 1
SPECIFICATION LogSpec
INVARIANTS
    NoWritesLost
CHECK_DEADLOCK FALSE
