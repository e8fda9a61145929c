CONSTANTS
    kBlockSize = 6
    kHeaderSize = 2
    RecordSizes = {0, 1, 6}
    MaxRecords = 4
    MaxAppendFails = 2
    ListKeys = {1, 2, 3}
    kMaxHeight = 2
    Readers = {r1}
    MaxReads = 2
    UserKeys = {1, 2, 3}
    NoEntry = NoEntry
    Snapshot = 3
    MaxEntries = 4
    Files = {1, 2, 3}
    Threads = {t1, t2}
    Capacity = 1
    MaxHandles = 4

SPECIFICATION Spec

INVARIANTS
    ReadsWholeRecords
    NeverInvents
    SearchMissesNothing
    OpenWhileUsed

PROPERTY ImplementsCursor

\* The log is full, the list has every key and nobody reads any more, or the
\* cache is destroyed.
CHECK_DEADLOCK FALSE
