\* As LevelDB.cfg, with a smaller bound, and writers blocked by two tables.
CONSTANTS
    Writers = {"w1", "w2"}
    SyncWriters = {"w1"}
    WriteBufferSize = 0
    MaxGroup = 2
    kL0_CompactionTrigger = 2
    kL0_StopWritesTrigger = 2
    MaxSteps = 4
SPECIFICATION Spec
PROPERTIES
    WritersReturn
    Reopens
CHECK_DEADLOCK FALSE
