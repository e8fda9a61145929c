\* Two writers, one of which syncs, a memtable of one entry, five writes,
\* crashes, closings, failures and iterators in all.
CONSTANTS
    Writers = {"w1", "w2"}
    SyncWriters = {"w1"}
    WriteBufferSize = 0
    MaxGroup = 2
    kL0_CompactionTrigger = 2
    kL0_StopWritesTrigger = 3
    MaxSteps = 5
SPECIFICATION Spec
INVARIANTS
    TypeOK
    
    LiveFilesExist
    SequencesUnique
CHECK_DEADLOCK FALSE
