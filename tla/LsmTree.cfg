SPECIFICATION Spec
CONSTANTS
    Keys <- MCKeys
    kNumLevels = 3
    kMaxMemCompactLevel = 1
    kL0_CompactionTrigger = 2
    MaxBytesForLevel <- MCMaxBytesForLevel
    MaxOutputFileSize = 1
    MaxGrandParentOverlap = 1
    ExpandedLimit = 4
    WriteBufferSize = 2
    kL0_StopWritesTrigger = 3
    MaxSequence = 4
    MaxSnapshots = 1
INVARIANTS
    ReadsTheLatest
    NewerAbove
    LevelsAreDisjoint
PROPERTY
    CompactionsSink
CHECK_DEADLOCK FALSE
