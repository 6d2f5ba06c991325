\* A log that is renamed, truncated and written in halves under two watchers.
SPECIFICATION FairSpec
CONSTANTS
    Formats = {f, g}
    FirstFormat = f
    Garbled <- MCGarbled
    MaxLines = 2
    MaxInodes = 2
    MaxTruncations = 1
    MaxTasks = 2
    MaxChanges = 1
INVARIANTS
    TypeOK
    JudgedOnceInOrder
    RegistryHoldsTheTask
PROPERTIES
    ImplementsReaders
    LinesAreJudged
    AbortedTasksEnd
\* The lines, the rotations and the changes are bounded.
CHECK_DEADLOCK FALSE
