SPECIFICATION FairSpec
CONSTANTS
    Folders <- MCFolders
    Strategies = {"flat", "hierarchy"}
    MergeFanIn = 2
    BatchSize = 2
INVARIANTS
    MergeIsDeterministic
    SortedFilesMergeInOrder
    EndOfStreamIsLast
PROPERTY
    RunReturns
CHECK_DEADLOCK FALSE
