SPECIFICATION FairSpec
CONSTANTS
    Workers = {w1}
    RunIds = {r1, r2}
    FileNames = {r1, r2}
    Keys <- TwoKeys
    Values = {v1}
    Partitions = {1, 2}
    Dates = {1, 2}
    DateOf <- DateOfTwo
    PartitionOf <- PartitionOfTwo
    InitialStart = 1
    Overlap = 2
    Unpublished = Unpublished
    Defects = {}
    Undated = Undated
INVARIANTS
    TypeOK
    NoDuplicateKeys
    RunsReconcile
    CheckpointBacked
    CheckpointCovers
PROPERTIES
    PublishedRowsArrive
    CheckpointMonotonic
