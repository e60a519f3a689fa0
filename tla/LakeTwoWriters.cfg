SPECIFICATION Spec
CONSTANTS
    Workers = {w1, w2}
    RunIds = {r1, r2}
    FileNames = {r1, r2}
    Keys <- OneDayKeys
    Values = {v1, v2}
    Partitions = {1}
    Dates = {1}
    DateOf <- DateOfOneDay
    PartitionOf <- PartitionOfOneDay
    InitialStart = 1
    Overlap = 0
    Unpublished = Unpublished
    Defects = {Undated}
    Undated = Undated
CONSTRAINT BackfillsOfOneRevision
SYMMETRY TwoWriterSymmetry
INVARIANTS
    AckedRetained
    AckedConsistent
PROPERTIES
    FinalFilesImmutable
