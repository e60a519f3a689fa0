SPECIFICATION SeededQuietSpec
CONSTANTS
    Workers = {w1}
    RunIds = {r3}
    CompactionIds = {m1, m2}
    FileNames = {r1, r2, r3, m1, m2}
    First = r1
    Second = r2
    Keys <- ThreeSymbols
    Values = {v1, v2}
    Partitions = {1}
    Dates = {1}
    DateOf <- SameDay
    PartitionOf <- SameMonth
    InitialStart = 1
    Overlap = 1
    Unpublished = Unpublished
    Defects = {Undated}
    Undated = Undated
CONSTRAINT BackfillsOnly
INVARIANTS
    CTypeOK
    UnlockedPartitionsComplete
    RecordedArchivesComplete
    DegradedRunsDiagnosed
PROPERTIES
    KeptSpec
