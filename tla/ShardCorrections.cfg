SPECIFICATION Spec
CONSTANTS
    Universe <- TwoSymbols
    ShardSize = 2
    Overlap = 2
    LastDay = 4
    MonthOf <- TwoByTwo
    Late = {"A"}
    Revised = {"B"}
    MaxCorrections = 1
    Faulty = {}
    MaxBroken = 1
    Daily = TRUE
INVARIANTS
    ReplaySafe
