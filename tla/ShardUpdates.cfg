SPECIFICATION Spec
CONSTANTS
    Universe <- ThreeSymbols
    ShardSize = 2
    Overlap = 2
    LastDay = 3
    MonthOf <- TwoByTwo
    Late = {"A"}
    Revised = {"B"}
    MaxCorrections = 1
    Faulty = {"A"}
    MaxBroken = 1
    Daily = FALSE
INVARIANTS
    TypeOK
    DayComplete
    OneVersion
