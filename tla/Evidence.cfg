SPECIFICATION Spec
CONSTANTS
    RunIds = {r1, r2}
    Compactions = {c1}
    Symbols = {s1, s2}
    LastDay = 3
    Instants = {1, 5, 6, 7}
    MaxLoads = 2
    MaxJobs = 2
    Outcomes = {"HEALTHY", "DEGRADED"}
    Weekend = {1, 2}
    MinBaseline = 1
SYMMETRY RunSymmetry
INVARIANTS
    TypeOK
    FreshMeansLanded
    HealthyMeansComplete
PROPERTIES
    IndexedRunsFiled
    SyncedIndexCurrent
