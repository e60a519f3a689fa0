SPECIFICATION Spec
CONSTANTS
    Months = {1}
    YearOf <- Yearly
    RowsOf <- Two
    RunIds = {r1, r2, r3}
    CompactionIds = {8, 9}
    MaxFiles = 3
    MaxBuilds = 1
    a = a
    b = b
SYMMETRY RowAndRunSymmetry
INVARIANTS
    TypeOK
    BuildsResolvable
PROPERTIES
    CatalogExact
    BuildCoversStart
