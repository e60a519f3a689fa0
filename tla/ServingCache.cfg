SPECIFICATION Spec
CONSTANTS
    Clients = {c1, c2}
    Endpoints = {securities, breadth}
    Unasked = Unasked
    MaxEntries = 2
    MaxStamp = 3
    MaxRequests = 5
SYMMETRY ClientSymmetry
INVARIANTS
    TypeOK
    AnswersCurrent
    CacheAccounted
\* Clients need not ask for anything more.
CHECK_DEADLOCK FALSE
