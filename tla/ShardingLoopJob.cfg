SPECIFICATION Spec
CONSTANTS
    n1 = n1
    n2 = n2
    Nodes <- MCNodes
    NTables = 1
    MaxCap = 2
    InitCnt = 2
    TTL = 2
    Free = Free
    Orphan = Orphan
SYMMETRY Symmetry
INVARIANTS TypeOK PermitsAccounted LeaseExclusive
CHECK_DEADLOCK TRUE
