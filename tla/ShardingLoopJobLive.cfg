SPECIFICATION FairSpec
CONSTANTS
    n1 = n1
    n2 = n2
    Nodes <- MCNodes
    NTables = 1
    MaxCap = 1
    InitCnt = 1
    TTL = 2
    Free = Free
    Orphan = Orphan
PROPERTIES Drains TableServed
