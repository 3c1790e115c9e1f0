SPECIFICATION Spec
CONSTANTS
    c1 = c1
    c2 = c2
    Services = {"a", "b"}
    Conns = {"a1", "a2", "a3", "b1", "b2"}
    Attr <- MCAttr
    ReadySets <- MCReadySets
    Calls = {c1, c2}
    Groups = {"g", "h"}
    Word = 16
    MaxBuilds = 2
    MaxCalls = 4
    Addrs = {"x", "y", "z"}
    VirtualNodeCnt = 2
    HashSize = 5
    Hash <- MCHash
SYMMETRY CallSymmetry
CHECK_DEADLOCK FALSE
INVARIANTS TypeOK WeightConserved  RingExact
PROPERTIES RingMoves
