SPECIFICATION Spec
CONSTANTS
    Servers = {"a"}
    Conns = {"c"}
    MaxStarts = 2
CHECK_DEADLOCK FALSE
INVARIANTS TypeOK EventNotLost
PROPERTIES DeadLeaves WatcherEnds
