SPECIFICATION FairSpec
CONSTANTS
    Conn = {c1}
    Caller = {k1, k2}
    NoConn = NoConn
    Size = 1
    MaxPerConn = 1
INVARIANTS TypeOK SessionsExact
PROPERTIES RetiredCloses DeadLeavesPool RequestEnds
