SPECIFICATION FairSpec
CONSTANTS
    Peer = {p1, p2, p3, p4}
    Ip = {a, b}
    NoIp = NoIp
    MaxGlobal = 3
    MaxPerIp = 2
INVARIANTS CountsExact GateCaps
PROPERTIES SlotReturned
