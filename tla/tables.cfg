SPECIFICATION Spec
CONSTANTS
    Start = 8
    MaxTime = 7
    MaxOffset = 1
    MaxBack = 1
    Bearer = {b1, b2}
    AuthFrame = {f1, f2, f3}
    Forged = {f3}
    Skewed = {f2}
    NoCred = NoCred
    Stamp = {5, 8}
    Handshake = {h1, h2}
    NonceCap = 2
    AuthWindow = 3
    MaxLag = 1
    Host = {x, y}
    NoEntry = NoEntry
    Datagram = {d1, d2}
    DnsCap = 1
    Ttl = 1
    Caller = {c1, c2}
    Charge = {2, 4}
    Rate = 2
    Burst = 3
    MaxLate = 1
CHECK_DEADLOCK FALSE
INVARIANTS CacheSound  
PROPERTIES AcceptedOnce AcquireEnds
