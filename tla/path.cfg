SPECIFICATION PathSpec
CONSTANTS
    Request = {r1, r2, r3}
    Threshold = 3
    Limit = 2
    MaxPings = 6
INVARIANTS TripsExactly DeathNeedsSilence 
PROPERTIES HalfDeadFound
