SPECIFICATION Spec
CONSTANTS
    Caller = {c1, c2}
    Kind = {"tcp", "udp"}
    Chan = {m1, m2}
    NoCaller = NoCaller
    NoChan = NoChan
SYMMETRY Alike
INVARIANTS OneChannel NoLeftovers ResponseKept DeadChannelEmpty
CHECK_DEADLOCK FALSE
