CONSTANTS
  Conn = {c1}
  Mux = {}
  Sid = {s1}
  Kind = {"tcp", "udp"}
  Task = {t1, t2}
  NoTask = NoTask
  MaxSessions = 1
  MaxPerConn = 1
  Permits = 2
  Word = 8
SYMMETRY HubSymmetry
SPECIFICATION Spec
INVARIANTS QuotaExact WtSessionOwned QuotaWithinLimit
CHECK_DEADLOCK FALSE
