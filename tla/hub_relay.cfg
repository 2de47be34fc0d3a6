CONSTANTS
  Conn = {c1}
  Mux = {c1}
  Sid = {s1}
  Kind = {"tcp", "udp"}
  Task = {t1, t2}
  NoTask = NoTask
  MaxSessions = 2
  MaxPerConn = 1
  Permits = 2
  Word = 8
SYMMETRY HubSymmetry
SPECIFICATION Spec
INVARIANT RelayWatched
CHECK_DEADLOCK FALSE
