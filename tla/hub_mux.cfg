CONSTANTS
  Conn = {c1}
  Mux = {c1}
  Sid = {s1, s2}
  Kind = {"tcp", "udp"}
  Task = {t1, t2}
  NoTask = NoTask
  MaxSessions = 2
  MaxPerConn = 1
  Permits = 1
  Word = 8
SYMMETRY HubSymmetry
SPECIFICATION Spec
INVARIANTS TypeOK TcpRouteOwned 
CHECK_DEADLOCK FALSE
