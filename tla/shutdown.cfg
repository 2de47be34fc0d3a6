CONSTANTS
  Conn = {c1}
  Mux = {}
  Sid = {s1}
  Kind = {"tcp", "udp"}
  Task = {t1}
  NoTask = NoTask
  MaxSessions = 1
  MaxPerConn = 1
  Permits = 2
  Word = 8

SPECIFICATION ShutdownSpec
PROPERTIES CancelDrains ShutdownDrains ShutdownEnds
CHECK_DEADLOCK FALSE
