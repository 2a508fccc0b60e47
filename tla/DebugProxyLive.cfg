\* Liveness: one proxy is shut down at any moment.
SPECIFICATION ProxyFairSpec
CONSTANTS
  p1 = p1
  p2 = p2
  t1 = t1
  t2 = t2
  Procs = {p1, p2}
  Changers = {t1}
  Home <- MCHome
  Reaches <- MCOwnPort
  TimeOut = 1
  MaxLogs = 1
  Crowding = TRUE
  MaxChanges = 2
  MaxCrashes = 1
  MaxClients = 1
PROPERTY ShutdownJoins
