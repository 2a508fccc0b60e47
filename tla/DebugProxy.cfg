\* One proxy in one of two processes, and two clients.
SPECIFICATION ProxySpec
CONSTANTS
  p1 = p1
  p2 = p2
  t1 = t1
  t2 = t2
  Procs = {p1, p2}
  Changers = {t1}
  Home <- MCHome
  Reaches <- MCOwnPort
  TimeOut = 1
  MaxLogs = 1
  Crowding = FALSE
  MaxChanges = 4
  MaxCrashes = 0
  MaxClients = 2
VIEW MCNoHistory
CONSTRAINT MCOtherStays
INVARIANTS
  ProxyTypeOK
  WakeNotServed
  WorkerHasDebuger
  ServedMeansModeOn
  NoLostWake
PROPERTY ExitWindsDown
