\* A proxy in each of two processes, whose ports may be mixed up.
SPECIFICATION ProxySpec
CONSTANTS
  p1 = p1
  p2 = p2
  t1 = t1
  t2 = t2
  Procs = {p1, p2}
  Changers = {t1, t2}
  Home <- MCHome
  Reaches <- MCAnyPort
  TimeOut = 0
  MaxLogs = 1
  Crowding = FALSE
  MaxChanges = 4
  MaxCrashes = 0
  MaxClients = 2
SYMMETRY MCSymmetry
VIEW MCView
CONSTRAINT MCOneShutdown
INVARIANT ModeOnMeansServed
