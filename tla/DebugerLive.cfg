\* Liveness: every caller returns and every process comes round to the word.
SPECIFICATION FairSpec
CONSTANTS
  p1 = p1
  p2 = p2
  t1 = t1
  t2 = t2
  Procs = {p1, p2}
  Changers = {t1}
  Home <- MCHome
  TimeOut = 1
  MaxLogs = 1
  Crowding = TRUE
  MaxChanges = 2
  MaxCrashes = 1
PROPERTIES
  ModeConverges
  CallReturns
