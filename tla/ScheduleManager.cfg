\* Three requests share two addresses, so that one is used again.
\* The requests are all made at some point and nothing is left to do.
SPECIFICATION FairSpec
CONSTANTS
  r1 = r1
  r2 = r2
  r3 = r3
  a1 = a1
  a2 = a2
  Requests = {r1, r2, r3}
  Memory = {a1, a2}
  NULL = NULL
CHECK_DEADLOCK FALSE
INVARIANTS
  CalledOnce
  HandlesOwnTimers
PROPERTIES
  EveryCallbackCalled
  ImplementsCallbacks
