\* Two threads that set two functions, and room for two streams, the second
\* being the one that two threads make at once.
SPECIFICATION HookSpec
CONSTANTS
  t1 = t1
  t2 = t2
  h1 = h1
  h2 = h2
  s1 = s1
  s2 = s2
  Setters = {t1, t2}
  Hooks = {h1, h2}
  Streams = {s1, s2}
  NULL = NULL
SYMMETRY MCHookSymmetry
INVARIANTS
  HookTypeOK
  HookAlive
  HookNotNull
  HookForgotten
