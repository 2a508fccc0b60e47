\* Two keys, two contents; every free block is used again sooner or later.
SPECIFICATION Spec
CONSTANTS
  k1 = k1
  k2 = k2
  b1 = b1
  b2 = b2
  b3 = b3
  c1 = c1
  c2 = c2
  Keys = {k1, k2}
  Contents = {c1, c2}
  Blocks = {b1, b2, b3}
  NULL = NULL
INVARIANTS
  TypeOK
  SoleOwner
  BuffersStand
PROPERTY ImplementsBlobStore
