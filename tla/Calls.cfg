\* All keys of up to four characters with dots anywhere and prefixes of up to
\* two; a text with a parameter and one without, and the key index that is
\* not used, one that is, and the first that is too large; three tries over
\* five ticks; up to six interfaces.  A walk over parameters or interfaces
\* ends with them.
SPECIFICATION MCSpec
CONSTANTS
  v1 = v1
  v2 = v2
  Empty = Empty
  Chars = {".", "a"}
  Values = {v1, v2}
  MaxKey = 4
  MaxPrefix = 2
  MaxConfig = 2
  MaxParams = 4
  w = w
  q = q
  n1 = n1
  k1 = k1
  Words = {w, q}
  Given <- MCGiven
  PathOf <- MCPathOf
  Names = {n1}
  Keys = {k1}
  Indices = {0, 1, 11}
  NULL = NULL
  e1 = e1
  e2 = e2
  Errors = {e1, e2}
  None = None
  MaxTries = 3
  MaxTime = 5
  MaxInfs = 6
CHECK_DEADLOCK FALSE
INVARIANTS
  ConfigFromKeys
  GapsFilled
  FirstTryKept
  TotalCoversTries
  LastErrorOrFirst
  MidIsFirstFour
PROPERTY NothingHalfDone
