\* Two processes that send to each other and to themselves; four settings,
\* so that a queue can hold one of an ended process, one that is refused and
\* two of one name.
SPECIFICATION FairSpec
CONSTANTS
  p1 = p1
  p2 = p2
  n1 = n1
  n2 = n2
  v1 = v1
  v2 = v2
  bad = bad
  Procs = {p1, p2}
  Names = {n1, n2}
  Values = {v1, v2}
  Piped = {bad}
  Unset = Unset
  MaxSets = 4
INVARIANT LastSettingWins
PROPERTY SettingsArrive
