\* Three processes, so that one can construct while two meet in the object;
\* two types, so that the constructor can be half way.
SPECIFICATION Spec
CONSTANTS
  p1 = p1
  p2 = p2
  p3 = p3
  n1 = n1
  n2 = n2
  Procs = {p1, p2, p3}
  Types = {live, vod}
  live = live
  vod = vod
  Ports = {n1, n2}
  None = None
SYMMETRY MCSymmetry
INVARIANTS
  PortTypeOK
  PortsStand
