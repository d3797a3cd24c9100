CONSTANTS
  Turns = {t1, t2}
  Resets = {n1}
  Told = p1
  Stored = p2
  Workers = 2
  Objects = {s1, s2}
  Inodes = {i1, i2, i3}
  MaxHistory = 2
  MaxCrashes = 2
  None = None
SPECIFICATION Spec
SYMMETRY Symmetry
CONSTRAINT Bounded
INVARIANTS TypeOK KeptOnce HistoryPaired
CHECK_DEADLOCK FALSE
