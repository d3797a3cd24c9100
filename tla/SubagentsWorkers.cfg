CONSTANTS
  Messages = {m1, m2}
  Subs = {t1}
  Sessions = {s1}
  NoRun = NoRun
  Workers = 2
  MaxIterations = 2
  MaxToolFailures = 1
  Nested = FALSE
  EarlyArchive = FALSE
SPECIFICATION FairSpec
CHECK_DEADLOCK FALSE
PROPERTIES RunEnds
