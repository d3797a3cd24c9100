CONSTANTS
  Messages = {m1, m2}
  Subs = {t1, t2}
  Sessions = {s1}
  NoRun = NoRun
  Workers = 1
  MaxIterations = 3
  MaxToolFailures = 1
  Nested = TRUE
  EarlyArchive = FALSE
SPECIFICATION FairSpec
CHECK_DEADLOCK FALSE
INVARIANTS TypeOK WaitsForSomething
PROPERTIES IsDelivery RunEnds
