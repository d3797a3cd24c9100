CONSTANTS
  Users = {u1, u2}
  Warmers = {w1}
  Keeper = Keeper
  Containers = {c1, c2}
  NoContainer = NoContainer
  WarmTarget = 1
SPECIFICATION FairSpec
CHECK_DEADLOCK FALSE
INVARIANTS TypeOK Exclusive NoOrphan
PROPERTIES CloseAndExecutionsEnd
