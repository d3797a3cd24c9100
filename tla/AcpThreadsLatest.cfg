CONSTANTS
  Last = 3
  Workers = 1
  Thread = s1
  Handles = {h1}
  Turns = {t1, t2}
  NoSession = NoSession
  NoHandle = NoHandle
  NoTurn = NoTurn
SPECIFICATION Spec
INVARIANT LatestIsServed
CHECK_DEADLOCK FALSE
