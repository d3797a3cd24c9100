CONSTANTS
  Last = 3
  Workers = 2
  Thread = s1
  Handles = {h1}
  Turns = {t1, t2}
  NoSession = NoSession
  NoHandle = NoHandle
  NoTurn = NoTurn
SPECIFICATION FairSpec
INVARIANTS TypeOK ThreadHasRunner
PROPERTIES Settles
CHECK_DEADLOCK FALSE
