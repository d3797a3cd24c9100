CONSTANTS
  Sessions = {s1, s2}
  Procs = {p1, p2}
  Handles = {h1, h2}
  Turns = {t1, t2}
  NoSession = NoSession
  NoHandle = NoHandle
  NoTurn = NoTurn
  MaxSessions = 1
SPECIFICATION Spec
INVARIANTS TypeOK WithinLimit OneTurn NoOrphanRuntime
PROPERTIES CloseCancelsFirst
CHECK_DEADLOCK TRUE
