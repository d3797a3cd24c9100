CONSTANTS
  Callers = {p1, p2, p3}
  Keys = {k1, k2}
  Chans = {c1, c2, c3}
  NoChan = NoChan
SPECIFICATION QueueFairSpec
INVARIANTS QueueTypeOK NoLeftovers
PROPERTIES IsSessionLock EventuallyRuns
