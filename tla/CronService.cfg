CONSTANTS
  Jobs = {j1}
  Ats = {2}
  Every = 1
  Backoffs <- MCBackoffs
  Timer = Timer
  Runners = {r1}
  NoJob = NoJob
  MaxNow = 4
  MaxErrors = 2
  Crashes = 1
  Operations = {"remove", "toggle", "stop"}
SPECIFICATION FairSpec
CHECK_DEADLOCK FALSE
INVARIANTS TypeOK NoOverlap OneShotOnce
PROPERTIES BackoffKept TimerServes
