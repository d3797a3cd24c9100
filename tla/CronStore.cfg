CONSTANTS
  NoFile = NoFile
  Torn = Torn
  MaxVersion = 3
  MaxFaults = 3
  MaxKills = 2
SPECIFICATION StoreSpec
CHECK_DEADLOCK FALSE
INVARIANTS StoreTypeOK AlwaysLoads Recoverable
