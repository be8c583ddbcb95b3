SPECIFICATION FairSpec
CONSTANTS
  Pieces = 3
  Modules = {"m1", "m2"}
  LastModules = {"m1"}
  Numbers = {0, 1}
  MaxReq = 4
  MaxAbort = 1
INVARIANTS TypeOK RequestComplete
PROPERTIES Collected
CHECK_DEADLOCK FALSE
