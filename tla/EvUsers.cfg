SPECIFICATION FairSpec
CONSTANTS
  Apps = {a1, a2}
  First = a1
  Shared = {"smc"}
  MaxDevs = 2
  MaxEvents = 2
  MaxQueue = 2
  MaxFail = 1
INVARIANTS TypeOK PointersGood
PROPERTIES EventsServed PlugEvent
CHECK_DEADLOCK FALSE
