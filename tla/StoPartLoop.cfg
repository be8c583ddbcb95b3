SPECIFICATION FairSpec
CONSTANTS
  Threads = {t1}
  Kinds = {"nand"}
  NB = 3
  BS = 2
  Sector = 1
  Page = 2
  Lens = {1, 3}
  Offs = {3}
  MaxBad = 1
  MaxFail = 0
  MaxCalls = 2
PROPERTY NoDeathLoop
CHECK_DEADLOCK FALSE
