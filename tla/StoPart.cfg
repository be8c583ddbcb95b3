SPECIFICATION Spec
CONSTANTS
  Threads = {t1, t2}
  Kinds = {"nand", "nor"}
  NB = 3
  BS = 2
  Sector = 1
  Page = 2
  Lens = {1, 3}
  Offs = {3}
  MaxBad = 1
  MaxFail = 1
  MaxCalls = 2
INVARIANTS TypeOK WriteStored ReadsAsked EraseComplete
CHECK_DEADLOCK FALSE
