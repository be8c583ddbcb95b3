SPECIFICATION FairSpec
CONSTANTS
  Users = {u1, u2}
  MaxEplfd = 2
  MaxThreads = 2
  DelFirst = FALSE
INVARIANTS TypeOK
PROPERTIES EventDelivered LoopsEnd
CHECK_DEADLOCK FALSE
