SPECIFICATION FairSpec
CONSTANTS
  MaxOpen = 2
  MaxGen = 3
  BufSize = 2
INVARIANTS TypeOK FeedAtRest
PROPERTIES CallsReturn FeedResumes
