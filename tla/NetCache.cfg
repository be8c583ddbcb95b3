SPECIFICATION FairSpec
CONSTANTS
  FileSize = 14
  CACHE_BUF_SIZE = 7
  PackageLen = 15
  WRITER_MAX_LEN = 3
  SEEK_BUF_SIZE = 2
  PER_SIZE = 3
  Percents = 4
  Offsets = {2, 5}
  Sizes = {1, 6}
  MaxOpens = 2
INVARIANTS TypeOK BytesInOrder NoMutualWait
PROPERTIES AbortWakesWriter
CHECK_DEADLOCK FALSE
