SPECIFICATION Spec
CONSTANTS
  PartNum = 3
  img_size <- MCSize
  img_offset <- MCOffset
  HeaderLen = 8
  Total = 400
  UPG_BUF_SIZE = 100
  BootParts = {1}
  BootParamEnd = 90
  Addr <- FreshAddr
  MaxUpgrades = 2
  Plugins = {"USB", "NET", "OTA"}
  Methods = {"PIECE_BY_PIECE", "ONE_SHOT"}
  Faults = {"alloc", "file", "setup", "read", "fread", "mtd", "malloc", "flash"}
  MaxIgnored = 1
  AppMayAbort = TRUE
INVARIANTS OneTornPerUpgrade
CHECK_DEADLOCK FALSE
