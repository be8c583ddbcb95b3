SPECIFICATION Spec
CONSTANTS
  PartNum = 3
  img_size <- TailSize
  img_offset <- TailOffset
  HeaderLen = 8
  Total = 33001
  UPG_BUF_SIZE = 10000
  BootParts = {1}
  BootParamEnd = 90
  Addr <- SingleAddr
  MaxUpgrades = 1
  MaxIgnored = 0
  Plugins = {"USB"}
  Methods = {"PIECE_BY_PIECE"}
  Faults = {}
  AppMayAbort = FALSE
INVARIANTS SuccessMeansBurned
CHECK_DEADLOCK FALSE
