CONSTANTS
  NUL <- MC_NUL
  Space <- MC_Space
  CharRank <- MC_CharRank
  CmdLineKey <- MC_CmdLineKey
  NonDetKeys <- MC_NonDetKeys
  ParamToRemove <- MC_ParamToRemove
  BinaryPath <- MC_BinaryPath
  InitStores <- MC_StoresCmdLast
  Behind <- MC_Behind
  HookedSymbol = "checksum"
  MapFound = TRUE
  MaxCalls = 2
  FdArg <- MC_FdArg
  InstalldArgs <- MC_InstalldArgs
SPECIFICATION Spec
INVARIANT ParseStaysInStore
CHECK_DEADLOCK FALSE
