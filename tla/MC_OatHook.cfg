CONSTANTS
  NUL <- MC_NUL
  Space <- MC_Space
  CharRank <- MC_CharRank
  CmdLineKey <- MC_CmdLineKey
  NonDetKeys <- MC_NonDetKeys
  ParamToRemove <- MC_ParamToRemove
  BinaryPath <- MC_BinaryPath
  InitStores <- MC_StoresART
  Behind <- MC_Behind
  HookedSymbol = "getter"
  MapFound = TRUE
  MaxCalls = 2
  FdArg <- MC_FdArg
  InstalldArgs <- MC_InstalldArgs
SPECIFICATION Spec
INVARIANT TypeOK
INVARIANT SpoofPreservesStore
INVARIANT ParseStaysInStore
INVARIANT CmdLineRestored
PROPERTY RebuildFitsRegion
CHECK_DEADLOCK FALSE
