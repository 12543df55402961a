CONSTANTS
  Services <- MCServices
  MaxFd = 12
  Builds <- MCBuilds
  ListenLines <- MCListenLines
  ModuleLines <- MCModuleLines
  MaxLines = 3
  MaskNames <- MCMaskNames
  Formats <- MCFormats
  Now <- MCNow
SPECIFICATION StartupSpec
INVARIANTS
  StartupTypeOK
  ListenersAreAsked
  OnlyTheConsoleFails
  ConnectionsFindTheirProtocols
  StartsAreLogged
PROPERTIES
  StartsOrExits
CHECK_DEADLOCK FALSE
