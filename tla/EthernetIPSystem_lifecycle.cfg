SPECIFICATION SysSpec
CONSTANTS
  N = 2
  Sized = {1, 2}
  MaxCmds = 1
INVARIANTS
  SysTypeOK
  InactiveMeansStopped
  ActiveMeansCycling
  CommandsReachTheirDevice
  PipelineCausal
PROPERTIES
  NoWayBack
  RoundTrip
