SPECIFICATION SysSpec
CONSTANTS
  N = 1
  Sized = {1}
  MaxCmds = 1
PROPERTY NoCommandUntilWritten
