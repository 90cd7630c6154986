SPECIFICATION SysSpec
CONSTANTS
  N = 1
  Sized = {}
  MaxCmds = 1
INVARIANT OutputSizeComputed
