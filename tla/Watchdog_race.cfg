SPECIFICATION Spec
CONSTANTS
  Timeout = 2
  Concurrent = TRUE
INVARIANT ExpiredMeansSilent
