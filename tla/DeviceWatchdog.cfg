SPECIFICATION DevSpec
CONSTANTS
  N = 1
  Timeout = 8
  Concurrent = TRUE
INVARIANTS
  AtMostOneLateFire
PROPERTIES
  SilenceDetected
  FeedsHeal
  LostLinkReported
