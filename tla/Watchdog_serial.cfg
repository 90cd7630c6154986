SPECIFICATION Spec
CONSTANTS
  Timeout = 5
  Concurrent = FALSE
INVARIANTS
  TypeOK
  ExpiredMeansSilent
  FiresOncePerSilence
