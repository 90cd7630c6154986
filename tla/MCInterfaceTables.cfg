\* A failed on_init() and a cleaned-up hardware have no next callback.
SPECIFICATION Spec
CONSTANTS
  Files <- MCFiles
  Numbers = {1, 2}
  MaxEvents = 3
INVARIANTS
  TypeOK
  HandlesLive
  InitAllOrNothing
PROPERTIES
  ReadDelivers
  CommandsGoHome
CHECK_DEADLOCK FALSE
