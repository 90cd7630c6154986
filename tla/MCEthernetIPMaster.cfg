SPECIFICATION Spec
CONSTANT N = 3
INVARIANTS
  TypeOK
  IInv
  ManagerExclusive
  ThreadNeverOverwritten
PROPERTIES
  StopLeavesNoneConnected
  FailureIsPermanent
  StopCompletes
  EveryDeviceServed
  ImplementsScannerProtocol
