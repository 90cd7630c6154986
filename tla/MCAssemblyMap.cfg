SPECIFICATION Spec
CONSTANTS
  Layout <- MCLayout
  Commands <- MCCommands
  TotalSizes <- MCTotalSizes
  MaxWrites = 2
INVARIANTS
  FieldsInBuffer
  TypeOK
  BufferIsARecord
  SpareBitsStayZero
CHECK_DEADLOCK FALSE
