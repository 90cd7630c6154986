SPECIFICATION Spec
CONSTANTS
  Size = 3
  Fields = {{1}, {2, 3}}
  MaxWrites = 3
INVARIANTS
  TypeOK
  HeadIsNewest
PROPERTY ImplementsAtomicBuffers
