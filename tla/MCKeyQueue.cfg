SPECIFICATION Spec
CONSTANTS
  Words <- MCWords
  SpaceWords <- MCSpaceWords
  BufferStart = 4
  Capacity = 3
INVARIANTS
  TypeOK
  RingConsistent
PROPERTY
  ImplementsDeque
