SPECIFICATION Spec
CONSTANTS
  Memory <- MCMemory
  MaxStrs = 4
  MaxNr = 3
INVARIANTS
  TypeOK
  OneStrPerContents
PROPERTIES
  ImplementsIntern
CHECK_DEADLOCK FALSE
