SPECIFICATION FairSpec
CONSTANTS
  Keys <- MCKeys
  Values = {NilValue, one}
  NilValue = NilValue
  NumEq <- MCNumEq
  MaxNodes = 4
INVARIANTS
  TypeOK
  NodesInPlace
  NoNodeTwice
  OneNodePerKey
  LoadAtMostOne
PROPERTIES
  ImplementsMap
  SetEnds
CHECK_DEADLOCK FALSE
