SPECIFICATION FairSpec
CONSTANTS
  MaxText = 4
  Texts <- MCTexts
  Limits = {1, 2, 5}
  Letters <- MCLetters
  Local <- AB
  IntMax = 127
  MaxBuff = 5
INVARIANTS
  TypeOK
  LexesText
PROPERTIES
  ImplementsStream
  LexingEnds
CHECK_DEADLOCK FALSE
