SPECIFICATION FairSpec
CONSTANTS
  Tokens <- MCTokens
  Texts <- MCTexts
  MaxConstNr = 2
  MaxVarNr = 3
INVARIANTS
  TypeOK
  EmittedOperandsLive
  StatementsBalanced
  ParsedCodeWellFormed
PROPERTIES
  ParsingEnds
CHECK_DEADLOCK FALSE
