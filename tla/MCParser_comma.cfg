SPECIFICATION Spec
CONSTANTS
  Tokens <- CallTokens
  Texts <- CallTexts
  MaxConstNr = 30000
  MaxVarNr = 30000
INVARIANTS
  CommaSeparatesArguments
CHECK_DEADLOCK FALSE
