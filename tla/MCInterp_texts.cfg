SPECIFICATION ProgramSpec
CONSTANTS
  IntMax = 7
  Chars <- MCChars
  Numbers <- MCNumbers
  NumArith <- MCNumArith
  NumNeg <- MCNumNeg
  NumOf <- MCNumOf
  StackNr = 20
  MainChunks = {}
  HostChunks = {}
  HostNames = {}
  HostSlots = 0
  MaxFuncs = 2
  MaxTables = 0
  PrintName <- PRINT
  NfName <- NF
  VersionName <- VERSION
  Version <- V001
  Tokens <- MCTokens
  Statements <- MCStatements
  MaxStatements = 3
  MaxConstNr = 10
  MaxVarNr = 3
INVARIANTS
  DoesWhatItSays
  VariablesKeepValues
PROPERTIES
  TextsRun
CHECK_DEADLOCK FALSE
