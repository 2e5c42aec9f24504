SPECIFICATION Spec
CONSTANTS
  IntMax = 7
  Chars <- MCChars
  Numbers <- MCNumbers
  NumArith <- MCNumArith
  NumNeg <- MCNumNeg
  NumOf <- MCNumOf
  StackNr = 32
  MainChunks <- Deep
  HostChunks <- None
  HostNames <- Host1
  HostSlots = 2
  MaxFuncs = 4
  MaxTables = 3
  PrintName <- PRINT
  NfName <- NF
  VersionName <- VERSION
  Version <- V001
INVARIANTS
  StackOverflowReported
CHECK_DEADLOCK FALSE
