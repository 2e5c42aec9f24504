SPECIFICATION Spec
CONSTANTS
  IntMax = 7
  Chars <- MCChars
  Numbers <- MCNumbers
  NumArith <- MCNumArith
  NumNeg <- MCNumNeg
  NumOf <- MCNumOf
  StackNr = 7
  MainChunks <- AllMain
  HostChunks <- NoReentry
  HostNames <- Host1
  HostSlots = 2
  MaxFuncs = 4
  MaxTables = 3
  PrintName <- PRINT
  NfName <- NF
  VersionName <- VERSION
  Version <- V001
INVARIANTS
  PcOfCurrentFunction
CHECK_DEADLOCK FALSE
