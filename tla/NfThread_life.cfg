SPECIFICATION FairSpec
CONSTANTS
  Failing = {"twin", "stack", "registry", "api", "buff", "func"}
  Messages = {m1, m2}
  NoMessage = NoMessage
  MaxFrames = 12
INVARIANTS
  TypeOK
  CurrentRecoverPoint
  ErrorReported
  BufferOnlyWhileParsing
  LibsInstalled
PROPERTIES
  ThrowFindsRecoverPoint
  RunLeavesRegisters
  RecoverPointsEnd
CHECK_DEADLOCK FALSE
