SPECIFICATION Spec
CONSTANTS
  Gpr <- MCGpr
  Bytes = 2
  ByteBits = 2
  Setups <- MCSetups
  Blocks <- MCBlocks
  MaxBlocks = 4
  Values = {0, 1}
  FramesOf <- MCFramesOf
  Junk <- MCJunk
  JunkConditions <- MCJunkConditions
INVARIANTS
  NoFalseAlarm
  NothingEscapes
  Healed
  MismatchNamed
PROPERTIES
  Resumes
  ExceptionsAreNew
CHECK_DEADLOCK FALSE
