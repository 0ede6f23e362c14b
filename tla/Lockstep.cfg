SPECIFICATION FairSpec
CONSTANTS
  Images <- MCImages
  Conforming <- ConformingImages
  MaxImage = 18
  Reg <- MCReg
  ParamReg = "r0"
  LinkReg = "lr"
  WordMod = 4
  Mapped = {1}
  StartRegs <- MCStartRegs
  StartMem <- MCStartMem
  RegSizes <- AnyBuild
  HeaderSize = 1
  MEMBLOCKLEN = 2
  Compared <- MCCompared
  Updated = {"r0"}
  Exec <- MCExec
INVARIANTS
  AcceptedAgree
  SuccessIsEarned
  AlarmIsGenuine
  SizeErrorsExplained
  InStep
  DoneTogether
  Inductive
PROPERTIES
  BothStop
  ConformingPasses
