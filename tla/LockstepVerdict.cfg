SPECIFICATION Spec
CONSTANTS
  Images <- MCImages
  Conforming <- ConformingImages
  MaxImage = 18
  Reg <- MCReg
  ParamReg = "r0"
  LinkReg = "lr"
  WordMod = 4
  Mapped = {1}
  StartRegs <- MCStartRegs
  StartMem <- MCStartMem
  RegSizes <- SameBuild
  HeaderSize = 1
  MEMBLOCKLEN = 2
  Compared <- MCCompared
  Updated = {"r0"}
  Exec <- MCExec
INVARIANT MasterKnowsVerdict
