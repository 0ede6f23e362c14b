SPECIFICATION OrderSpec
CONSTANTS
  Octet = {0, 1}
  W = 2
  RISU_MAGIC <- MCMagic
  Builds <- BigImages
  Sizes <- MCSizes
  Ops <- MCWords
  Pcs <- MCSizes
  Insns <- MCWords
  Regs <- MCWords
INVARIANT SizeWritten
