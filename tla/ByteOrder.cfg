SPECIFICATION OrderSpec
CONSTANTS
  Octet = {0, 1}
  W = 2
  RISU_MAGIC <- MCMagic
  Builds <- AllBuilds
  Sizes <- MCSizes
  Ops <- MCWords
  Pcs <- MCSizes
  Insns <- MCWords
  Regs <- MCWords
INVARIANTS
  WireInv
  HeaderUnderstood
  ReginfoUnderstood
