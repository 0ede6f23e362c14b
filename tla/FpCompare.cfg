SPECIFICATION Spec
CONSTANTS
  EXP = 4
  FRAC = 3
  SEXP = 3
  SFRAC = 1
  Fpr = {0, 1, 2}
  EstSlack = 2
  SingleSlack = 1
  DenormSlack = 4
  NormSlack = 1
  AbsWraps = TRUE
  Masks <- MCMasks
  Unmasked <- MCUnmasked
  OptSets <- MCOptSets
  Previous <- MCPrevious
  OperandValues <- MCOperandValues
  Results <- MCResults
INVARIANTS
  OrdinaryCompared
  OrderFree
  OtherwiseNaNsOnly
  ExponentRight
CHECK_DEADLOCK FALSE
