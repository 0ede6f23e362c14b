SPECIFICATION FairSpec
CONSTANTS
  N = 5
  Buffers <- MCBuffers
INVARIANTS
  ReadsAsGiven
  ArgvFits
  SplitRight
PROPERTIES
  EvalEnds
CHECK_DEADLOCK FALSE
