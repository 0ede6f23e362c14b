SPECIFICATION CLSpec
CONSTANTS
  LongOpts <- MCLongOpts
  ShortOpts <- MCShortOpts
  Abbreviates <- MCAbbreviates
  CommandLines <- MCCommandLines
  Environments = {TRUE, FALSE}
  MaxArgs = 3
  LongLine = 5
  MaxReturned = 7
INVARIANTS
  OrderKept
  Permuted
  Attributed
PROPERTY ScanEnds
CHECK_DEADLOCK FALSE
