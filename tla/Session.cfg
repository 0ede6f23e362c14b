SPECIFICATION SSpec
CONSTANTS
  LongOpts <- MCLongOpts
  ShortOpts <- MCShortOpts
  Abbreviates <- MCAbbreviates
  CommandLines <- NoLines
  Environments = {FALSE}
  MaxReturned = 7
  Commands <- Proper
  Scripts <- MCScripts
  MaxTyped = 4
  MaxDepth = 4
  MaxSignals = 1
  Images <- MCImages
  Blocks = {1, 2}
  Fds = {3, 4}
  BeyondArgv <- Leftover
  Strtol <- MCStrtol
INVARIANTS
  RunsAsAsked
CHECK_DEADLOCK FALSE
