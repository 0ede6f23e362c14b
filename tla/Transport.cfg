SPECIFICATION TSpec
CONSTANTS
  ByteMod = 3
  LenBytes = 2
  DumpLen = 2
  SockBuf = 3
  Packets <- MCPackets
  Lengths <- MCLengths
  Responses = {"RES_OK", "RES_END"}
  ShortWrites = "between"
  Interrupts = TRUE
  Apprentices = {a1, a2}
  Backlog = 2
INVARIANTS
  Delivered
  OnePeer
PROPERTIES
  ImplementsChannel
  NoSilentDeadlock
  SenderGoneNoticed
  NobodyForgotten
