SPECIFICATION TSpec
CONSTANTS
  ByteMod = 3
  LenBytes = 2
  DumpLen = 2
  SockBuf = 3
  Packets <- MCPackets
  Lengths <- MCLengths
  Responses = {"RES_OK", "RES_END"}
  ShortWrites = "anywhere"
  Interrupts = FALSE
  Apprentices = {a1}
  Backlog = 2
INVARIANT Delivered
