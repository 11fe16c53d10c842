SPECIFICATION Spec
CONSTANTS
  Tokens <- AllTokens
  MaxOpens <- Opens
  MaxSshCalls <- SshCalls
  MaxChatter <- Frames
  MaxInput = 2
  KvmSteps = 2
  IsoBlocks = 3
INVARIANTS LiveIsLinked FormatAgrees OnlyBlankFreezes ReadInOrder
PROPERTIES OpenSettles CommandEnds
CHECK_DEADLOCK FALSE
