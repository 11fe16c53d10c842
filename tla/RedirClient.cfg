SPECIFICATION FairSpec
CONSTANTS
  Certs = {c1, c2}
  Pinned = {c1}
  Scripts <- OddThenGood
  Configs <- AllConfigs
  MaxConnects = 2
INVARIANTS TypeOK AuthTranscript SilentToUntrusted StreamIntegrity
PROPERTIES ConnectSettles ImplementsChannel
CHECK_DEADLOCK FALSE
