SPECIFICATION FairSpec
CONSTANTS
  m = m
  d = d
  Proc = {m}
  Main = m
  Dispatcher = d
  Kind = {"HANDSHAKE", "USER", "TIMER", "DUMP"}
  MaxRequest = 2
  Null = null
INVARIANTS
  OneWorker
  StatusAsserted
  NoLostWakeup
  NotAsleep
PROPERTIES
  NoLostInterrupt
  HandshakeAnswered
