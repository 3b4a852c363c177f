SPECIFICATION FairSpec
CONSTANTS
  m = m
  p = p
  d = d
  Proc = {m, p}
  Main = m
  Dispatcher = d
  Kind = {"HANDSHAKE"}
  MaxRequest = 0
  Null = null
INVARIANTS
  TypeOK
  RequestAlive
PROPERTIES
  ImplementsCustody
  ShutdownEnds
