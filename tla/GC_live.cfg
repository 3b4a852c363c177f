SPECIFICATION FairSpec
CONSTANTS
  Main = m
  Proc = {m}
  Modes = {"CONC"}
  Worker = {w1}
  MinWorker = 1
  Obj = {o1, o2}
  StartRoot = {o1}
  MaxRoot = 1
  Leaf = {}
  Global = global
  Null = null
  Free = free
  EpochMod = 3
  m = m
  w1 = w1
  o1 = o1
  o2 = o2
INVARIANTS
  GrayServed
PROPERTIES
  TriggerServed
  HandshakesEnd
  MarkEnds
  SweepEnds
