SPECIFICATION Spec
CONSTANTS
  Main = m
  Proc = {m, p}
  Modes = {"CONC"}
  Worker = {w1}
  MinWorker = 1
  Obj = {o1, o2}
  StartRoot = {}
  MaxRoot = 0
  Leaf = {o2}
  Global = global
  Null = null
  Free = free
  EpochMod = 3
  m = m
  p = p
  w1 = w1
  o1 = o1
  o2 = o2
CONSTRAINTS
  Shape
  Populated
  Prompt
  OneCycle
  Between
  CleanEnd
INVARIANTS
  NoLostObject
  EpochAgreement
