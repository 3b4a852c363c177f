SPECIFICATION Spec
CONSTANTS
  Main = m
  Proc = {m, p}
  Modes = {"CONC"}
  Worker = {w1}
  MinWorker = 1
  Obj = {o1}
  StartRoot = {}
  MaxRoot = 1
  Leaf = {o1}
  Global = global
  Null = null
  Free = free
  EpochMod = 3
  m = m
  p = p
  w1 = w1
  o1 = o1
CONSTRAINTS
  Shape
  Prompt
  CleanEnd
INVARIANTS
  RootsAlive
