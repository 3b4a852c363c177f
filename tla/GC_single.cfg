SPECIFICATION Spec
CONSTANTS
  Main = m
  Proc = {m}
  Modes = {"CONC", "INC"}
  Worker = {w1}
  MinWorker = 1
  Obj = {o1, o2}
  StartRoot = {}
  MaxRoot = 1
  Leaf = {o2}
  Global = global
  Null = null
  Free = free
  EpochMod = 3
  m = m
  w1 = w1
  o1 = o1
  o2 = o2
CONSTRAINTS
  Shape
INVARIANTS
  TypeOK
  NoLostObject
  RootsAlive
  GrayNullAtEnd
  WeakTricolor
