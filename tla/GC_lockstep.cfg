SPECIFICATION Spec
CONSTANTS
  Main = m
  Proc = {m, p, q}
  Modes = {"INC"}
  Worker = {}
  MinWorker = 0
  Obj = {}
  StartRoot = {}
  MaxRoot = 0
  Leaf = {}
  Global = global
  Null = null
  Free = free
  EpochMod = 3
  m = m
  p = p
  q = q
SYMMETRY ProcSymmetry
CONSTRAINTS
  NoScavenge
  Prompt
  FirstCycle
  Between
INVARIANTS
  LockstepInv
  BarrierInv
  InLockstep
  NoBarrierGap
PROPERTIES
  ImplementsHandshake
