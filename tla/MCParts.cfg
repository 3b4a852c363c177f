SPECIFICATION Spec
CONSTANTS
  ArenaSize = 5
  Allocators = {a1}
  UnmapTask = unmap
  Count = {0, 1, 2, 5}
  Values = {0, 5}
  Slot = {1, 2}
  MaxNode = 4
  Target = {1, 2}
  Aging = 1
  MaxOps = 6
  AgedOnly = FALSE
  Timeouts = {t1, t2}
  Interval = interval
  MaxTime = 3
  Keys = {k1, k2, k3, k4}
  Hashes = {0, 1, 3, 7}
  InitSize = 4
  Vecs = {v1, v2}
  Elems = {x}
  BlockLen = 2
  ChunkBlocks = 2
  MaxChunks = 2
  StackInit = 4
  StackStep = 8
  StackHot = 3
  StackLimit = 24
  FrameSizes = {1, 3}
  MaxFrames = 4
  MaxSize = 30
  MThreads = {th}
  MaxLoads = 5
  Arities = {1, 2, 5, 7}
  Calls = {1, 2, 3, 7}
  MaxArgs = 9
  ChunkMin = 8
  BlockSizes = {0, 1, 2, 3, 8, 10}
  MallocChunks = {1, 2}
  MaxBlocks = 3
  Writers = {w1, w2}
  EventWorker = ew
  MaxBuffers = 3
  BufSize = 5
  Messages = {1, 2, 4, 5, 6}
  Longer = 1
  MaxLog = 3
  Pipe = FALSE
  Handles = {h1}
  Sweepers = {s1}
  Segment = {1, 2}
  PagesPerSegment = 2
  SmallPage = 6
  MediumPage = 8
  SmallSizes = {2}
  MediumSizes = {3, 4}
  LargeObjects = {l1, l2}
  Runners = {p1, p2}
  Stacks = {s1}
  Refs = {o1, o2}
  Overlap = FALSE
  p1 = p1
  p2 = p2
  o1 = o1
  o2 = o2
  h1 = h1
  s1 = s1
  l1 = l1
  l2 = l2
  w1 = w1
  w2 = w2
  ew = ew
  a1 = a1
  unmap = unmap
  t1 = t1
  t2 = t2
  interval = interval
  k1 = k1
  k2 = k2
  k3 = k3
  k4 = k4
  v1 = v1
  v2 = v2
  x = x
  th = th
INVARIANTS
  MemorySound HeapSound EventsWhole OnBoundaries SearchesFind Faithful HeapInvariants
  TimersServed VecHolds FramesKept StacksScanned ImportsReady ArgumentsInOrder
CHECK_DEADLOCK FALSE
