CONSTANTS
  Procs = {p1, p2, p3}
  Blocks = {b1, b2, b3, b4}
  Values = {v1, v2}
  NoBlock = NoBlock
  NotCached = NotCached
  LOGSIZE = 4
  MAXOPBLOCKS = 2
  LogBlocks = 4
  OpBlocks = 1
SYMMETRY Symmetry
SPECIFICATION Spec
INVARIANTS LogFits NoMissedWakeup
PROPERTY ImplementsAtomicDisk
