CONSTANTS
  Procs = {p1, p2}
  Nobody = Nobody
  Bufs = {b1, b2, b3}
  Blocks = {k1, k2, k3, k4}
  NoBlock = NoBlock
  NoBuf = NoBuf
  Values = {v1, v2}
  MaxPinned = 2
  MaxFailed = 1
SYMMETRY Symmetry
SPECIFICATION Spec
INVARIANTS OneBufferPerBlock QueueServed RefcntCounts SleepersAwaited
PROPERTY ContentsKept
